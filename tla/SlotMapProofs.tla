--------------------------- MODULE SlotMapProofs ---------------------------
(***************************************************************************)
(* The slot table, for any number of slots, servers and ranges, and any    *)
(* number of addresses in a range.                                         *)
(***************************************************************************)
EXTENDS SlotMap, SlotTableProofs

-----------------------------------------------------------------------------
(* Flattening a sequence of sequences                                      *)

\* h[i] is the concatenation of the first i elements of s.
Flattens(h, s, n) ==
  /\ h[1] = s[1]
  /\ \A i \in 2 .. n : h[i] = h[i - 1] \o s[i]

LEMMA FlattenExists ==
  ASSUME NEW S, NEW n \in Nat, n >= 1, NEW s \in [1 .. n -> Seq(S)]
  PROVE  \E h \in [1 .. n -> Seq(S)] : Flattens(h, s, n)
  <1> DEFINE Bad == {m \in 1 .. n : ~\E h \in [1 .. m -> Seq(S)] : Flattens(h, s, m)}
  <1> SUFFICES ASSUME Bad # {} PROVE FALSE
    OBVIOUS
  <1>0. Bad \subseteq Nat
    OBVIOUS
  <1>1. PICK m \in Bad : \A y \in Bad : m <= y
    <2> HIDE DEF Bad
    <2> QED
      BY <1>0, Least
  <1>2. m \in Nat /\ m >= 1 /\ m <= n
    OBVIOUS
  <1>3. CASE m = 1
    <2> DEFINE h == [i \in 1 .. 1 |-> s[1]]
    <2>1. h \in [1 .. 1 -> Seq(S)] /\ h[1] = s[1] /\ \A i \in 2 .. 1 : FALSE
      OBVIOUS
    <2> HIDE DEF h
    <2> QED
      BY <1>3, <2>1 DEF Flattens
  <1>4. CASE m > 1
    <2>1. m - 1 \in 1 .. n /\ m - 1 \notin Bad
      <3>1. m - 1 \in 1 .. n /\ ~(m <= m - 1)
        BY <1>2, <1>4
      <3> HIDE DEF Bad
      <3> QED
        BY <1>1, <3>1
    <2>2. PICK g \in [1 .. (m - 1) -> Seq(S)] : Flattens(g, s, m - 1)
      BY <2>1
    <2> DEFINE h == [i \in 1 .. m |-> IF i = m THEN g[m - 1] \o s[m] ELSE g[i]]
    <2>3. g[m - 1] \in Seq(S) /\ s[m] \in Seq(S)
      BY <1>2, <1>4
    <2>4. g[m - 1] \o s[m] \in Seq(S)
      BY <2>3
    <2>5. h \in [1 .. m -> Seq(S)]
      <3>1. \A i \in 1 .. m : i # m => i \in 1 .. (m - 1)
        BY <1>2
      <3> QED
        BY <2>4, <3>1
    <2>6. h[1] = s[1]
      BY <1>2, <1>4, <2>2 DEF Flattens
    <2>7. ASSUME NEW i \in 2 .. m PROVE h[i] = h[i - 1] \o s[i]
      <3>1. i - 1 \in 1 .. m /\ i - 1 # m /\ i \in 1 .. m
        BY <1>2
      <3>2. h[i - 1] = g[i - 1]
        BY <3>1
      <3>3. CASE i = m
        BY <3>1, <3>2, <3>3
      <3>4. CASE i # m
        <4>1. i \in 2 .. (m - 1)
          BY <1>2, <3>4
        <4>2. g[i] = g[i - 1] \o s[i]
          BY <2>2, <4>1 DEF Flattens
        <4> QED
          BY <3>1, <3>2, <3>4, <4>2
      <3> QED
        BY <3>3, <3>4
    <2>8. Flattens(h, s, m)
      BY <2>6, <2>7 DEF Flattens
    <2> QED
      BY <2>5, <2>8
  <1> QED
    BY <1>2, <1>3, <1>4

\* What FlattenSeq returns.
LEMMA FlattenIs ==
  ASSUME NEW S, NEW n \in Nat, n >= 1, NEW s \in [1 .. n -> Seq(S)]
  PROVE  \E h : Flattens(h, s, n) /\ FlattenSeq(s) = h[n]
  <1> DEFINE Rec(h) == h = [i \in 1 .. Len(s) |-> IF i = 1 THEN s[i] ELSE h[i - 1] \o s[i]]
             f == CHOOSE h : Rec(h)
  <1>1. Len(s) = n
    OBVIOUS
  <1>2. PICK g \in [1 .. n -> Seq(S)] : Flattens(g, s, n)
    BY FlattenExists
  <1>3. Rec(g)
    <2>1. \A i \in 1 .. n : i = 1 \/ i \in 2 .. n
      OBVIOUS
    <2>2. \A i \in 1 .. n : g[i] = IF i = 1 THEN s[i] ELSE g[i - 1] \o s[i]
      BY <1>2, <2>1 DEF Flattens
    <2> QED
      BY <1>1, <2>2
  <1>4. Rec(f)
    BY <1>3
  <1>5. FlattenSeq(s) = f[n]
    BY <1>1 DEF FlattenSeq
  <1> HIDE DEF f
  <1>6. Flattens(f, s, n)
    <2>1. 1 \in 1 .. n /\ \A i \in 2 .. n : i \in 1 .. n /\ i # 1
      OBVIOUS
    <2>2. \A i \in 1 .. n : f[i] = IF i = 1 THEN s[i] ELSE f[i - 1] \o s[i]
      BY <1>1, <1>4
    <2> QED
      BY <2>1, <2>2 DEF Flattens
  <1> QED
    BY <1>5, <1>6

-----------------------------------------------------------------------------
(* The servers of a range                                                  *)

\* pick_cluster_endpoint_from_reply finds the server an address names.
LEMMA PickNames ==
  ASSUME NEW p \in Peers, NEW a \in Addresses
  PROVE  /\ Names(p, a) => ServerOf(p, a) \in Servers
         /\ pick_cluster_endpoint_from_reply(p, a) = IF Names(p, a) THEN <<ServerOf(p, a)>> ELSE <<>>
  <1>0. PortMax \in Nat
    BY SlotMapAssumption DEF SlotMapAssumption
  <1>1. /\ "" \notin Ips /\ "?" \notin Ips /\ "nil" \notin Ips /\ "other" \notin Ips
        /\ p \in [tcp : BOOLEAN, host : Ips \cup {"", "?"}, source : Ips \cup {"", "?"}]
    BY SlotMapAssumption DEF SlotMapAssumption
  <1>2. a.endpoint \in Ips \cup {"", "?", "nil", "other"} /\ a.port \in -1 .. PortMax + 1
    BY DEF Addresses
  <1>a. a.port \in Int
    <2>1. \A x, y \in Int : \A z \in x .. y : z \in Int
      OBVIOUS
    <2>2. -1 \in Int /\ PortMax + 1 \in Int
      BY <1>0
    <2> QED
      BY <1>2, <2>1, <2>2
  <1>3. a.port \in 0 .. PortMax <=> (0 <= a.port /\ a.port <= PortMax)
    BY <1>0, <1>a
  <1>4. /\ p.tcp \in BOOLEAN /\ p.host \in Ips \cup {"", "?"} /\ p.source \in Ips \cup {"", "?"}
    BY <1>1
  <1>5. PeerIp(p) = IF ~p.tcp THEN "" ELSE IF p.host \in Ips THEN p.host
                       ELSE IF p.source \in Ips THEN p.source ELSE ""
    BY <1>1, <1>4 DEF PeerIp, Known
  <1>6. CASE a.endpoint \in Ips
    <2>1. Names(p, a) <=> a.port \in 0 .. PortMax
      BY <1>3, <1>6 DEF Names
    <2>2. ServerOf(p, a) = [ip |-> a.endpoint, port |-> a.port]
      <3>1. IpOf(p, a) = a.endpoint
        BY <1>6 DEF IpOf
      <3> QED
        BY <3>1 DEF ServerOf
    <2>3. a.endpoint \notin {"", "nil", "?", "other"}
      BY <1>1, <1>6
    <2>4. pick_cluster_endpoint_from_reply(p, a)
            = IF a.port \in 0 .. PortMax THEN <<[ip |-> a.endpoint, port |-> a.port]>> ELSE <<>>
      BY <2>3 DEF pick_cluster_endpoint_from_reply
    <2> QED
      BY <1>6, <2>1, <2>2, <2>4 DEF Servers
  <1>7. CASE a.endpoint \in {"", "nil"}
    <2>1. a.endpoint \notin Ips /\ a.endpoint \notin {"?", "other"}
      BY <1>1, <1>7
    <2>2. Names(p, a) <=> a.port \in 0 .. PortMax /\ PeerIp(p) # ""
      BY <1>1, <1>3, <1>4, <1>5, <1>7, <2>1 DEF Names
    <2>3. Names(p, a) => ServerOf(p, a) = [ip |-> PeerIp(p), port |-> a.port] /\ PeerIp(p) \in Ips
      <3>1. Names(p, a) => IpOf(p, a) = PeerIp(p) /\ PeerIp(p) \in Ips
        BY <1>1, <1>4, <1>5, <2>1, <2>2 DEF IpOf
      <3> QED
        BY <3>1 DEF ServerOf
    <2>4. pick_cluster_endpoint_from_reply(p, a)
            = IF PeerIp(p) # "" /\ a.port \in 0 .. PortMax
              THEN <<[ip |-> PeerIp(p), port |-> a.port]>> ELSE <<>>
      BY <1>7, <2>1 DEF pick_cluster_endpoint_from_reply
    <2>5. Names(p, a) => [ip |-> PeerIp(p), port |-> a.port] \in Servers
      BY <2>2, <2>3 DEF Servers
    <2>6. CASE Names(p, a)
      BY <2>2, <2>3, <2>4, <2>5, <2>6
    <2>7. CASE ~Names(p, a)
      BY <2>2, <2>4, <2>7
    <2> QED
      BY <2>6, <2>7
  <1>8. CASE a.endpoint \in {"?", "other"}
    BY <1>1, <1>8 DEF Names, pick_cluster_endpoint_from_reply
  <1> QED
    BY <1>2, <1>6, <1>7, <1>8

\* How many of the first i addresses name a server.
Rank(p, addrs, i) == Cardinality({j \in 1 .. i : Names(p, addrs[j])})

LEMMA RankStep ==
  ASSUME NEW p, NEW addrs
  PROVE  /\ Rank(p, addrs, 0) = 0
         /\ \A i \in Nat : /\ Rank(p, addrs, i) \in Nat
                           /\ Rank(p, addrs, i + 1) = Rank(p, addrs, i) + (IF Names(p, addrs[i + 1]) THEN 1 ELSE 0)
  <1> DEFINE N(i) == {j \in 1 .. i : Names(p, addrs[j])}
  <1>1. N(0) = {}
    OBVIOUS
  <1>2. Rank(p, addrs, 0) = 0
    BY <1>1, FS_EmptySet DEF Rank
  <1>3. ASSUME NEW i \in Nat
        PROVE  /\ IsFiniteSet(N(i)) /\ Cardinality(N(i)) \in Nat
               /\ Cardinality(N(i + 1)) = Cardinality(N(i)) + (IF Names(p, addrs[i + 1]) THEN 1 ELSE 0)
    <2>1. IsFiniteSet(1 .. i) /\ N(i) \subseteq 1 .. i
      BY FS_Interval
    <2>2. IsFiniteSet(N(i))
      BY <2>1, FS_Subset
    <2>3. Cardinality(N(i)) \in Nat
      BY <2>2, FS_CardinalityType
    <2>4. i + 1 \notin N(i)
      OBVIOUS
    <2>5. \A j : j \in 1 .. (i + 1) <=> j \in 1 .. i \/ j = i + 1
      OBVIOUS
    <2>6. N(i + 1) = IF Names(p, addrs[i + 1]) THEN N(i) \cup {i + 1} ELSE N(i)
      BY <2>5
    <2> HIDE DEF N
    <2>7. Cardinality(N(i) \cup {i + 1}) = Cardinality(N(i)) + 1
      BY <2>2, <2>4, FS_AddElement
    <2> QED
      BY <2>2, <2>3, <2>6, <2>7
  <1> QED
    BY <1>2, <1>3 DEF Rank

\* The first i addresses of a range are listed by hosts.
ListsUpTo(p, hosts, addrs, i) ==
  /\ hosts \in Seq(Servers) /\ Len(hosts) = Rank(p, addrs, i)
  /\ \A j \in 1 .. i : Names(p, addrs[j]) =>
       Rank(p, addrs, j) \in 1 .. Rank(p, addrs, i) /\ hosts[Rank(p, addrs, j)] = ServerOf(p, addrs[j])
  /\ \A m \in 1 .. Rank(p, addrs, i) : \E j \in 1 .. i : Names(p, addrs[j]) /\ Rank(p, addrs, j) = m

LEMMA ListOne ==
  ASSUME NEW p, NEW hosts, NEW addrs, NEW i \in Nat, ListsUpTo(p, hosts, addrs, i),
         Names(p, addrs[i + 1]) => ServerOf(p, addrs[i + 1]) \in Servers
  PROVE  ListsUpTo(p, hosts \o (IF Names(p, addrs[i + 1]) THEN <<ServerOf(p, addrs[i + 1])>> ELSE <<>>), addrs, i + 1)
  <1> DEFINE r == Rank(p, addrs, i)
             x == ServerOf(p, addrs[i + 1])
  <1>1. /\ hosts \in Seq(Servers) /\ Len(hosts) = r /\ r \in Nat
        /\ Rank(p, addrs, i + 1) = r + (IF Names(p, addrs[i + 1]) THEN 1 ELSE 0)
    BY RankStep DEF ListsUpTo
  <1>2. \A j \in 1 .. (i + 1) : j \in 1 .. i \/ j = i + 1
    OBVIOUS
  <1>3. CASE ~Names(p, addrs[i + 1])
    <2>1. hosts \o <<>> = hosts
      BY <1>1
    <2> QED
      BY <1>1, <1>2, <1>3, <2>1 DEF ListsUpTo
  <1>4. CASE Names(p, addrs[i + 1])
    <2> DEFINE t == hosts \o <<x>>
    <2>1. /\ t \in Seq(Servers) /\ Len(t) = r + 1 /\ t[r + 1] = x
          /\ \A m \in 1 .. r : t[m] = hosts[m]
      BY <1>1, <1>4
    <2>2. Rank(p, addrs, i + 1) = r + 1
      BY <1>1, <1>4
    <2> HIDE DEF t
    <2>3. ASSUME NEW j \in 1 .. (i + 1), Names(p, addrs[j])
          PROVE  Rank(p, addrs, j) \in 1 .. (r + 1) /\ t[Rank(p, addrs, j)] = ServerOf(p, addrs[j])
      <3>1. CASE j = i + 1
        BY <1>1, <2>1, <2>2, <3>1
      <3>2. CASE j \in 1 .. i
        <4>1. Rank(p, addrs, j) \in 1 .. r /\ hosts[Rank(p, addrs, j)] = ServerOf(p, addrs[j])
          BY <2>3, <3>2 DEF ListsUpTo
        <4> QED
          BY <1>1, <2>1, <4>1
      <3> QED
        BY <1>2, <3>1, <3>2
    <2>4. ListsUpTo(p, t, addrs, i + 1)
      <3>1. ASSUME NEW m \in 1 .. (r + 1)
            PROVE  \E j \in 1 .. (i + 1) : Names(p, addrs[j]) /\ Rank(p, addrs, j) = m
        <4>1. CASE m = r + 1
          <5>1. i + 1 \in 1 .. (i + 1)
            OBVIOUS
          <5> QED
            BY <1>4, <2>2, <4>1, <5>1
        <4>2. CASE m # r + 1
          <5>1. m \in 1 .. r
            BY <1>1, <4>2
          <5>2. PICK j \in 1 .. i : Names(p, addrs[j]) /\ Rank(p, addrs, j) = m
            BY <5>1 DEF ListsUpTo
          <5>3. j \in 1 .. (i + 1)
            OBVIOUS
          <5> QED
            BY <5>2, <5>3
        <4> QED
          BY <4>1, <4>2
      <3> QED
        BY <2>1, <2>2, <2>3, <3>1 DEF ListsUpTo
    <2> QED
      BY <1>4, <2>4 DEF t
  <1> QED
    BY <1>3, <1>4

LEMMA ListsIs ==
  ASSUME NEW p, NEW hosts, NEW addrs \in Seq(Addresses), ListsUpTo(p, hosts, addrs, Len(addrs))
  PROVE  Lists(p, hosts, addrs)
  <1> DEFINE n == Len(addrs)
             named == {j \in DOMAIN addrs : Names(p, addrs[j])}
  <1>1. n \in Nat /\ DOMAIN addrs = 1 .. n
    OBVIOUS
  <1>2. named = {j \in 1 .. n : Names(p, addrs[j])}
    BY <1>1
  <1>3. ASSUME NEW j \in 1 .. n
        PROVE  {i \in named : i <= j} = {i \in 1 .. j : Names(p, addrs[i])}
    <2>1. \A i : (i \in 1 .. n /\ i <= j) <=> i \in 1 .. j
      BY <1>1
    <2> QED
      BY <1>2, <2>1
  <1>4. \A j \in 1 .. n : Cardinality({i \in named : i <= j}) = Rank(p, addrs, j)
    BY <1>3 DEF Rank
  <1>5. Cardinality(named) = Rank(p, addrs, n)
    BY <1>2 DEF Rank
  <1>6. \A j \in named : j \in 1 .. n /\ Names(p, addrs[j])
    BY <1>2
  <1>7. /\ Len(hosts) = Rank(p, addrs, n)
        /\ \A j \in 1 .. n : Names(p, addrs[j]) => hosts[Rank(p, addrs, j)] = ServerOf(p, addrs[j])
    BY DEF ListsUpTo
  <1>8. \A j \in named : hosts[Cardinality({i \in named : i <= j})] = ServerOf(p, addrs[j])
    <2> HIDE DEF named
    <2> QED
      BY <1>4, <1>6, <1>7
  <1> HIDE DEF n
  <1>9. Len(hosts) = Cardinality(named)
    BY <1>5, <1>7
  <1> QED
    BY <1>8, <1>9 DEF Lists

\* A range lists the servers its addresses name.
LEMMA HostsListed ==
  ASSUME NEW p \in Peers, NEW node \in Nodes
  PROVE  /\ HostsOf(p, node) \in Seq(Servers) /\ Lists(p, HostsOf(p, node), node.addrs)
         /\ \A m \in 1 .. Len(HostsOf(p, node)) : \E j \in DOMAIN node.addrs :
              /\ Names(p, node.addrs[j]) /\ Rank(p, node.addrs, j) = m
              /\ HostsOf(p, node)[m] = ServerOf(p, node.addrs[j])
  <1> DEFINE addrs == node.addrs
             n     == Len(addrs)
             s     == [j \in DOMAIN addrs |-> pick_cluster_endpoint_from_reply(p, addrs[j])]
  <1>1. addrs \in Seq(Addresses)
    BY SlotMapAssumption DEF SlotMapAssumption, IsNode
  <1>2. n \in Nat /\ DOMAIN addrs = 1 .. n /\ \A j \in 1 .. n : addrs[j] \in Addresses
    BY <1>1
  <1>3. HostsOf(p, node) = FlattenSeq(s)
    BY DEF HostsOf
  <1> HIDE DEF addrs
  <1>4. \A j \in 1 .. n : /\ Names(p, addrs[j]) => ServerOf(p, addrs[j]) \in Servers
                          /\ s[j] = IF Names(p, addrs[j]) THEN <<ServerOf(p, addrs[j])>> ELSE <<>>
    <2>1. ASSUME NEW j \in 1 .. n
          PROVE  /\ Names(p, addrs[j]) => ServerOf(p, addrs[j]) \in Servers
                 /\ pick_cluster_endpoint_from_reply(p, addrs[j]) = IF Names(p, addrs[j]) THEN <<ServerOf(p, addrs[j])>> ELSE <<>>
      <3>1. addrs[j] \in Addresses
        BY <1>2
      <3> QED
        BY <3>1, PickNames
    <2> QED
      BY <1>2, <2>1
  <1>5. s \in [1 .. n -> Seq(Servers)]
    <2>1. ASSUME NEW j \in 1 .. n PROVE s[j] \in Seq(Servers)
      <3>0. /\ Names(p, addrs[j]) => ServerOf(p, addrs[j]) \in Servers
            /\ s[j] = IF Names(p, addrs[j]) THEN <<ServerOf(p, addrs[j])>> ELSE <<>>
        BY <1>4
      <3> HIDE DEF s
      <3>1. CASE Names(p, addrs[j])
        <4>1. \A x \in Servers : <<x>> \in Seq(Servers)
          OBVIOUS
        <4> QED
          BY <3>0, <3>1, <4>1
      <3>2. CASE ~Names(p, addrs[j])
        BY <3>0, <3>2
      <3> QED
        BY <3>1, <3>2
    <2> QED
      BY <1>2, <2>1
  <1> HIDE DEF s
  <1>6. ListsUpTo(p, <<>>, addrs, 0)
    <2>1. Rank(p, addrs, 0) = 0
      BY RankStep
    <2> QED
      BY <2>1 DEF ListsUpTo
  <1>7. ListsUpTo(p, FlattenSeq(s), addrs, n)
    <2>1. CASE n = 0
      <3>1. s = <<>>
        BY <1>5, <2>1
      <3>2. FlattenSeq(s) = <<>>
        BY <3>1 DEF FlattenSeq
      <3> QED
        BY <1>6, <2>1, <3>2
    <2>2. CASE n >= 1
      <3>1. PICK h : Flattens(h, s, n) /\ FlattenSeq(s) = h[n]
        BY <1>2, <1>5, <2>2, FlattenIs
      <3> DEFINE Bad == {i \in 1 .. n : ~ListsUpTo(p, h[i], addrs, i)}
      <3>2. Bad = {}
        <4> SUFFICES ASSUME Bad # {} PROVE FALSE
          OBVIOUS
        <4>1. Bad \subseteq Nat
          OBVIOUS
        <4>2. PICK m \in Bad : \A y \in Bad : m <= y
          <5> HIDE DEF Bad
          <5> QED
            BY <4>1, Least
        <4>3. m \in 1 .. n /\ m - 1 \in Nat /\ (m - 1) + 1 = m /\ ~ListsUpTo(p, h[m], addrs, m)
          BY <1>2
        <4> DEFINE x == IF Names(p, addrs[m]) THEN <<ServerOf(p, addrs[m])>> ELSE <<>>
        <4>4. s[m] = x /\ (Names(p, addrs[m]) => ServerOf(p, addrs[m]) \in Servers) /\ s[m] \in Seq(Servers)
          BY <1>4, <1>5, <4>3
        <4>5. \A g : ListsUpTo(p, g, addrs, m - 1) => ListsUpTo(p, g \o s[m], addrs, m)
          BY <4>3, <4>4, ListOne
        <4>6. CASE m = 1
          <5>1. h[m] = <<>> \o s[m]
            BY <3>1, <4>4, <4>6 DEF Flattens
          <5> QED
            <6>1. ListsUpTo(p, <<>>, addrs, m - 1)
              BY <1>6, <4>6
            <6> QED
              BY <4>3, <4>5, <5>1, <6>1
        <4>7. CASE m # 1
          <5>1. m \in 2 .. n /\ m - 1 \in 1 .. n /\ ~(m <= m - 1)
            BY <1>2, <4>3, <4>7
          <5>2. h[m] = h[m - 1] \o s[m]
            BY <3>1, <5>1 DEF Flattens
          <5>3. ListsUpTo(p, h[m - 1], addrs, m - 1)
            BY <4>2, <5>1
          <5> QED
            BY <4>3, <4>5, <5>2, <5>3
        <4> QED
          BY <4>6, <4>7
      <3>3. n \in 1 .. n
        BY <1>2, <2>2
      <3> QED
        BY <3>1, <3>2, <3>3
    <2> QED
      BY <1>2, <2>1, <2>2
  <1>8. FlattenSeq(s) \in Seq(Servers)
    BY <1>7 DEF ListsUpTo
  <1>9. Lists(p, FlattenSeq(s), addrs)
    BY <1>1, <1>7, ListsIs
  <1>10. ASSUME NEW m \in 1 .. Len(FlattenSeq(s))
         PROVE  \E j \in DOMAIN addrs : /\ Names(p, addrs[j]) /\ Rank(p, addrs, j) = m
                                        /\ FlattenSeq(s)[m] = ServerOf(p, addrs[j])
    BY <1>2, <1>7 DEF ListsUpTo
  <1> QED
    BY <1>3, <1>8, <1>9, <1>10 DEF addrs

-----------------------------------------------------------------------------
(* The table follows the reply                                             *)

MapTypeOK ==
  /\ slots_ \in [Slots -> Seq(Servers)]
  /\ peer \in Peers /\ reply \in Seq(Nodes)
  /\ fresh \in BOOLEAN /\ removed \in SUBSET Servers

LEMMA SlotCountNat == SlotCount \in Nat /\ SlotCount >= 1 /\ \A s \in Slots : s \in Int /\ 0 <= s /\ s <= SlotCount - 1
  BY SlotTableAssumption DEF SlotTableAssumption, Slots

LEMMA NodeType ==
  ASSUME NEW node \in Nodes
  PROVE  node.ok \in BOOLEAN /\ node.from \in Int /\ node.to \in Int /\ node.addrs \in Seq(Addresses)
  BY SlotMapAssumption DEF SlotMapAssumption, IsNode

LEMMA UpdateRangeIs ==
  ASSUME NEW table \in [Slots -> Seq(Servers)], NEW p \in Peers, NEW node \in Nodes
  PROVE  /\ update_range(table, p, node) \in [Slots -> Seq(Servers)]
         /\ \A s \in Slots : update_range(table, p, node)[s]
              = IF node.ok /\ node.from <= s /\ s <= node.to THEN HostsOf(p, node) ELSE table[s]
  <1> DEFINE si == IF node.from < 0 THEN 0 ELSE node.from
             ei == IF node.to >= SlotCount THEN SlotCount - 1 ELSE node.to
  <1>1. HostsOf(p, node) \in Seq(Servers)
    BY HostsListed
  <1>2. ASSUME NEW s \in Slots PROVE s \in si .. ei <=> (node.from <= s /\ s <= node.to)
    BY SlotCountNat, NodeType
  <1>3. update_range(table, p, node) = [s \in Slots |-> IF node.ok /\ s \in si .. ei THEN HostsOf(p, node) ELSE table[s]]
    BY DEF update_range
  <1> HIDE DEF si, ei
  <1> QED
    BY <1>1, <1>2, <1>3

LEMMA MapTypeStep == MapTypeOK /\ [MapNext]_mapVars => MapTypeOK'
  <1> SUFFICES ASSUME MapTypeOK, [MapNext]_mapVars PROVE MapTypeOK'
    OBVIOUS
  <1> USE DEF MapTypeOK
  <1>0. Cleared \in [Slots -> Seq(Servers)] /\ <<>> \in Seq(Nodes)
    BY DEF Cleared
  <1>1. ASSUME NEW p \in Peers, LoadBegin(p) PROVE MapTypeOK'
    BY <1>0, <1>1 DEF LoadBegin
  <1>2. ASSUME NEW n \in Nodes, LoadRange(n) PROVE MapTypeOK'
    <2>1. update_range(slots_, peer, n) \in [Slots -> Seq(Servers)]
      BY UpdateRangeIs
    <2> QED
      BY <1>2, <2>1 DEF LoadRange
  <1>3. ASSUME NEW k \in Servers, LoseServer(k) PROVE MapTypeOK'
    BY <1>0, <1>3, RemoveType DEF LoseServer, Change
  <1>4. ASSUME NEW k \in Servers, NEW i \in Slots, Moved(i, k) PROVE MapTypeOK'
    <2>1. <<k>> \in Seq(Servers)
      OBVIOUS
    <2> QED
      BY <1>0, <1>4, <2>1 DEF Moved, Change
  <1>5. CASE Clear
    BY <1>0, <1>5 DEF Clear, Change
  <1>6. CASE UNCHANGED mapVars
    BY <1>6 DEF mapVars
  <1> QED
    BY <1>1, <1>2, <1>3, <1>4, <1>5, <1>6 DEF MapNext

LEMMA MaxIn ==
  ASSUME NEW n \in Nat, NEW S, S \subseteq 1 .. n, S # {}
  PROVE  Max(S) \in S /\ \A y \in S : Max(S) >= y
  <1> DEFINE T == {x \in Nat : \E m \in S : x = n - m}
  <1>1. T \subseteq Nat
    OBVIOUS
  <1>2. T # {}
    <2>1. PICK m \in S : TRUE
      OBVIOUS
    <2>2. n - m \in Nat
      OBVIOUS
    <2> QED
      BY <2>2
  <1>3. PICK x \in T : \A y \in T : x <= y
    <2> HIDE DEF T
    <2> QED
      BY <1>1, <1>2, Least
  <1>4. PICK m \in S : x = n - m
    OBVIOUS
  <1>5. ASSUME NEW y \in S PROVE m >= y
    <2>1. n - y \in T /\ m \in Nat /\ y \in Nat
      OBVIOUS
    <2> HIDE DEF T
    <2>2. n - m <= n - y
      BY <1>3, <1>4, <2>1
    <2> QED
      BY <2>1, <2>2
  <1> QED
    BY <1>5 DEF Max

\* The entries of a reply whose range holds the slot.
Holds(r, s) == {n \in DOMAIN r : r[n].ok /\ r[n].from <= s /\ s <= r[n].to}
Says(r, s)  == IF Holds(r, s) = {} THEN <<>> ELSE r[Max(Holds(r, s))].addrs

LEMMA SaysNext ==
  ASSUME NEW r \in Seq(Nodes), NEW node \in Nodes, NEW s \in Slots
  PROVE  Says(Append(r, node), s)
           = IF node.ok /\ node.from <= s /\ s <= node.to THEN node.addrs ELSE Says(r, s)
  <1> DEFINE L == Len(r)
             q == Append(r, node)
  <1>1. /\ L \in Nat /\ DOMAIN r = 1 .. L /\ DOMAIN q = 1 .. (L + 1) /\ q[L + 1] = node
        /\ \A i \in 1 .. L : q[i] = r[i] /\ i \in 1 .. (L + 1)
        /\ L + 1 \notin 1 .. L /\ L + 1 \in 1 .. (L + 1)
        /\ \A i \in 1 .. (L + 1) : i \in 1 .. L \/ i = L + 1
    OBVIOUS
  <1> HIDE DEF L, q
  <1>2. Holds(r, s) \subseteq 1 .. L /\ Holds(q, s) \subseteq 1 .. (L + 1)
    BY <1>1 DEF Holds
  <1>3. CASE node.ok /\ node.from <= s /\ s <= node.to
    <2>1. L + 1 \in Holds(q, s)
      BY <1>1, <1>3 DEF Holds
    <2>2. Max(Holds(q, s)) \in 1 .. (L + 1) /\ Max(Holds(q, s)) >= L + 1
      <3>1. L + 1 \in Nat
        BY <1>1
      <3> QED
        BY <1>2, <2>1, <3>1, MaxIn
    <2>3. Max(Holds(q, s)) = L + 1
      BY <1>1, <2>2
    <2> QED
      BY <1>1, <1>3, <2>1, <2>3 DEF Says, q
  <1>4. CASE ~(node.ok /\ node.from <= s /\ s <= node.to)
    <2>1. Holds(q, s) = Holds(r, s)
      BY <1>1, <1>4 DEF Holds
    <2>2. Holds(r, s) # {} => q[Max(Holds(r, s))] = r[Max(Holds(r, s))]
      BY <1>1, <1>2, MaxIn
    <2>3. Says(q, s) = Says(r, s)
      BY <2>1, <2>2 DEF Says
    <2> QED
      BY <1>4, <2>3 DEF q
  <1> QED
    BY <1>3, <1>4

LEMMA SaysNothing ==
  ASSUME NEW p, NEW s \in Slots
  PROVE  Lists(p, Cleared[s], Says(<<>>, s))
  <1>1. Says(<<>>, s) = <<>>
    BY DEF Says, Holds
  <1>2. {j \in DOMAIN <<>> : Names(p, <<>>[j])} = {}
    OBVIOUS
  <1>3. Cardinality({}) = 0
    BY FS_EmptySet
  <1>4. Cleared[s] = <<>>
    BY DEF Cleared
  <1> QED
    BY <1>1, <1>2, <1>3, <1>4 DEF Lists

FollowPart == fresh => \A s \in Slots : Lists(peer, slots_[s], Says(reply, s))

LEMMA FollowIs == FollowPart <=> SlotsFollowReply
  BY DEF FollowPart, SlotsFollowReply, Says, Holds

LEMMA FollowStep == MapTypeOK /\ FollowPart /\ [MapNext]_mapVars => FollowPart'
  <1> SUFFICES ASSUME MapTypeOK, FollowPart, [MapNext]_mapVars PROVE FollowPart'
    OBVIOUS
  <1>1. ASSUME NEW p \in Peers, LoadBegin(p) PROVE FollowPart'
    BY <1>1, SaysNothing DEF LoadBegin, FollowPart
  <1>2. ASSUME NEW n \in Nodes, LoadRange(n) PROVE FollowPart'
    <2>1. /\ fresh /\ peer' = peer /\ slots_' = update_range(slots_, peer, n)
          /\ reply' = Append(reply, n) /\ peer \in Peers /\ reply \in Seq(Nodes)
          /\ slots_ \in [Slots -> Seq(Servers)]
      BY <1>2 DEF LoadRange, MapTypeOK
    <2>2. ASSUME NEW s \in Slots PROVE Lists(peer', slots_'[s], Says(reply', s))
      <3>1. slots_'[s] = IF n.ok /\ n.from <= s /\ s <= n.to THEN HostsOf(peer, n) ELSE slots_[s]
        BY <2>1, UpdateRangeIs
      <3>2. Says(reply', s) = IF n.ok /\ n.from <= s /\ s <= n.to THEN n.addrs ELSE Says(reply, s)
        BY <2>1, SaysNext
      <3>3. Lists(peer, HostsOf(peer, n), n.addrs) /\ Lists(peer, slots_[s], Says(reply, s))
        BY <2>1, HostsListed DEF FollowPart
      <3> QED
        BY <2>1, <3>1, <3>2, <3>3
    <2> QED
      BY <2>2 DEF FollowPart
  <1>3. ASSUME NEW k \in Servers, LoseServer(k) PROVE FollowPart'
    BY <1>3 DEF LoseServer, Change, FollowPart
  <1>4. ASSUME NEW k \in Servers, NEW i \in Slots, Moved(i, k) PROVE FollowPart'
    BY <1>4 DEF Moved, Change, FollowPart
  <1>5. CASE Clear
    BY <1>5 DEF Clear, Change, FollowPart
  <1>6. CASE UNCHANGED mapVars
    BY <1>6 DEF mapVars, FollowPart
  <1> QED
    BY <1>1, <1>2, <1>3, <1>4, <1>5, <1>6 DEF MapNext

\* The type of the table and of the reply it was loaded from.
LEMMA MapTypeCorrect == MapSpec => []MapTypeOK
  <1>1. MapInit => MapTypeOK
    <2>1. Cleared \in [Slots -> Seq(Servers)] /\ <<>> \in Seq(Nodes) /\ {} \in SUBSET Servers
      BY DEF Cleared
    <2> QED
      BY <2>1 DEF MapInit, MapTypeOK
  <1> QED
    BY <1>1, MapTypeStep, PTL DEF MapSpec

\* After on_reply_update_slot every slot has the servers that the last range
\* holding it names, in their order, whatever came before the reply, whatever
\* ranges it holds and from whichever peer it came.
THEOREM SlotsFollow == MapSpec => []SlotsFollowReply
  <1>1. MapInit => FollowPart
    BY DEF MapInit, FollowPart
  <1>2. MapSpec => []FollowPart
    BY <1>1, MapTypeCorrect, FollowStep, PTL DEF MapSpec
  <1> QED
    BY <1>2, FollowIs, PTL

-----------------------------------------------------------------------------
(* A removed server is not selected                                        *)

\* No range of a reply names one server twice.
NamesOnce ==
  \A p \in Peers, node \in Nodes : \A i, j \in DOMAIN node.addrs :
    Names(p, node.addrs[i]) /\ Names(p, node.addrs[j])
      /\ ServerOf(p, node.addrs[i]) = ServerOf(p, node.addrs[j]) => i = j

Distinct(h) == \A i, j \in 1 .. Len(h) : h[i] = h[j] => i = j

LEMMA HostsDistinct ==
  ASSUME NamesOnce, NEW p \in Peers, NEW node \in Nodes
  PROVE  Distinct(HostsOf(p, node))
  <1> DEFINE h == HostsOf(p, node)
             Of(m, j) == /\ Names(p, node.addrs[j]) /\ Rank(p, node.addrs, j) = m
                         /\ h[m] = ServerOf(p, node.addrs[j])
  <1>1. \A m \in 1 .. Len(h) : \E j \in DOMAIN node.addrs : Of(m, j)
    BY HostsListed
  <1> SUFFICES ASSUME NEW m \in 1 .. Len(h), NEW l \in 1 .. Len(h), h[m] = h[l] PROVE m = l
    BY DEF Distinct
  <1>2. PICK i \in DOMAIN node.addrs : Of(m, i)
    BY <1>1
  <1>3. PICK j \in DOMAIN node.addrs : Of(l, j)
    BY <1>1
  <1>4. i = j
    BY <1>2, <1>3 DEF NamesOnce
  <1> QED
    BY <1>2, <1>3, <1>4

\* Every slot lists different servers, and none begins with the removed one.
RemovedPart ==
  /\ \A s \in Slots : Distinct(slots_[s])
  /\ fresh => removed = {}
  /\ \A k \in removed, s \in Slots : slots_[s] # <<>> => slots_[s][1] # k

LEMMA RemoveHead ==
  ASSUME NEW table \in [Slots -> Seq(Servers)], NEW k, NEW s \in Slots, Distinct(table[s])
  PROVE  LET t == remove_connection_key(table, k)[s] IN Distinct(t) /\ (t # <<>> => t[1] # k)
  <1> DEFINE h == table[s]
             g == Front([h EXCEPT ![1] = Last(h)])
             t == remove_connection_key(table, k)[s]
  <1>1. h \in Seq(Servers) /\ t = IF h # <<>> /\ Head(h) = k THEN g ELSE h
    BY DEF remove_connection_key
  <1>2. h # <<>> => Head(h) = h[1] /\ 1 \in 1 .. Len(h) /\ Len(h) \in 1 .. Len(h)
    BY <1>1
  <1>3. CASE ~(h # <<>> /\ Head(h) = k)
    BY <1>1, <1>2, <1>3
  <1>4. CASE h # <<>> /\ Head(h) = k
    <2>1. /\ g \in Seq(Servers) /\ Len(g) = Len(h) - 1
          /\ \A i \in 1 .. Len(g) : g[i] = IF i = 1 THEN h[Len(h)] ELSE h[i]
      BY <1>1, <1>4, SwapDrop
    <2>2. t = g
      BY <1>1, <1>4
    <2> DEFINE src(i) == IF i = 1 THEN Len(h) ELSE i
    <2>3. ASSUME NEW i \in 1 .. Len(g) PROVE src(i) \in 1 .. Len(h) /\ src(i) # 1 /\ g[i] = h[src(i)]
      <3>1. \A n \in Nat : \A m \in 1 .. (n - 1) : LET x == IF m = 1 THEN n ELSE m IN x \in 1 .. n /\ x # 1
        OBVIOUS
      <3>2. Len(h) \in Nat
        BY <1>1
      <3> HIDE DEF g, h
      <3> QED
        BY <2>1, <3>1, <3>2
    <2>4. \A i, j \in 1 .. Len(g) : src(i) = src(j) => i = j
      <3>1. \A n \in Nat : \A i, j \in 1 .. (n - 1) :
              (IF i = 1 THEN n ELSE i) = (IF j = 1 THEN n ELSE j) => i = j
        OBVIOUS
      <3>2. Len(h) \in Nat
        BY <1>1
      <3> HIDE DEF g, h
      <3> QED
        BY <2>1, <3>1, <3>2
    <2>5. \A i, j \in 1 .. Len(h) : h[i] = h[j] => i = j
      BY DEF Distinct
    <2> HIDE DEF g, src, h
    <2>6. Distinct(g)
      BY <2>3, <2>4, <2>5 DEF Distinct
    <2>7. g # <<>> => g[1] # k
      <3>1. g # <<>> => 1 \in 1 .. Len(g)
        BY <2>1
      <3> QED
        BY <1>2, <1>4, <2>3, <2>5, <3>1
    <2> QED
      BY <2>2, <2>6, <2>7
  <1> QED
    BY <1>3, <1>4

LEMMA RemovedStep == NamesOnce /\ MapTypeOK /\ RemovedPart /\ [MapNext]_mapVars => RemovedPart'
  <1> SUFFICES ASSUME NamesOnce, MapTypeOK, RemovedPart, [MapNext]_mapVars PROVE RemovedPart'
    OBVIOUS
  <1>0. /\ slots_ \in [Slots -> Seq(Servers)] /\ peer \in Peers
        /\ \A s \in Slots : Distinct(Cleared[s]) /\ Cleared[s] = <<>>
    BY DEF MapTypeOK, Cleared, Distinct
  <1>1. ASSUME NEW p \in Peers, LoadBegin(p) PROVE RemovedPart'
    BY <1>0, <1>1 DEF LoadBegin, RemovedPart
  <1>2. ASSUME NEW n \in Nodes, LoadRange(n) PROVE RemovedPart'
    <2>1. \A s \in Slots : slots_'[s] = HostsOf(peer, n) \/ slots_'[s] = slots_[s]
      BY <1>0, <1>2, UpdateRangeIs DEF LoadRange
    <2>2. Distinct(HostsOf(peer, n))
      BY <1>0, HostsDistinct
    <2>3. removed' = {}
      BY <1>2 DEF LoadRange, RemovedPart
    <2> QED
      BY <2>1, <2>2, <2>3 DEF RemovedPart
  <1>3. ASSUME NEW k \in Servers, LoseServer(k) PROVE RemovedPart'
    <2>1. slots_' = remove_connection_key(slots_, k) /\ fresh' = FALSE /\ removed' = {k}
      BY <1>3 DEF LoseServer, Change
    <2>2. ASSUME NEW s \in Slots PROVE Distinct(slots_'[s]) /\ (slots_'[s] # <<>> => slots_'[s][1] # k)
      BY <1>0, <2>1, RemoveHead DEF RemovedPart
    <2> QED
      BY <2>1, <2>2 DEF RemovedPart
  <1>4. ASSUME NEW k \in Servers, NEW i \in Slots, Moved(i, k) PROVE RemovedPart'
    <2>1. Distinct(<<k>>)
      BY DEF Distinct
    <2>2. \A s \in Slots : slots_'[s] = <<k>> \/ slots_'[s] = slots_[s]
      BY <1>0, <1>4 DEF Moved, Change
    <2> QED
      BY <1>4, <2>1, <2>2 DEF Moved, Change, RemovedPart
  <1>5. CASE Clear
    BY <1>0, <1>5 DEF Clear, Change, RemovedPart
  <1>6. CASE UNCHANGED mapVars
    BY <1>6 DEF mapVars, RemovedPart
  <1> QED
    BY <1>1, <1>2, <1>3, <1>4, <1>5, <1>6 DEF MapNext

\* Once remove_connection_key has dropped a lost server, get_slot_master does
\* not answer it for any slot, known or drawn at random, unless it is the seed:
\* for every table the client can build, if no range names a server twice.
THEOREM RemovedNotSelected == NamesOnce => (MapSpec => []RemovedIsNotSelected)
  <1> SUFFICES ASSUME NamesOnce PROVE MapSpec => []RemovedIsNotSelected
    OBVIOUS
  <1>1. MapInit => RemovedPart
    BY DEF MapInit, RemovedPart, Cleared, Distinct
  <1>2. MapTypeOK /\ RemovedPart /\ [MapNext]_mapVars => RemovedPart'
    BY RemovedStep
  <1>3. MapTypeOK /\ RemovedPart => RemovedIsNotSelected
    <2> SUFFICES ASSUME MapTypeOK, RemovedPart, NEW k \in removed \ {Seed},
                        NEW i \in Slots \cup {-1}, NEW r \in Slots
                 PROVE  get_slot_master(slots_, i, r) # k
      BY DEF RemovedIsNotSelected
    <2>1. \A s \in Slots : slots_[s] # <<>> => Head(slots_[s]) # k
      <3>1. \A s \in Slots : slots_[s] # <<>> => slots_[s][1] # k
        BY DEF RemovedPart
      <3>2. \A s \in Slots : slots_[s] \in Seq(Servers)
        BY DEF MapTypeOK
      <3> QED
        BY <3>1, <3>2
    <2> QED
      BY <2>1 DEF get_slot_master
  <1> QED
    BY <1>1, <1>2, <1>3, MapTypeCorrect, PTL DEF MapSpec

=============================================================================
