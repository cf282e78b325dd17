----------------------------- MODULE NameCodec -----------------------------
(***************************************************************************)
(* The name of a server (happ_connection.cpp): make_name builds it from    *)
(* address and port, and it is the key of the cluster's connection map;    *)
(* pick_name takes the address in a redirection apart again.  Text is a    *)
(* sequence of character codes; a state is an address that grows by one    *)
(* character per step, and a port.                                         *)
(***************************************************************************)
EXTENDS Integers, SequencesExt

CONSTANTS Chars,      \* the characters of an address
          Ports,      \* the ports
          MaxIp      \* bound: the length of an address

ASSUME CodecAssumption ==
  Chars \subseteq 0 .. 255 /\ Ports \subseteq 0 .. 65535 /\ MaxIp \in Nat

VARIABLES ip, port

Zero   == 48
Minus  == 45
Signs  == {43, Minus}
Colon  == 58
Blanks == {32, 9, 13, 10}
Digits == Zero .. Zero + 9

\* The decimal digits of n, most significant first, in at most 5 characters.
Decimal(n) ==
  LET width == Min({k \in 1 .. 5 : n < 10^k})
  IN [i \in 1 .. width |-> Zero + ((n \div 10^(width - i)) % 10)]

\* Mutant: port 0 has no digits.
make_name_no_zero(addr, p) ==
  addr \o <<Colon>> \o (IF p = 0 THEN <<>> ELSE Decimal(p))

\* connection::make_name
make_name(addr, p) ==
  addr \o <<Colon>> \o (IF p = 0 THEN <<Zero>> ELSE Decimal(p))

\* sscanf("%d") into an int that holds 0: blanks, a sign, digits.
ScanInt(text) ==
  LET skip     == SelectInSeq(text, LAMBDA ch : ch \notin Blanks)
      rest     == IF skip = 0 THEN <<>> ELSE SubSeq(text, skip, Len(text))
      negative == rest # <<>> /\ Head(rest) = Minus
      unsigned == IF rest # <<>> /\ Head(rest) \in Signs THEN Tail(rest) ELSE rest
      end      == SelectInSeq(unsigned, LAMBDA ch : ch \notin Digits)
      number   == IF end = 0 THEN unsigned ELSE SubSeq(unsigned, 1, end - 1)
      value    == FoldLeft(LAMBDA n, ch : 10 * n + (ch - Zero), 0, number)
  IN IF negative THEN -value ELSE value

NoName == [ok |-> FALSE, ip |-> <<>>, port |-> 0]

\* Mutant: the address ends one character late.
pick_name_late(name) ==
  LET it == SelectInSeq(name, LAMBDA ch : ch = Colon)
      s  == SelectInSeq(name, LAMBDA ch : ch \notin Blanks)
  IN IF it = 0 \/ it = Len(name) THEN NoName
     ELSE [ok |-> TRUE, ip |-> SubSeq(name, s, it),
           port |-> ScanInt(SubSeq(name, it + 1, Len(name))) % 65536]

\* connection::pick_name: up to the first colon; the port is cut to 16 bits.
pick_name(name) ==
  LET it == SelectInSeq(name, LAMBDA ch : ch = Colon)
      s  == SelectInSeq(name, LAMBDA ch : ch \notin Blanks)
  IN IF it = 0 \/ it = Len(name) THEN NoName
     ELSE [ok |-> TRUE, ip |-> SubSeq(name, s, it - 1),
           port |-> ScanInt(SubSeq(name, it + 1, Len(name))) % 65536]

NameInit == ip = <<>> /\ port \in Ports

FeedName(ch) == Len(ip) < MaxIp /\ ip' = Append(ip, ch) /\ UNCHANGED port

NameNext == \E ch \in Chars : FeedName(ch)

NameSpec == NameInit /\ [][NameNext]_<<ip, port>>

-----------------------------------------------------------------------------
\* Two servers never share a name, IPv6 addresses included: what follows the
\* last colon is the port, written in full, and what precedes it is the
\* address.  The connection map of the cluster relies on it.
NameIdentifiesServer ==
  LET name == make_name(ip, port)
      last == SelectLastInSeq(name, LAMBDA ch : ch = Colon)
  IN /\ SubSeq(name, 1, last - 1) = ip
     /\ last < Len(name)
     /\ ScanInt(SubSeq(name, last + 1, Len(name))) = port

\* pick_name inverts make_name for host names and IPv4 addresses, the empty
\* address of a redirection included, so a redirection leads to the connection
\* that is in the map under that name.  (An address with a colon is cut.)
PickInvertsMake ==
  LET name == make_name(ip, port) IN
  ~Contains(ip, Colon) /\ (ip # <<>> => Head(ip) \notin Blanks) =>
    pick_name(name) = [ok |-> TRUE, ip |-> ip, port |-> port]

=============================================================================
