------------------------------ MODULE SlotHash ------------------------------
(***************************************************************************)
(* How the cluster client places a key: crc16 (crc16.cpp) and hash_slot    *)
(* (happ_cluster.cpp).  The servers use the same function; a client that   *)
(* computes another one is redirected for ever, key by key, and no single  *)
(* reply tells.  The code is checked against two definitions that share    *)
(* nothing with it: division of polynomials over GF(2), and the splittings *)
(* of a key around its braces.                                             *)
(*                                                                         *)
(* A key is a sequence of bytes, and a step appends one.                   *)
(***************************************************************************)
EXTENDS Integers, SequencesExt, Bitwise

CONSTANTS Bytes,      \* the bytes keys are made of
          Marks,      \* those of longer keys
          ShortLen,   \* bound: the length of a key of any Bytes
          MaxLen      \* bound: the length of a key of Marks

ASSUME BytesAssumption ==
  /\ Bytes \subseteq 0 .. 255 /\ Marks \subseteq Bytes
  /\ ShortLen \in Nat /\ MaxLen \in Nat

VARIABLE key

OpenBrace  == 123     \* '{'
CloseBrace == 125     \* '}'
HIREDIS_HAPP_SLOT_NUMBER == 16384

crc16tab ==
  << \h0000, \h1021, \h2042, \h3063, \h4084, \h50a5, \h60c6, \h70e7, \h8108, \h9129,
     \ha14a, \hb16b, \hc18c, \hd1ad, \he1ce, \hf1ef, \h1231, \h0210, \h3273, \h2252,
     \h52b5, \h4294, \h72f7, \h62d6, \h9339, \h8318, \hb37b, \ha35a, \hd3bd, \hc39c,
     \hf3ff, \he3de, \h2462, \h3443, \h0420, \h1401, \h64e6, \h74c7, \h44a4, \h5485,
     \ha56a, \hb54b, \h8528, \h9509, \he5ee, \hf5cf, \hc5ac, \hd58d, \h3653, \h2672,
     \h1611, \h0630, \h76d7, \h66f6, \h5695, \h46b4, \hb75b, \ha77a, \h9719, \h8738,
     \hf7df, \he7fe, \hd79d, \hc7bc, \h48c4, \h58e5, \h6886, \h78a7, \h0840, \h1861,
     \h2802, \h3823, \hc9cc, \hd9ed, \he98e, \hf9af, \h8948, \h9969, \ha90a, \hb92b,
     \h5af5, \h4ad4, \h7ab7, \h6a96, \h1a71, \h0a50, \h3a33, \h2a12, \hdbfd, \hcbdc,
     \hfbbf, \heb9e, \h9b79, \h8b58, \hbb3b, \hab1a, \h6ca6, \h7c87, \h4ce4, \h5cc5,
     \h2c22, \h3c03, \h0c60, \h1c41, \hedae, \hfd8f, \hcdec, \hddcd, \had2a, \hbd0b,
     \h8d68, \h9d49, \h7e97, \h6eb6, \h5ed5, \h4ef4, \h3e13, \h2e32, \h1e51, \h0e70,
     \hff9f, \hefbe, \hdfdd, \hcffc, \hbf1b, \haf3a, \h9f59, \h8f78, \h9188, \h81a9,
     \hb1ca, \ha1eb, \hd10c, \hc12d, \hf14e, \he16f, \h1080, \h00a1, \h30c2, \h20e3,
     \h5004, \h4025, \h7046, \h6067, \h83b9, \h9398, \ha3fb, \hb3da, \hc33d, \hd31c,
     \he37f, \hf35e, \h02b1, \h1290, \h22f3, \h32d2, \h4235, \h5214, \h6277, \h7256,
     \hb5ea, \ha5cb, \h95a8, \h8589, \hf56e, \he54f, \hd52c, \hc50d, \h34e2, \h24c3,
     \h14a0, \h0481, \h7466, \h6447, \h5424, \h4405, \ha7db, \hb7fa, \h8799, \h97b8,
     \he75f, \hf77e, \hc71d, \hd73c, \h26d3, \h36f2, \h0691, \h16b0, \h6657, \h7676,
     \h4615, \h5634, \hd94c, \hc96d, \hf90e, \he92f, \h99c8, \h89e9, \hb98a, \ha9ab,
     \h5844, \h4865, \h7806, \h6827, \h18c0, \h08e1, \h3882, \h28a3, \hcb7d, \hdb5c,
     \heb3f, \hfb1e, \h8bf9, \h9bd8, \habbb, \hbb9a, \h4a75, \h5a54, \h6a37, \h7a16,
     \h0af1, \h1ad0, \h2ab3, \h3a92, \hfd2e, \hed0f, \hdd6c, \hcd4d, \hbdaa, \had8b,
     \h9de8, \h8dc9, \h7c26, \h6c07, \h5c64, \h4c45, \h3ca2, \h2c83, \h1ce0, \h0cc1,
     \hef1f, \hff3e, \hcf5d, \hdf7c, \haf9b, \hbfba, \h8fd9, \h9ff8, \h6e17, \h7e36,
     \h4e55, \h5e74, \h2e93, \h3eb2, \h0ed1, \h1ef0 >>

\* Mutant: the table is indexed by the low byte of the remainder.
crc16_step_low_byte(crc, b) ==
  ((crc * 256) % 65536) ^^ crc16tab[((crc % 256) ^^ b) + 1]

\* One turn of the loop of crc16: a uint16_t shifted left by a byte.
crc16_step(crc, b) ==
  ((crc * 256) % 65536) ^^ crc16tab[((crc \div 256) ^^ b) + 1]

crc16(buf) == FoldLeft(crc16_step, 0, buf)

\* The first position from `from' on that holds ch, or the one after the end.
Find(buf, ch, from) == Min({i \in from .. Len(buf) : buf[i] = ch} \cup {Len(buf) + 1})

\* Mutant: an empty tag is hashed like any other.
hash_slot_empty_tag(buf) ==
  LET start == Find(buf, OpenBrace, 1)
      end   == Find(buf, CloseBrace, start + 1)
      whole == start > Len(buf) \/ end > Len(buf)
  IN IF buf = <<>> THEN -1
     ELSE crc16(IF whole THEN buf ELSE SubSeq(buf, start + 1, end - 1))
          % HIREDIS_HAPP_SLOT_NUMBER

\* The whole key is hashed unless a '}' follows the first '{', with something
\* between them.
hash_slot(buf) ==
  LET start == Find(buf, OpenBrace, 1)
      end   == Find(buf, CloseBrace, start + 1)
      whole == start > Len(buf) \/ end > Len(buf) \/ end = start + 1
  IN IF buf = <<>> THEN -1
     ELSE crc16(IF whole THEN buf ELSE SubSeq(buf, start + 1, end - 1))
          % HIREDIS_HAPP_SLOT_NUMBER

KeyInit == key = <<>>

FeedKey(b) ==
  /\ key' = Append(key, b)
  /\ \/ Len(key') <= ShortLen
     \/ Len(key') <= MaxLen /\ ToSet(key') \subseteq Marks

KeyNext == \E b \in Bytes : FeedKey(b)

KeySpec == KeyInit /\ [][KeyNext]_key

-----------------------------------------------------------------------------
(* The reference: a polynomial over GF(2) is the set of its exponents.     *)

Generator == {16, 12, 5, 0}

BitsOf(b) == [i \in 1 .. 8 |-> (b \div 2^(8 - i)) % 2]

\* Multiply by x, add the bit, reduce.
Divide(r, bit) ==
  LET s == {e + 1 : e \in r} \cup (IF bit = 1 THEN {0} ELSE {})
  IN IF 16 \in s THEN SymDiff(s, Generator) ELSE s

\* The remainder of the message times x^16.
Remainder(buf) ==
  LET bits == FlattenSeq([i \in DOMAIN buf |-> BitsOf(buf[i])])
  IN FoldLeft(Divide, {}, bits \o [i \in 1 .. 16 |-> 0])

Value(poly) == MapThenSumSet(LAMBDA e : 2^e, poly)

\* buf is p{t}s, with the first '{' and the first '}' after it, and t its tag.
IsTag(buf, p, t, s) ==
  /\ buf = p \o <<OpenBrace>> \o t \o <<CloseBrace>> \o s
  /\ ~Contains(p, OpenBrace)
  /\ ~Contains(t, CloseBrace)

\* The table and the shifting loop of crc16 compute, for every key, the
\* remainder of the division by x^16 + x^12 + x^5 + 1.
Crc16IsRemainder == crc16(key) = Value(Remainder(key))

\* hash_slot gives a key with a nonempty tag the slot of the tag alone, so
\* that keys with one tag share a slot whatever surrounds it, and any other
\* key the remainder of the whole key; -1 (any slot) is for the empty key.
TagDecidesSlot ==
  LET Parts == {SubSeq(key, i, j) : i \in 1 .. Len(key) + 1, j \in 0 .. Len(key)}
      Tags  == {t \in Parts \ {<<>>} : \E p, s \in Parts : IsTag(key, p, t, s)}
      Slot(buf) == Value(Remainder(buf)) % HIREDIS_HAPP_SLOT_NUMBER
  IN IF key = <<>> THEN hash_slot(key) = -1
     ELSE IF Tags = {} THEN hash_slot(key) = Slot(key)
     ELSE \A t \in Tags : hash_slot(key) = Slot(t)

=============================================================================
