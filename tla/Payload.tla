------------------------------- MODULE Payload -------------------------------
(***************************************************************************)
(* What the server reads in a datagram: get_udp_packet.  A packet is a     *)
(* topic padded with NULs, a type byte and a value: sign and integer, an   *)
(* unsigned number of hundredths, sign, mantissa and negative exponent, or *)
(* text.  The sizes are parameters, as is the number of values of a byte.  *)
(* A number is kept as sign, digits and how many of them are decimals: all *)
(* that the text printed for it shows.                                     *)
(***************************************************************************)
EXTENDS Integers, Sequences, SequencesExt

CONSTANTS
  Base,             \* 256: values of a byte
  TOPIC_MAX_SIZE,   \* 50: bytes of the topic
  WORD,             \* sizeof(uint32_t)
  HALF,             \* sizeof(uint16_t)
  Precision,        \* 24: bits of the significand of a float
  BUF_LEN           \* bytes of the server's buffer

\* The four types have a byte each, a value fits behind the longest head and the
\* significand of a float has bits.
ASSUME PayloadAssumption ==
  /\ {Base, TOPIC_MAX_SIZE, WORD, HALF, Precision, BUF_LEN} \subseteq Nat
  /\ Base > 3 /\ Precision > 0
  /\ BUF_LEN > TOPIC_MAX_SIZE + 2 + WORD /\ BUF_LEN > TOPIC_MAX_SIZE + 1 + HALF

Byte == 0..Base - 1

\* b ^ n, as a loop.
Power(b, n) ==
  LET p[k \in 0..n] == IF k = 0 THEN 1 ELSE b * p[k - 1]
  IN  p[n]

\* Slip: what the last message left in the buffer stays there.
Buffer_NotCleared(datagram) ==
  [i \in 0..BUF_LEN - 1 |-> IF i < Len(datagram) THEN datagram[i + 1] ELSE Base - 1]

\* The buffer after memset and recvfrom: zeros follow the datagram.  How long it
\* was is not passed on.
Buffer(datagram) ==
  [i \in 0..BUF_LEN - 1 |-> IF i < Len(datagram) THEN datagram[i + 1] ELSE 0]

-----------------------------------------------------------------------------
(* Reading the parts.                                                      *)

\* Slip: no conversion from network order.
uint_HostOrder(buffer, at, size) ==
  LET value[n \in 0..size] == IF n = 0 THEN 0 ELSE value[n - 1] * Base + buffer[at + size - n]
  IN  value[size]

\* memcpy and ntohl or ntohs: size bytes, the highest first.
uint(buffer, at, size) ==
  LET value[n \in 0..size] == IF n = 0 THEN 0 ELSE value[n - 1] * Base + buffer[at + n - 1]
  IN  value[size]

\* Slip: the NULs of the padding are taken for text.
text_Whole(buffer, at, end) == [i \in 1..end - at |-> buffer[at + i - 1]]

\* A C string that starts at a position, up to its NUL or to where it must end.
text(buffer, at, end) ==
  LET length == CHOOSE n \in 0..end - at :
                  /\ n = end - at \/ buffer[at + n] = 0
                  /\ \A i \in 0..n - 1 : buffer[at + i] # 0
  IN  [i \in 1..length |-> buffer[at + i - 1]]

\* Slip: the leading bit, which is not stored, is not counted.
Spacing_Stored(n) ==
  Power(2, CHOOSE k \in 0..n : /\ n < Power(2, Precision + k - 1)
                              /\ \A j \in 0..k - 1 : n >= Power(2, Precision + j - 1))

\* The power of two between neighbouring floats at n.
Spacing(n) ==
  Power(2, CHOOSE k \in 0..n : /\ n < Power(2, Precision + k)
                              /\ \A j \in 0..k - 1 : n >= Power(2, Precision + j))

\* (float) n: the nearest float, the even one of two.
to_float(n) ==
  LET ulp  == Spacing(n)
      down == n \div ulp
      rest == 2 * (n % ulp)
  IN  IF rest < ulp \/ (rest = ulp /\ down % 2 = 0) THEN down * ulp ELSE (down + 1) * ulp

-----------------------------------------------------------------------------
(* get_udp_packet.                                                         *)

data_type_at == TOPIC_MAX_SIZE
value_at     == TOPIC_MAX_SIZE + 1

Number(minus, digits, decimals) == [minus |-> minus, digits |-> digits, decimals |-> decimals]

\* What follows a sign byte; contents stay empty behind one that is not 0 or 1.
Signed(buffer, digits, decimals) ==
  IF buffer[value_at] \in {0, 1}
  THEN Number(buffer[value_at] = 1, digits, decimals)
  ELSE <<>>

\* The four types, by their byte.
Type == <<"INT", "SHORT_REAL", "FLOAT", "STRING">>

contents(buffer) ==
  CASE buffer[data_type_at] = 0 -> Signed(buffer, uint(buffer, value_at + 1, WORD), 0)
    [] buffer[data_type_at] = 1 -> Number(FALSE, uint(buffer, value_at, HALF), 2)
    [] buffer[data_type_at] = 2 ->
         Signed(buffer, to_float(uint(buffer, value_at + 1, WORD)), buffer[value_at + 1 + WORD])
    [] buffer[data_type_at] = 3 -> text(buffer, value_at, BUF_LEN)

NoPacket == [data_type |-> "none"]

get_udp_packet(buffer) ==
  IF buffer[data_type_at] \in 0..3
  THEN [topic     |-> text(buffer, 0, TOPIC_MAX_SIZE),
        data_type |-> Type[buffer[data_type_at] + 1],
        contents  |-> contents(buffer)]
  ELSE NoPacket

\* The branch of main: an empty datagram and an unknown type are passed over.
packet(datagram) ==
  IF datagram = <<>> THEN NoPacket ELSE get_udp_packet(Buffer(datagram))

-----------------------------------------------------------------------------
(* The format of a packet, written the other way round: what a publisher   *)
(* puts in a datagram to say that.                                         *)

bytes(n, size) == [i \in 1..size |-> (n \div Power(Base, size - i)) % Base]

padded(name) == name \o [i \in 1..TOPIC_MAX_SIZE - Len(name) |-> 0]

sign(number) == <<IF number.minus THEN 1 ELSE 0>>

value(p) ==
  CASE p.data_type = "INT"        -> sign(p.contents) \o bytes(p.contents.digits, WORD)
    [] p.data_type = "SHORT_REAL" -> bytes(p.contents.digits, HALF)
    [] p.data_type = "FLOAT"      ->
         sign(p.contents) \o bytes(p.contents.digits, WORD) \o <<p.contents.decimals>>
    [] p.data_type = "STRING"     -> p.contents

encoding(p) == padded(p.topic) \o <<SelectInSeq(Type, LAMBDA t : t = p.data_type) - 1>> \o value(p)
=============================================================================
