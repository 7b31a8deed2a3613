----------------------------- MODULE MCPayload -----------------------------
(* get_udp_packet on every datagram up to a length: datagrams grow byte by
   byte, so that each is also seen after its own beginnings.                *)
EXTENDS Payload

CONSTANT MaxLen   \* bound on the length of a datagram

\* A text that fills the buffer would have no end.
ASSUME BufferAssumption == MaxLen \in Nat /\ MaxLen < BUF_LEN

VARIABLE datagram

Init == datagram = <<>>

Next == Len(datagram) < MaxLen /\ \E b \in Byte : datagram' = Append(datagram, b)

Spec == Init /\ [][Next]_datagram

Sent == packet(datagram)
IsPacket == Sent # NoPacket
IsNumber == IsPacket /\ Sent.data_type # "STRING" /\ Sent.contents # <<>>

-----------------------------------------------------------------------------

\* A packet has a topic without NULs of at most its size, one of the four types
\* and contents of that type; contents are missing only behind a bad sign byte.
Texts == UNION {[1..n -> Byte \ {0}] : n \in 0..MaxLen}
TypeOK ==
  IsPacket =>
    /\ Sent.topic \in Texts /\ Len(Sent.topic) <= TOPIC_MAX_SIZE
    /\ CASE Sent.data_type = "STRING"     -> Sent.contents \in Texts
         [] Sent.data_type = "SHORT_REAL" -> Sent.contents.decimals = 2
         [] OTHER -> Sent.contents = <<>> <=> Buffer(datagram)[value_at] > 1

\* Nothing of a packet is lost or made up: what the subscribers are told, put back
\* into the format of packets, is the datagram again (server_helper.hpp:85-199).
\* Excepted is what the format has no room for: bytes after the NUL of a text or
\* behind the value, and mantissas with more bits than a float.
NothingLost ==
  IsNumber \/ (IsPacket /\ Sent.data_type = "STRING") =>
    LET buffer == Buffer(datagram)
        clean  == \A i \in Len(Sent.topic)..TOPIC_MAX_SIZE - 1 : buffer[i] = 0
        exact  == uint(buffer, value_at + 1, WORD) < Power(2, Precision)
        again  == encoding(Sent)
    IN  clean /\ (Sent.data_type = "FLOAT" => exact) =>
          /\ \A i \in DOMAIN again : again[i] = buffer[i - 1]
          /\ Sent.data_type = "STRING" => buffer[Len(again)] = 0

\* A FLOAT is printed as the representable number nearest to its mantissa, at
\* the scale of its exponent, and exactly if the mantissa has few enough bits:
\* the conversion to float (server_helper.hpp:167) errs by rounding alone.
Representable == {q * Power(2, k) : q \in 0..Power(2, Precision), k \in 0..Base * WORD}
FloatIsNearest ==
  IsNumber /\ Sent.data_type = "FLOAT" =>
    LET mantissa == uint(Buffer(datagram), value_at + 1, WORD)
        Off(n)   == IF n < mantissa THEN mantissa - n ELSE n - mantissa
    IN  /\ \A r \in Representable : Off(Sent.contents.digits) <= Off(r)
        /\ Sent.contents.digits \in Representable
        /\ mantissa <= Power(2, Precision) => Sent.contents.digits = mantissa

\* The end of a datagram may be missing, and the server, which does not look at
\* its length (server.cpp:126), passes on what is left: a byte less leaves topic,
\* type and sign as they are once these have arrived, and takes the number no
\* further from zero.  The exception is the last byte of a FLOAT, its exponent:
\* without it the whole mantissa is told, without decimals.
CutShrinksOrUnscales ==
  [][Len(datagram) > value_at /\ IsNumber =>
       /\ Sent'.topic = Sent.topic
       /\ Sent'.data_type = Sent.data_type
       /\ Sent'.contents.minus = Sent.contents.minus
       /\ IF Sent.data_type = "FLOAT" /\ Len(datagram) = value_at + 1 + WORD
          THEN Sent.contents.decimals = 0 /\ Sent'.contents.digits = Sent.contents.digits
          ELSE /\ Sent'.contents.decimals = Sent.contents.decimals
               /\ Sent'.contents.digits >= Sent.contents.digits]_datagram

-----------------------------------------------------------------------------
\* test.py:106 expects the value "0" of upb/precis/elevator/2/people, whose packet
\* in sample_wildcard_payloads.json has the sign byte 1 and the number 0.
ZeroHasNoSign ==
  IsNumber /\ Sent.data_type = "INT" /\ Len(datagram) = value_at + 1 + WORD =>
    (Sent.contents.digits = 0 => ~Sent.contents.minus)
=============================================================================
