----------------------------- MODULE CstpProofs -----------------------------
(* What a header says is what was written into it, up to its 16 bits. *)
EXTENDS Cstp, TLAPS

\* No two types share a byte, so a type is read back from its byte.
LEMMA TypeReadBack ==
    ASSUME NEW t \in PacketTypes
    PROVE  TypeOf(TypeByte[t]) = t
<1>1. \A u \in PacketTypes : TypeByte[u] = TypeByte[t] => u = t
  BY DEF PacketTypes, TypeByte
<1>2. (CHOOSE u \in PacketTypes : TypeByte[u] = TypeByte[t]) = t
  BY <1>1
<1> QED
  BY <1>2 DEF TypeOf

\* What task 2 reads of a header that encode has written.
LEMMA HeaderRead ==
    ASSUME NEW t \in PacketTypes, NEW len \in Nat
    PROVE  /\ PacketType(Encode(t, len)) = t
           /\ BodyLen(Encode(t, len)) = (256 * ((len % 65536) \div 256)) + (len % 256)
  BY TypeReadBack DEF Encode, PacketType, BodyLen

\* encode and the reads of task 2 fit together: a frame that is sent with any
\* payload of up to 65535 bytes is split off with its type and its length.
THEOREM FrameReadBack ==
    ASSUME NEW t \in PacketTypes, NEW len \in Nat, len <= 65535
    PROVE  /\ PacketType(Encode(t, len)) = t
           /\ BodyLen(Encode(t, len)) = len
<1>1. len % 65536 = len
  <2>1. len = (65536 * (len \div 65536)) + (len % 65536)
    OBVIOUS
  <2>2. len \div 65536 = 0
    OBVIOUS
  <2> QED
    BY <2>1, <2>2
<1>2. (256 * (len \div 256)) + (len % 256) = len
  OBVIOUS
<1> QED
  BY <1>1, <1>2, HeaderRead

\* A longer payload would be announced with its length modulo 2^16, and the
\* frame would never be split off as it was sent: nothing in encode refuses it.
THEOREM LongFrameCut ==
    ASSUME NEW t \in PacketTypes, NEW len \in Nat, len > 65535
    PROVE  BodyLen(Encode(t, len)) = len % 65536
<1> DEFINE m == len % 65536
<1>1. m \in Nat /\ m < 65536
  OBVIOUS
<1>2. len % 256 = m % 256
  <2>1. len = (65536 * (len \div 65536)) + m
    OBVIOUS
  <2> QED
    BY <2>1, <1>1
<1>3. (256 * (m \div 256)) + (m % 256) = m
  BY <1>1
<1> QED
  BY <1>2, <1>3, HeaderRead
=============================================================================
