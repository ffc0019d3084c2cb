-------------------------------- MODULE Cstp --------------------------------
(***************************************************************************)
(* The header of a CSTP frame (src/src/vpn/cstp.rs): magic, length of the  *)
(* body in two bytes, type, padding; and what task 2 of a tunnel reads in  *)
(* it, which is the length and the type.                                   *)
(***************************************************************************)
EXTENDS Naturals, Sequences

\* The bytes of the known types; every other byte is Unknown.
PacketTypes ==
    {"Data", "DpdReq", "DpdResp", "Disconnect", "KeepAlive", "CompressedData", "Terminate"}
TypeByte ==
    [Data |-> 0, DpdReq |-> 3, DpdResp |-> 4, Disconnect |-> 5, KeepAlive |-> 7,
     CompressedData |-> 8, Terminate |-> 9]
TypeOf(b) ==
    IF \E t \in PacketTypes : TypeByte[t] = b
    THEN CHOOSE t \in PacketTypes : TypeByte[t] = b ELSE "Unknown"

\* encode_into and write_packet: the magic "STF\x01", the length cut to 16
\* bits, high byte first, the type and the padding.
Encode(t, len) ==
    <<83, 84, 70, 1, (len % 65536) \div 256, len % 256, TypeByte[t], 0>>

\* A mutated form: low byte first.
BodyLenSwapped(header) == 256 * header[6] + header[5]

BodyLen(header)    == 256 * header[5] + header[6]
PacketType(header) == TypeOf(header[7])

\* What task 2 does with a frame of a type: DpdReq and KeepAlive are answered.
KindOf(t) ==
    CASE t = "Data"                    -> "data"
      [] t \in {"DpdReq", "KeepAlive"} -> "request"
      [] t = "Disconnect"              -> "disconnect"
      [] OTHER                         -> "ignored"
=============================================================================
