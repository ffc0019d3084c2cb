----------------------------- MODULE VpnTunnel ------------------------------
(***************************************************************************)
(* The two tasks of one tunnel (VpnTunnel::run, src/src/vpn/tunnel.rs) and *)
(* what connects them: the TLS byte stream from the client with its CSTP   *)
(* frames, the control channel from task 2 to task 1, the TLS stream to    *)
(* the client, the TUN device, and the DTLS fast path of task 1.           *)
(*                                                                         *)
(* The stream from the client is a sequence of frames whose bytes arrive   *)
(* in pieces of any length.  A frame has a header of Hdr bytes and a body; *)
(* it is known to be complete when the header and then the body are there. *)
(*                                                                         *)
(* The TUN device never stops delivering.  Its first packets are numbered  *)
(* and followed to the client; those after them take the same room and the *)
(* same way, and are not told apart.                                       *)
(***************************************************************************)
EXTENDS Naturals, Sequences, SequencesExt, Cstp

CONSTANTS Hdr,          \* CSTP_HEADER_LEN (8)
          Sorts,        \* the frames a client sends: type and length of the body
          MaxFrames,    \* bound: frames the client sends
          MaxPackets,   \* bound: packets of the TUN device that are numbered
          WireCap,      \* frames the receiving side of the TLS socket holds
          OutCap,       \* messages the sending side holds
          ControlCap    \* capacity of the control channel (64)

\* The length in a header has 16 bits.
MaxBody == 65535

ASSUME TunnelAssumption ==
    /\ Hdr \in Nat \ {0} /\ Sorts \subseteq [type : PacketTypes, body : 0 .. MaxBody]
    /\ MaxFrames \in Nat /\ MaxPackets \in Nat
    /\ WireCap \in Nat \ {0} /\ OutCap \in Nat \ {0} /\ ControlCap \in Nat \ {0}

VARIABLES
    frames,     \* frames the client has sent, in number; they are numbered
    wire,       \* frames sent and not yet split off the buffer of task 2
    buffered,   \* bytes of wire in tls_in_buf
    t2,         \* task 2: [at, msg]
    answered,   \* the numbers of the requests task 2 has taken, in order
    control,    \* the control channel
    t1,         \* task 1: [at, msg]
    packets,    \* numbered packets task 1 has read from the TUN device
    out,        \* messages written to the TLS stream and not yet received
    got,        \* the numbers of the messages of each kind the client received
                \* over TLS, in order
    gotUdp,     \* numbered packets sent to the client over DTLS
    useDtls,    \* use_dtls
    dtls        \* dtls_state: "none", "handshake" or "up"

client  == <<frames, got>>
egress  == <<control, t1, packets, out, gotUdp>>
signal  == <<useDtls, dtls>>
ingress == <<wire, buffered, t2, answered>>
vars    == <<client, egress, signal, ingress>>

Frames == [type : PacketTypes, body : 0 .. MaxBody, n : 1 .. MaxFrames]

Reply(n)  == [kind |-> "reply", n |-> n]
Packet(n) == [kind |-> "packet", n |-> n]
More      == [kind |-> "more", n |-> 0]
MessageKinds == {"reply", "packet"}
Payloads  == [kind : {"packet"}, n : 1 .. MaxPackets] \cup {More}
Messages  == [kind : {"reply"}, n : 1 .. MaxFrames] \cup Payloads
None      == [kind |-> "none"]

Select == [at |-> "select", msg |-> None]
Done   == [at |-> "done", msg |-> None]

Size(f)   == Hdr + f.body
Bytes(fs) ==
    LET upTo[i \in 0 .. Len(fs)] == IF i = 0 THEN 0 ELSE upTo[i - 1] + Size(fs[i])
    IN upTo[Len(fs)]

\* What task 2 finds in the header of a frame.
TotalLen(f) == Hdr + BodyLen(Encode(f.type, f.body))
Kind(f)     == KindOf(PacketType(Encode(f.type, f.body)))

Init ==
    /\ frames = 0 /\ wire = <<>> /\ buffered = 0
    /\ t2 = Select /\ answered = <<>> /\ control = <<>>
    /\ t1 = Select /\ packets = 0 /\ out = <<>> /\ gotUdp = {}
    /\ got = [kind \in MessageKinds |-> <<>>]
    /\ useDtls = FALSE /\ dtls = "none"

-----------------------------------------------------------------------------
(* The client *)

ClientSend ==
    /\ frames < MaxFrames /\ Len(wire) < WireCap
    /\ frames' = frames + 1
    /\ \E s \in Sorts :
          wire' = Append(wire, [type |-> s.type, body |-> s.body, n |-> frames + 1])
    /\ UNCHANGED <<got, egress, signal, buffered, t2, answered>>

ClientRead ==
    /\ out # <<>>
    /\ got' = IF Head(out) = More THEN got
              ELSE [got EXCEPT ![Head(out).kind] = Append(@, Head(out).n)]
    /\ out' = Tail(out)
    /\ UNCHANGED <<frames, control, t1, packets, gotUdp, signal, ingress>>

-----------------------------------------------------------------------------
(* Task 2 *)

\* The body length is read at offsets 4 and 5, so the header comes first.
Complete == wire # <<>> /\ buffered >= Hdr /\ buffered >= TotalLen(Head(wire))

\* read_buf adds some of the bytes that have arrived, and the loop over the
\* buffer begins.
T2Read ==
    /\ t2.at = "select"
    /\ buffered' \in buffered + 1 .. Bytes(wire)
    /\ t2' = [t2 EXCEPT !.at = "parse"]
    /\ UNCHANGED <<client, egress, signal, wire, answered>>

\* EOF, with or without a rest of a frame in the buffer; a read error; or an
\* error in writing the data of a DTLS packet to the TUN device.
T2Ends ==
    /\ t2.at = "select"
    /\ t2' = Done
    /\ UNCHANGED <<client, egress, signal, wire, buffered, answered>>

\* A mutated form: one frame is taken per read.
ParseOne ==
    /\ t2.at = "parse" /\ Complete
    /\ wire' = Tail(wire) /\ buffered' = buffered - TotalLen(Head(wire))
    /\ LET f == Head(wire) IN
       /\ answered' = IF Kind(f) = "request" THEN Append(answered, f.n) ELSE answered
       /\ t2' = IF Kind(f) = "request" THEN [at |-> "control", msg |-> Reply(f.n)]
                ELSE IF Kind(f) = "disconnect" THEN Done ELSE Select
    /\ UNCHANGED <<client, egress, signal>>

\* A complete frame is split off.  Data is written to the TUN device, where an
\* error ends the task; a request is answered through task 1; frames of other
\* types are ignored.
Parse ==
    /\ t2.at = "parse" /\ Complete
    /\ wire' = Tail(wire) /\ buffered' = buffered - TotalLen(Head(wire))
    /\ LET f == Head(wire) IN
       \/ /\ Kind(f) \in {"data", "ignored"}
          /\ t2' = t2 \/ (Kind(f) = "data" /\ t2' = Done)
          /\ UNCHANGED answered
       \/ /\ Kind(f) = "request" /\ t2' = [at |-> "control", msg |-> Reply(f.n)]
          /\ answered' = Append(answered, f.n)
       \/ /\ Kind(f) = "disconnect" /\ t2' = Done
          /\ UNCHANGED answered
    /\ UNCHANGED <<client, egress, signal>>

\* No complete frame is left: back to select!.
ParseEnds ==
    /\ t2.at = "parse" /\ ~Complete
    /\ t2' = Select
    /\ UNCHANGED <<client, egress, signal, wire, buffered, answered>>

\* A mutated form: try_send in place of send.
ControlTrySend ==
    /\ t2.at = "control"
    /\ control' = IF Len(control) < ControlCap THEN Append(control, t2.msg) ELSE control
    /\ t2' = [at |-> "parse", msg |-> None]
    /\ UNCHANGED <<client, t1, packets, out, gotUdp, signal, wire, buffered, answered>>

\* A mutated form: the channel has no limit.
ControlUnbounded ==
    /\ t2.at = "control"
    /\ control' = IF t1 = Done THEN control ELSE Append(control, t2.msg)
    /\ t2' = [at |-> "parse", msg |-> None]
    /\ UNCHANGED <<client, t1, packets, out, gotUdp, signal, wire, buffered, answered>>

\* control_tx.send waits for room; it fails, and task 2 goes on, once task 1
\* has ended.
ControlSend ==
    /\ t2.at = "control"
    /\ \/ /\ t1 # Done /\ Len(control) < ControlCap
          /\ control' = Append(control, t2.msg)
       \/ /\ t1 = Done
          /\ UNCHANGED control
    /\ t2' = [at |-> "parse", msg |-> None]
    /\ UNCHANGED <<client, t1, packets, out, gotUdp, signal, wire, buffered, answered>>

-----------------------------------------------------------------------------
(* Task 1 *)

\* A control message; the receiver yields None when task 2 is gone and
\* everything it sent has been taken.
T1Control ==
    /\ t1.at = "select"
    /\ \/ /\ control # <<>>
          /\ t1' = [at |-> "write", msg |-> Head(control)]
          /\ control' = Tail(control)
       \/ /\ control = <<>> /\ t2 = Done
          /\ t1' = Done
          /\ UNCHANGED control
    /\ UNCHANGED <<client, packets, out, gotUdp, signal, ingress>>

\* A packet from the TUN device, the next one that is numbered or one of those
\* after them; and the look at use_dtls.
T1ReadTun ==
    /\ t1.at = "select"
    /\ packets' = IF packets < MaxPackets THEN packets + 1 ELSE packets
    /\ t1' = [at  |-> IF useDtls THEN "seal" ELSE "write",
              msg |-> IF packets < MaxPackets THEN Packet(packets + 1) ELSE More]
    /\ UNCHANGED <<client, control, out, gotUdp, signal, ingress>>

\* The engine that is there by now takes the packet when its handshake is
\* complete; it may refuse it, and an engine in its handshake does.
T1Seal ==
    /\ t1.at = "seal"
    /\ \/ dtls = "up" /\ t1' = [t1 EXCEPT !.at = "send"]
       \/ t1' = [t1 EXCEPT !.at = "write"]
    /\ UNCHANGED <<client, control, packets, out, gotUdp, signal, ingress>>

\* A mutated form: sent_via_dtls is not looked at.
T1SendBoth ==
    /\ t1.at = "send"
    /\ t1' = [t1 EXCEPT !.at = "write"]
    /\ gotUdp' \in {gotUdp, IF t1.msg = More THEN gotUdp ELSE gotUdp \cup {t1.msg.n}}
    /\ UNCHANGED <<client, control, packets, out, signal, ingress>>

\* The datagram is sent, or the socket refuses it and the packet goes over TLS.
T1SendTo ==
    /\ t1.at = "send"
    /\ \/ /\ t1' = Select
          /\ gotUdp' = IF t1.msg = More THEN gotUdp ELSE gotUdp \cup {t1.msg.n}
       \/ /\ t1' = [t1 EXCEPT !.at = "write"]
          /\ UNCHANGED gotUdp
    /\ UNCHANGED <<client, control, packets, out, signal, ingress>>

T1Write ==
    /\ t1.at = "write" /\ Len(out) < OutCap
    /\ out' = Append(out, t1.msg)
    /\ t1' = Select
    /\ UNCHANGED <<client, control, packets, gotUdp, signal, ingress>>

\* A TUN read error or EOF, or a TLS write error; what is queued is lost.
T1Error ==
    /\ t1 # Done
    /\ t1' = Done
    /\ control' = <<>>
    /\ UNCHANGED <<client, packets, out, gotUdp, signal, ingress>>

-----------------------------------------------------------------------------
(* The signal monitor, and the handshake task 2 drives *)

StoreEngine ==
    /\ dtls # "handshake"
    /\ dtls' = "handshake"
    /\ UNCHANGED <<client, egress, ingress, useDtls>>

SetUseDtls ==
    /\ dtls # "none" /\ ~useDtls
    /\ useDtls' = TRUE
    /\ UNCHANGED <<client, egress, ingress, dtls>>

HandshakeDone ==
    /\ dtls = "handshake" /\ t2.at = "select"
    /\ dtls' = "up"
    /\ UNCHANGED <<client, egress, ingress, useDtls>>

Next ==
    \/ ClientSend \/ ClientRead
    \/ T2Read \/ T2Ends \/ Parse \/ ParseEnds \/ ControlSend
    \/ T1Control \/ T1ReadTun \/ T1Seal \/ T1SendTo \/ T1Write \/ T1Error
    \/ StoreEngine \/ SetUseDtls \/ HandshakeDone

Spec == Init /\ [][Next]_vars

\* A mutated form: a biased select! with the TUN device in front.
SelectBiased == WF_vars(T1Control)

\* select! begins at a random branch, so one that is ready again and again is
\* taken, however often the other one is ready too.
SelectFair == SF_vars(T1Control)

\* The runtime polls the tasks.
Fairness ==
    /\ WF_vars(Parse) /\ WF_vars(ParseEnds) /\ WF_vars(ControlSend) /\ WF_vars(T2Read)
    /\ SelectFair
    /\ WF_vars(T1Seal) /\ WF_vars(T1SendTo) /\ WF_vars(T1Write)

FairSpec == Spec /\ Fairness

-----------------------------------------------------------------------------
(* Properties that hold *)

TypeOK ==
    /\ frames \in 0 .. MaxFrames /\ packets \in 0 .. MaxPackets
    /\ wire \in Seq(Frames) /\ Len(wire) <= WireCap
    /\ buffered \in Nat /\ buffered <= Bytes(wire)
    /\ useDtls \in BOOLEAN
    /\ t1 \in {Select, Done} \cup [at : {"write"}, msg : Messages]
                          \cup [at : {"seal", "send"}, msg : Payloads]
    /\ t2 \in {Select, Done, [at |-> "parse", msg |-> None]} \cup [at : {"control"}, msg : Messages]
    /\ control \in Seq(Messages) /\ Len(control) <= ControlCap
    /\ out \in Seq(Messages) /\ Len(out) <= OutCap
    /\ answered \in Seq(1 .. MaxFrames)
    /\ got \in [MessageKinds -> Seq(Nat)]
    /\ gotUdp \subseteq 1 .. MaxPackets
    /\ dtls \in {"none", "handshake", "up"}

\* What is on its way to the client over TLS, oldest first.
Held(t) == IF t.msg = None THEN <<>> ELSE <<t.msg>>
Queue   == out \o Held(t1) \o control \o Held(t2)

\* The numbers of the messages of a kind in s, and that they are in order.
Numbers(s, kind) == {s[i].n : i \in {j \in DOMAIN s : s[j].kind = kind}}
InOrder(s, kind) ==
    \A i, j \in DOMAIN s : (i < j /\ s[i].kind = kind /\ s[j].kind = kind) => s[i].n < s[j].n
Rising(ns) == \A i, j \in DOMAIN ns : i < j => ns[i] < ns[j]

\* Every request task 2 takes is answered once, and the answers keep the order
\* of the requests, across the two tasks and both full buffers; what is lost
\* is only what task 1 held when it failed.
RepliesInOrder ==
    LET received == got["reply"] IN
    /\ Rising(answered) /\ Len(received) <= Len(answered)
    /\ \A i \in DOMAIN received : received[i] = answered[i]
    /\ t1 # Done =>
          /\ InOrder(Queue, "reply")
          /\ Numbers(Queue, "reply") = {answered[i] : i \in Len(received) + 1 .. Len(answered)}

\* Every packet of the TUN device takes one path, whatever the monitor and the
\* handshake do meanwhile: none is lost, none is sent twice, and those that
\* go over TLS keep their order.
OnePath ==
    LET received == Range(got["packet"])
        queued   == Numbers(Queue, "packet")
    IN /\ Rising(got["packet"]) /\ InOrder(Queue, "packet")
       /\ \A m \in received, n \in queued : m < n
       /\ (received \cup queued) \cap gotUdp = {}
       /\ t1 # Done => received \cup queued \cup gotUdp = 1 .. packets

\* Task 2 never waits for more bytes while a whole frame is in its buffer: the
\* client could be waiting for the answer to it.
NoFrameLeft == t2.at = "select" /\ wire # <<>> => buffered < Size(Head(wire))

\* A client that reads gets an answer to every request, however the two tasks
\* wait for each other and whatever the TUN device delivers, unless a task ends
\* first.
ClientReads == WF_vars(ClientRead)
RequestsAnswered ==
    ClientReads =>
        \A n \in 1 .. MaxFrames :
            (\E i \in DOMAIN wire : Kind(wire[i]) = "request" /\ wire[i].n = n)
            ~> (t1 = Done \/ t2 = Done \/ n \in Range(got["reply"]))

\* When task 2 has ended, by DISCONNECT, EOF or an error, task 1 follows,
\* although the TUN device never stops delivering packets; nothing but a write
\* to a client that has stopped reading can keep it.
WriteStuck   == t1.at = "write" /\ Len(out) = OutCap
Task1Follows == (t2 = Done) ~> (t1 = Done \/ []WriteStuck)

\* Seen from the client the tunnel delivers what Delivery promises, also after
\* either task has failed: the answers are a beginning of what was asked, and
\* no packet comes twice.
Promise == INSTANCE Delivery WITH
    Requests  <- 1 .. MaxFrames,
    asked     <- answered,
    answers   <- got["reply"],
    network   <- packets,
    stream    <- got["packet"],
    datagrams <- gotUdp

ImplementsDelivery == Promise!Spec
=============================================================================
