--------------------------- MODULE VpnTunnelProofs ---------------------------
(***************************************************************************)
(* Proofs about VpnTunnel for any number of frames and packets, frames of  *)
(* any length up to 65535 bytes, and queues of any capacity.               *)
(***************************************************************************)
EXTENDS VpnTunnel, CstpProofs, Induction, SequenceTheorems

-----------------------------------------------------------------------------
(* The bytes of a sequence of frames *)

\* The length and the kind task 2 finds in a header are those of the frame.
LEMMA SizeOfFrame ==
    ASSUME NEW f \in Frames
    PROVE  /\ Size(f) \in Nat /\ Hdr <= Size(f) /\ 0 < Size(f) /\ TotalLen(f) = Size(f)
           /\ Kind(f) \in {"data", "request", "disconnect", "ignored"} /\ f.n \in 1 .. MaxFrames
<1>1. Hdr \in Nat /\ 0 < Hdr
    BY TunnelAssumption DEF TunnelAssumption
<1>2. f.n \in 1 .. MaxFrames
    BY DEF Frames
<1>3. f.type \in PacketTypes /\ f.body \in 0 .. MaxBody
    BY DEF Frames
<1>4. f.body \in Nat /\ f.body <= 65535
    <2>1. MaxBody \in Nat /\ MaxBody <= 65535
        BY DEF MaxBody
    <2>2. f.body \in 0 .. MaxBody
        BY <1>3
    <2>3. QED
        BY ONLY <2>1, <2>2
<1>5. BodyLen(Encode(f.type, f.body)) = f.body
    BY <1>3, <1>4, FrameReadBack
<1>6. Kind(f) \in {"data", "request", "disconnect", "ignored"}
    BY DEF Kind, KindOf
<1>7. Size(f) = Hdr + f.body /\ TotalLen(f) = Hdr + f.body
    BY <1>5 DEF Size, TotalLen
<1>8. QED
    BY <1>1, <1>2, <1>4, <1>6, <1>7

\* u[i] is the length of the first i frames of fs.
Sums(u, fs) ==
    /\ u \in [0 .. Len(fs) -> Nat] /\ u[0] = 0
    /\ \A i \in 1 .. Len(fs) : u[i] = u[i - 1] + Size(fs[i])

\* By induction on the number of frames: there are such sums.
LEMMA SumsExist ==
    ASSUME NEW fs \in Seq(Frames)
    PROVE  \E u : Sums(u, fs)
<1> DEFINE n == Len(fs)
           UpTo(u, m) == /\ u \in [0 .. m -> Nat] /\ u[0] = 0
                         /\ \A i \in 1 .. m : u[i] = u[i - 1] + Size(fs[i])
           S == {m \in 0 .. n : ~\E u : UpTo(u, m)}
<1>1. n \in Nat /\ \A i \in 1 .. n : fs[i] \in Frames
    BY LenProperties, ElementOfSeq
<1>2. \A i \in 1 .. n : Size(fs[i]) \in Nat
    BY <1>1, SizeOfFrame
<1>3. ASSUME S # {} PROVE FALSE
    <2> DEFINE m == Min(S)
    <2>1. m \in S /\ \A k \in S : m <= k
        <3>1. S \subseteq Nat
            BY <1>1
        <3> HIDE DEF S
        <3>2. QED
            BY <1>3, <3>1, LeastNat
    <2>2. m \in 0 .. n /\ ~\E u : UpTo(u, m)
        BY <2>1
    <2> HIDE DEF m
    <2>3. CASE m = 0
        <3>1. UpTo([i \in 0 .. 0 |-> 0], 0)
            OBVIOUS
        <3>2. QED
            BY <2>2, <2>3, <3>1
    <2>4. CASE m # 0
        <3>1. m - 1 \in 0 .. n /\ m - 1 \notin S
            <4> HIDE DEF S
            <4>1. QED
                BY <1>1, <2>1, <2>2, <2>4
        <3>2. PICK u : UpTo(u, m - 1)
            BY <3>1
        <3> DEFINE v == [i \in 0 .. m |-> IF i = m THEN u[m - 1] + Size(fs[m]) ELSE u[i]]
        <3>3. m \in 1 .. n /\ m - 1 \in 0 .. m - 1 /\ Size(fs[m]) \in Nat /\ u[m - 1] \in Nat
            BY <1>1, <1>2, <2>2, <2>4, <3>2
        <3>4. v \in [0 .. m -> Nat] /\ v[0] = 0
            BY <3>2, <3>3
        <3>5. \A i \in 1 .. m : v[i] = v[i - 1] + Size(fs[i])
            BY <3>2, <3>3
        <3>6. QED
            BY <2>2, <3>4, <3>5
    <2>5. QED
        BY <2>3, <2>4
<1>4. n \in 0 .. n /\ n \notin S
    BY <1>1, <1>3
<1>5. \E u : UpTo(u, n)
    BY <1>4
<1>6. QED
    BY <1>5 DEF Sums

\* By induction: there is one such u.
LEMMA SumsUnique ==
    ASSUME NEW m \in Nat, NEW u, NEW v, u[0] = v[0],
           \A i \in 1 .. m : u[i - 1] = v[i - 1] => u[i] = v[i]
    PROVE  u[m] = v[m]
<1> DEFINE S == {i \in 0 .. m : u[i] # v[i]}
<1>1. ASSUME S # {} PROVE FALSE
    <2> DEFINE k == Min(S)
    <2>1. k \in S /\ \A i \in S : k <= i
        <3>1. S \subseteq Nat
            OBVIOUS
        <3> HIDE DEF S
        <3>2. QED
            BY <1>1, <3>1, LeastNat
    <2> HIDE DEF k
    <2>2. k \in 1 .. m /\ k - 1 \in 0 .. m /\ u[k] # v[k]
        BY <2>1
    <2>3. u[k - 1] = v[k - 1]
        BY <2>1, <2>2
    <2>4. QED
        BY <2>2, <2>3
<1>2. QED
    BY <1>1

\* Bytes is the last of the sums.
LEMMA BytesSums ==
    ASSUME NEW fs \in Seq(Frames), NEW u, Sums(u, fs)
    PROVE  Bytes(fs) = u[Len(fs)] /\ Bytes(fs) \in Nat
<1> DEFINE n == Len(fs)
           Step(g) == [i \in 0 .. n |-> IF i = 0 THEN 0 ELSE g[i - 1] + Size(fs[i])]
           upTo == CHOOSE g : g = Step(g)
<1>1. n \in Nat
    BY LenProperties
<1>2. u = Step(u)
    BY <1>1 DEF Sums
<1>3. upTo = Step(upTo)
    BY <1>2
<1>4. Bytes(fs) = upTo[n]
    BY DEF Bytes
<1> HIDE DEF upTo
<1>5. upTo[0] = 0 /\ \A i \in 1 .. n : upTo[i] = upTo[i - 1] + Size(fs[i])
    BY <1>1, <1>3
<1>6. u[0] = 0 /\ \A i \in 1 .. n : u[i] = u[i - 1] + Size(fs[i])
    BY DEF Sums
<1>7. \A i \in 1 .. n : upTo[i - 1] = u[i - 1] => upTo[i] = u[i]
    BY <1>5, <1>6
<1>8. upTo[0] = u[0]
    BY <1>5, <1>6
<1> HIDE DEF Step, n
<1>9. upTo[n] = u[n]
    BY <1>1, <1>7, <1>8, SumsUnique
<1>10. QED
    BY <1>1, <1>4, <1>9 DEF Sums, n

\* What the stream gains with a frame at its end, and loses with the first one.
LEMMA BytesLaws ==
    /\ Bytes(<<>>) = 0
    /\ \A fs \in Seq(Frames) : Bytes(fs) \in Nat
    /\ \A fs \in Seq(Frames), f \in Frames : Bytes(Append(fs, f)) = Bytes(fs) + Size(f)
    /\ \A fs \in Seq(Frames) : fs # <<>> => Bytes(fs) = Size(Head(fs)) + Bytes(Tail(fs))
<1>1. <<>> \in Seq(Frames) /\ Len(<<>>) = 0
    BY EmptySeq
<1>2. Bytes(<<>>) = 0
    BY <1>1, SumsExist, BytesSums DEF Sums
<1>3. ASSUME NEW fs \in Seq(Frames) PROVE Bytes(fs) \in Nat
    BY SumsExist, BytesSums
<1>4. ASSUME NEW fs \in Seq(Frames), NEW f \in Frames
      PROVE  Bytes(Append(fs, f)) = Bytes(fs) + Size(f)
    <2> DEFINE gs == Append(fs, f)
               n  == Len(fs)
    <2>1. /\ n \in Nat /\ gs \in Seq(Frames) /\ Len(gs) = n + 1 /\ gs[n + 1] = f
          /\ \A i \in 1 .. n : gs[i] = fs[i]
        BY LenProperties, AppendProperties
    <2> HIDE DEF gs
    <2>2. PICK u : Sums(u, fs)
        BY SumsExist
    <2>3. PICK v : Sums(v, gs)
        BY <2>1, SumsExist
    <2>4. /\ u[0] = 0 /\ v[0] = 0
          /\ \A i \in 1 .. n : u[i] = u[i - 1] + Size(fs[i])
          /\ \A i \in 1 .. n : v[i] = v[i - 1] + Size(fs[i])
        BY <2>1, <2>2, <2>3 DEF Sums
    <2>5. v[n + 1] = v[n] + Size(f)
        BY <2>1, <2>3 DEF Sums
    <2> HIDE DEF n
    <2>6. u[n] = v[n]
        <3>1. u[0] = v[0] /\ \A i \in 1 .. n : u[i - 1] = v[i - 1] => u[i] = v[i]
            BY <2>4
        <3>2. n \in Nat
            BY <2>1
        <3>3. QED
            BY <3>1, <3>2, SumsUnique
    <2>7. Bytes(fs) = u[n] /\ Bytes(gs) = v[n + 1]
        BY <2>1, <2>2, <2>3, BytesSums DEF n
    <2>8. QED
        BY <2>5, <2>6, <2>7 DEF gs
<1>5. ASSUME NEW fs \in Seq(Frames), fs # <<>>
      PROVE  Bytes(fs) = Size(Head(fs)) + Bytes(Tail(fs))
    <2> DEFINE gs == Tail(fs)
               n  == Len(gs)
               hd == Head(fs)
    <2>1. /\ n \in Nat /\ gs \in Seq(Frames) /\ Len(fs) = n + 1 /\ fs[1] = hd
          /\ \A i \in 1 .. n : gs[i] = fs[i + 1]
          /\ hd \in Frames
        BY <1>5, LenProperties, HeadTailProperties
    <2> HIDE DEF gs, hd
    <2>2. PICK u : Sums(u, fs)
        BY SumsExist
    <2>3. PICK v : Sums(v, gs)
        BY <2>1, SumsExist
    <2>4. Size(hd) \in Nat
        BY <2>1, SizeOfFrame
    <2> DEFINE x == [i \in 0 .. n |-> u[i + 1] - Size(hd)]
    <2>5. u[0] = 0 /\ u[1] = Size(hd)
        BY <2>1, <2>2, <2>4 DEF Sums
    <2>6. ASSUME NEW i \in 1 .. n PROVE u[i + 1] = u[i] + Size(gs[i])
        <3>1. i + 1 \in 1 .. Len(fs) /\ (i + 1) - 1 = i /\ gs[i] = fs[i + 1]
            BY <2>1
        <3>2. u[i + 1] = u[(i + 1) - 1] + Size(fs[i + 1])
            BY <2>2, <3>1 DEF Sums
        <3>3. QED
            BY <3>1, <3>2
    <2>7. ASSUME NEW i \in 0 .. n PROVE u[i + 1] \in Nat
        <3>1. i + 1 \in 0 .. Len(fs)
            BY <2>1
        <3>2. QED
            BY <2>2, <3>1 DEF Sums
    <2>8. \A i \in 1 .. n : gs[i] \in Frames /\ Size(gs[i]) \in Nat
        BY <2>1, ElementOfSeq, SizeOfFrame
    <2>9. x[0] = 0
        BY <2>1, <2>4, <2>5
    <2>10. ASSUME NEW i \in 1 .. n PROVE x[i] = x[i - 1] + Size(gs[i])
        <3>1. i \in 0 .. n /\ i - 1 \in 0 .. n /\ (i - 1) + 1 = i
            BY <2>1
        <3>2. x[i] = u[i + 1] - Size(hd) /\ x[i - 1] = u[i] - Size(hd)
            BY <3>1
        <3>3. u[i + 1] = u[i] + Size(gs[i]) /\ u[i] \in Nat /\ Size(gs[i]) \in Nat
            <4>1. u[(i - 1) + 1] \in Nat
                BY <2>7, <3>1
            <4>2. QED
                BY <2>6, <2>8, <3>1, <4>1
        <3> HIDE DEF x
        <3>4. QED
            BY <2>4, <3>2, <3>3
    <2>11. x[n] = u[n + 1] - Size(hd)
        BY <2>1
    <2>12. v[0] = 0 /\ \A i \in 1 .. n : v[i] = v[i - 1] + Size(gs[i])
        BY <2>3 DEF Sums
    <2> HIDE DEF x, n
    <2>13. x[n] = v[n]
        <3>1. x[0] = v[0] /\ \A i \in 1 .. n : x[i - 1] = v[i - 1] => x[i] = v[i]
            BY <2>9, <2>10, <2>12
        <3>2. n \in Nat
            BY <2>1
        <3>3. QED
            BY <3>1, <3>2, SumsUnique
    <2>14. Bytes(fs) = u[n + 1] /\ Bytes(gs) = v[n]
        BY <2>1, <2>2, <2>3, BytesSums DEF n
    <2>15. u[n + 1] \in Nat
        <3>1. n \in Nat /\ n \in 0 .. n
            BY <2>1
        <3>2. QED
            BY <2>7, <3>1
    <2>16. QED
        BY <2>4, <2>11, <2>13, <2>14, <2>15 DEF gs, hd
<1>6. QED
    BY <1>2, <1>3, <1>4, <1>5
-----------------------------------------------------------------------------
(* The inductive invariant *)

Below(S, T) == \A m \in S, n \in T : m < n

\* The frames carry their numbers in the order they were sent, and what task 2
\* has taken is older than what is still to come.
Counted ==
    /\ Len(wire) <= frames
    /\ \A i \in 1 .. Len(wire) : wire[i].n = (frames - Len(wire)) + i
    /\ \A i \in 1 .. Len(answered) : answered[i] <= frames - Len(wire)
    /\ Rising(answered)

\* Only answers come from task 2, and an ended task 1 leaves nothing behind in
\* the channel.
Channels ==
    /\ Numbers(control, "packet") = {} /\ Numbers(Held(t2), "packet") = {}
    /\ t1 = Done => control = <<>>

\* The requests whose answers the client has not received.
Later == {answered[i] : i \in Len(got["reply"]) + 1 .. Len(answered)}

\* Answers leave in the order of the requests, so those on the TLS stream are
\* the oldest ones still owed; this outlives task 1.
Answers ==
    /\ Len(got["reply"]) <= Len(answered)
    /\ \A i \in 1 .. Len(got["reply"]) : got["reply"][i] = answered[i]
    /\ InOrder(Queue, "reply")
    /\ Numbers(Queue, "reply") \subseteq Later
    /\ t1 # Done => Later \subseteq Numbers(Queue, "reply")
    /\ \A m, n \in Later : m < n /\ n \in Numbers(out, "reply") => m \in Numbers(out, "reply")

\* A packet is in one place, and none is newer than the last one read.
Paths ==
    LET received == Range(got["packet"])
        queued   == Numbers(Queue, "packet")
    IN /\ Rising(got["packet"]) /\ InOrder(Queue, "packet") /\ Below(received, queued)
       /\ (received \cup queued) \cap gotUdp = {}
       /\ received \cup queued \cup gotUdp \subseteq 1 .. packets
       /\ t1 # Done => 1 .. packets \subseteq received \cup queued \cup gotUdp

\* The inductive invariant.  RepliesInOrder and OnePath compare what was
\* received with what is queued; what task 1 leaves behind when it fails, and
\* where new numbers come from, has to be known as well.
Inv == TypeOK /\ NoFrameLeft /\ Counted /\ Channels /\ Answers /\ Paths

-----------------------------------------------------------------------------
(* Sequences of messages *)

\* The fields of a message, which the marker for none does not have.
LEMMA MessageFields ==
    ASSUME NEW m \in Messages
    PROVE  /\ m.n \in Nat /\ m # None
           /\ m = More => m.kind \notin MessageKinds
           /\ m # More => m.kind \in MessageKinds
<1>1. MaxFrames \in Nat /\ MaxPackets \in Nat
    BY TunnelAssumption DEF TunnelAssumption
<1>2. CASE m \in [kind : {"reply"}, n : 1 .. MaxFrames]
    BY <1>1, <1>2 DEF MessageKinds, None, More
<1>3. CASE m \in [kind : {"packet"}, n : 1 .. MaxPackets]
    BY <1>1, <1>3 DEF MessageKinds, None, More
<1>4. CASE m = More
    BY <1>4 DEF MessageKinds, None, More
<1>5. QED
    BY <1>2, <1>3, <1>4 DEF Messages, Payloads

\* What task 1 reads from the TUN device is no answer.
LEMMA PayloadFields ==
    ASSUME NEW m \in Payloads
    PROVE  /\ m \in Messages /\ m.kind # "reply"
           /\ m = More => m.kind # "packet"
           /\ m # More => m.kind = "packet" /\ m.n \in 1 .. MaxPackets
BY DEF Payloads, Messages, More

\* No messages at all.
LEMMA EmptyLaws ==
    ASSUME NEW k
    PROVE  Numbers(<<>>, k) = {} /\ InOrder(<<>>, k)
BY DEF Numbers, InOrder

\* One message.
LEMMA SingletonLaws ==
    ASSUME NEW m \in Messages, NEW k
    PROVE  /\ <<m>> \in Seq(Messages) /\ InOrder(<<m>>, k)
           /\ m.kind = k => Numbers(<<m>>, k) = {m.n}
           /\ m.kind # k => Numbers(<<m>>, k) = {}
<1>1. <<m>> \in Seq(Messages) /\ DOMAIN <<m>> = {1} /\ <<m>>[1] = m
    OBVIOUS
<1>2. InOrder(<<m>>, k)
    BY <1>1 DEF InOrder
<1>3. ASSUME m.kind = k PROVE Numbers(<<m>>, k) = {m.n}
    BY <1>1, <1>3 DEF Numbers
<1>4. ASSUME m.kind # k PROVE Numbers(<<m>>, k) = {}
    BY <1>1, <1>4 DEF Numbers
<1>5. QED
    BY <1>1, <1>2, <1>3, <1>4

\* What it means to be the number of a message.
LEMMA NumberOf ==
    ASSUME NEW s, NEW k
    PROVE  /\ \A i \in DOMAIN s : s[i].kind = k => s[i].n \in Numbers(s, k)
           /\ \A x \in Numbers(s, k) : \E i \in DOMAIN s : s[i].kind = k /\ s[i].n = x
BY DEF Numbers

\* A concatenation has the numbers of both parts, and is in order when both
\* parts are and the second is later.
LEMMA ConcatLaws ==
    ASSUME NEW s \in Seq(Messages), NEW t \in Seq(Messages), NEW k
    PROVE  /\ s \o t \in Seq(Messages)
           /\ Numbers(s \o t, k) = Numbers(s, k) \cup Numbers(t, k)
           /\ InOrder(s \o t, k) <=>
                InOrder(s, k) /\ InOrder(t, k) /\ Below(Numbers(s, k), Numbers(t, k))
<1> DEFINE st == s \o t
           a  == Len(s)
           b  == Len(t)
<1>1. /\ st \in Seq(Messages) /\ a \in Nat /\ b \in Nat
      /\ DOMAIN s = 1 .. a /\ DOMAIN t = 1 .. b /\ DOMAIN st = 1 .. a + b
      /\ \A i \in 1 .. a + b : st[i] = IF i <= a THEN s[i] ELSE t[i - a]
    <2>1. st \in Seq(Messages) /\ Len(st) = a + b
        BY ConcatProperties
    <2>2. QED
        BY <2>1, ConcatProperties, LenProperties
<1> HIDE DEF st, a, b
<1>2. \A i \in 1 .. a : i \in 1 .. a + b /\ st[i] = s[i]
    BY <1>1
<1>3. ASSUME NEW i \in 1 .. b PROVE a + i \in 1 .. a + b /\ st[a + i] = t[i]
    <2>1. a + i \in 1 .. a + b /\ ~ (a + i <= a) /\ (a + i) - a = i
        BY <1>1
    <2>2. QED
        BY <1>1, <2>1
<1>4. ASSUME NEW i \in 1 .. a + b
      PROVE  \/ i \in 1 .. a
             \/ i - a \in 1 .. b /\ i = a + (i - a)
    BY <1>1
<1>5. Numbers(st, k) \subseteq Numbers(s, k) \cup Numbers(t, k)
    <2> SUFFICES ASSUME NEW i \in 1 .. a + b, st[i].kind = k
                 PROVE  st[i].n \in Numbers(s, k) \cup Numbers(t, k)
        BY <1>1, NumberOf
    <2>1. CASE i \in 1 .. a
        BY <1>1, <1>2, <2>1, NumberOf
    <2>2. CASE i - a \in 1 .. b /\ i = a + (i - a)
        <3>1. st[i] = t[i - a]
            BY <1>3, <2>2
        <3>2. QED
            BY <1>1, <2>2, <3>1, NumberOf
    <2>3. QED
        BY <1>4, <2>1, <2>2
<1>6. Numbers(s, k) \cup Numbers(t, k) \subseteq Numbers(st, k)
    <2>1. ASSUME NEW i \in 1 .. a, s[i].kind = k PROVE s[i].n \in Numbers(st, k)
        BY <1>1, <1>2, <2>1, NumberOf
    <2>2. ASSUME NEW i \in 1 .. b, t[i].kind = k PROVE t[i].n \in Numbers(st, k)
        BY <1>1, <1>3, <2>2, NumberOf
    <2>3. \A x \in Numbers(s, k) : x \in Numbers(st, k)
        BY <1>1, <2>1, NumberOf
    <2>4. \A x \in Numbers(t, k) : x \in Numbers(st, k)
        BY <1>1, <2>2, NumberOf
    <2>5. QED
        BY <2>3, <2>4
<1>7. ASSUME InOrder(st, k)
      PROVE  InOrder(s, k) /\ InOrder(t, k) /\ Below(Numbers(s, k), Numbers(t, k))
    <2>1. \A i, j \in 1 .. a + b :
             (i < j /\ st[i].kind = k /\ st[j].kind = k) => st[i].n < st[j].n
        BY <1>1, <1>7 DEF InOrder
    <2>2. InOrder(s, k)
        BY <1>1, <1>2, <2>1 DEF InOrder
    <2>3. InOrder(t, k)
        <3> SUFFICES ASSUME NEW i \in 1 .. b, NEW j \in 1 .. b,
                            i < j, t[i].kind = k, t[j].kind = k
                     PROVE  t[i].n < t[j].n
            BY <1>1 DEF InOrder
        <3>1. a + i < a + j
            BY <1>1
        <3>2. QED
            BY <1>3, <2>1, <3>1
    <2>4. Below(Numbers(s, k), Numbers(t, k))
        <3> SUFFICES ASSUME NEW x \in Numbers(s, k), NEW y \in Numbers(t, k)
                     PROVE  x < y
            BY DEF Below
        <3>1. PICK i \in DOMAIN s : s[i].kind = k /\ s[i].n = x
            BY NumberOf
        <3>2. PICK j \in DOMAIN t : t[j].kind = k /\ t[j].n = y
            BY NumberOf
        <3>3. i \in 1 .. a /\ j \in 1 .. b /\ i < a + j
            BY <1>1
        <3>4. QED
            BY <1>2, <1>3, <2>1, <3>1, <3>2, <3>3
    <2>5. QED
        BY <2>2, <2>3, <2>4
<1>8. ASSUME InOrder(s, k), InOrder(t, k), Below(Numbers(s, k), Numbers(t, k))
      PROVE  InOrder(st, k)
    <2> SUFFICES ASSUME NEW i \in 1 .. a + b, NEW j \in 1 .. a + b,
                        i < j, st[i].kind = k, st[j].kind = k
                 PROVE  st[i].n < st[j].n
        BY <1>1 DEF InOrder
    <2>1. CASE j \in 1 .. a
        <3>1. i \in 1 .. a
            BY <1>1, <2>1
        <3>2. st[i] = s[i] /\ st[j] = s[j]
            BY <1>2, <2>1, <3>1
        <3>3. QED
            BY <1>1, <1>8, <2>1, <3>1, <3>2 DEF InOrder
    <2>2. CASE i \in 1 .. a /\ j - a \in 1 .. b /\ j = a + (j - a)
        <3>1. st[i] = s[i] /\ st[j] = t[j - a]
            BY <1>2, <1>3, <2>2
        <3>2. s[i].n \in Numbers(s, k) /\ t[j - a].n \in Numbers(t, k)
            BY <1>1, <2>2, <3>1, NumberOf
        <3>3. QED
            BY <1>8, <3>1, <3>2 DEF Below
    <2>3. CASE i - a \in 1 .. b /\ i = a + (i - a) /\ j - a \in 1 .. b /\ j = a + (j - a)
        <3>1. st[i] = t[i - a] /\ st[j] = t[j - a]
            BY <1>3, <2>3
        <3>2. i - a < j - a
            BY <1>1
        <3>3. QED
            BY <1>1, <1>8, <2>3, <3>1, <3>2 DEF InOrder
    <2>4. QED
        BY <1>4, <2>1, <2>2, <2>3
<1>9. st \in Seq(Messages)
    BY <1>1
<1>10. QED
    BY <1>5, <1>6, <1>7, <1>8, <1>9 DEF st

-----------------------------------------------------------------------------
(* What the actions do to the messages on their way *)

\* What a task holds, in each of its states.
LEMMA HeldLaws ==
    /\ Held(Select) = <<>> /\ Held(Done) = <<>> /\ Held([at |-> "parse", msg |-> None]) = <<>>
    /\ \A a, m : m \in Messages => Held([at |-> a, msg |-> m]) = <<m>>
BY MessageFields DEF Held, Select, Done

\* What a task holds is a sequence of messages.
LEMMA HeldInSeq ==
    ASSUME TypeOK
    PROVE  Held(t1) \in Seq(Messages) /\ Held(t2) \in Seq(Messages)
<1>1. <<>> \in Seq(Messages)
    BY EmptySeq
<1>2. Held(t1) \in Seq(Messages)
    <2>1. CASE t1 \in {Select, Done}
        BY <1>1, <2>1, HeldLaws
    <2>2. CASE \/ t1 \in [at : {"write"}, msg : Messages]
               \/ t1 \in [at : {"seal", "send"}, msg : Payloads]
        <3>1. t1.msg \in Messages
            BY <2>2, PayloadFields
        <3>2. Held(t1) = <<t1.msg>>
            BY <3>1, MessageFields DEF Held
        <3>3. QED
            BY <3>1, <3>2, SingletonLaws
    <2>3. QED
        BY <2>1, <2>2 DEF TypeOK
<1>3. Held(t2) \in Seq(Messages)
    <2>1. CASE t2 \in {Select, Done, [at |-> "parse", msg |-> None]}
        BY <1>1, <2>1, HeldLaws
    <2>2. CASE t2 \in [at : {"control"}, msg : Messages]
        <3>1. t2.msg \in Messages
            BY <2>2
        <3>2. Held(t2) = <<t2.msg>>
            BY <3>1, MessageFields DEF Held
        <3>3. QED
            BY <3>1, <3>2, SingletonLaws
    <2>3. QED
        BY <2>1, <2>2 DEF TypeOK
<1>4. QED
    BY <1>2, <1>3

\* Concatenation is associative.
LEMMA ConcatAssoc ==
    ASSUME NEW s \in Seq(Messages), NEW t \in Seq(Messages), NEW u \in Seq(Messages)
    PROVE  (s \o t) \o u = s \o (t \o u)
BY ConcatAssociative

\* A message moves from one place to the next without changing the order.
LEMMA Moves ==
    ASSUME NEW o \in Seq(Messages), NEW x \in Seq(Messages),
           NEW c \in Seq(Messages), NEW h \in Seq(Messages), NEW m \in Messages
    PROVE  /\ (x \o c) \o <<m>> = (x \o Append(c, m)) \o <<>>
           /\ ((o \o <<m>>) \o c) \o h = ((Append(o, m) \o <<>>) \o c) \o h
           /\ c # <<>> => ((o \o <<>>) \o c) \o h = ((o \o <<Head(c)>>) \o Tail(c)) \o h
           /\ o # <<>> => /\ o = <<Head(o)>> \o Tail(o)
                          /\ ((o \o x) \o c) \o h = <<Head(o)>> \o (((Tail(o) \o x) \o c) \o h)
           /\ ((o \o x) \o c) \o h = o \o (x \o (c \o h))
           /\ o \o <<>> = o
<1>1. \A e \in Messages : <<e>> \in Seq(Messages)
    BY SingletonLaws
<1>2. \A s, t \in Seq(Messages) : s \o t \in Seq(Messages)
    BY ConcatLaws
<1>3. \A s, t, u \in Seq(Messages) : (s \o t) \o u = s \o (t \o u)
    BY ConcatAssoc
<1>4. \A s \in Seq(Messages) : s \o <<>> = s
    BY ConcatEmptySeq
<1>5. \A s \in Seq(Messages), e \in Messages :
          Append(s, e) \in Seq(Messages) /\ Append(s, e) = s \o <<e>>
    BY AppendProperties, AppendIsConcat
<1>6. ASSUME NEW s \in Seq(Messages), s # <<>>
      PROVE  Head(s) \in Messages /\ Tail(s) \in Seq(Messages) /\ s = <<Head(s)>> \o Tail(s)
    <2> DEFINE hs == <<Head(s)>>
               ts == Tail(s)
               z  == hs \o ts
    <2>1. /\ Head(s) \in Messages /\ ts \in Seq(Messages) /\ Len(ts) = Len(s) - 1
          /\ \A i \in 1 .. Len(ts) : ts[i] = s[i + 1]
        BY <1>6, HeadTailProperties
    <2>2. hs \in Seq(Messages) /\ Len(hs) = 1 /\ hs[1] = s[1]
        BY <1>1, <2>1
    <2>3. Len(s) \in Nat
        BY LenProperties
    <2> HIDE DEF hs, ts
    <2>4. /\ z \in Seq(Messages) /\ Len(z) = 1 + Len(ts)
          /\ \A i \in 1 .. 1 + Len(ts) : z[i] = IF i <= 1 THEN hs[i] ELSE ts[i - 1]
        <3>1. /\ z \in Seq(Messages) /\ Len(z) = Len(hs) + Len(ts)
              /\ \A i \in 1 .. Len(hs) + Len(ts) :
                    z[i] = IF i <= Len(hs) THEN hs[i] ELSE ts[i - Len(hs)]
            <4>1. hs \in Seq(Messages) /\ ts \in Seq(Messages)
                BY <2>1, <2>2
            <4>2. QED
                BY <4>1, ConcatProperties, Zenon
        <3> HIDE DEF z
        <3>2. QED
            BY <2>2, <3>1
    <2> HIDE DEF z
    <2>5. Len(z) = Len(s)
        BY <2>1, <2>3, <2>4
    <2>6. ASSUME NEW i \in 1 .. Len(z) PROVE z[i] = s[i]
        <3>1. CASE i = 1
            BY <2>2, <2>3, <2>4, <3>1
        <3>2. CASE i # 1
            <4>1. i - 1 \in 1 .. Len(ts) /\ (i - 1) + 1 = i /\ ~ (i <= 1) /\ i \in 1 .. 1 + Len(ts)
                BY <2>1, <2>3, <2>4, <3>2
            <4>2. QED
                BY <2>1, <2>4, <4>1
        <3>3. QED
            BY <3>1, <3>2
    <2>7. z = s
        BY <2>4, <2>5, <2>6, SeqEqual
    <2>8. QED
        BY <2>1, <2>7 DEF z, hs, ts
<1>7. (x \o c) \o <<m>> = (x \o Append(c, m)) \o <<>>
    <2>1. (x \o c) \o <<m>> = x \o (c \o <<m>>)
        BY <1>1, <1>3, SMTT(60)
    <2>2. c \o <<m>> = Append(c, m) /\ Append(c, m) \in Seq(Messages)
        BY <1>5
    <2>3. (x \o Append(c, m)) \o <<>> = x \o Append(c, m)
        BY <1>2, <1>4, <2>2
    <2>4. QED
        BY <2>1, <2>2, <2>3
<1>8. ASSUME c # <<>>
      PROVE  ((o \o <<>>) \o c) \o h = ((o \o <<Head(c)>>) \o Tail(c)) \o h
    <2>1. c = <<Head(c)>> \o Tail(c) /\ <<Head(c)>> \in Seq(Messages) /\ Tail(c) \in Seq(Messages)
        BY <1>1, <1>6, <1>8
    <2>2. o \o <<>> = o
        BY <1>4
    <2>3. o \o c = (o \o <<Head(c)>>) \o Tail(c)
        BY <1>3, <2>1, SMTT(60)
    <2>4. QED
        BY <2>2, <2>3
<1>9. ((o \o <<m>>) \o c) \o h = ((Append(o, m) \o <<>>) \o c) \o h
    BY <1>4, <1>5
<1>10. ASSUME o # <<>>
       PROVE  /\ o = <<Head(o)>> \o Tail(o)
              /\ ((o \o x) \o c) \o h = <<Head(o)>> \o (((Tail(o) \o x) \o c) \o h)
    <2> DEFINE ho == <<Head(o)>>
               to == Tail(o)
    <2>1. o = ho \o to /\ ho \in Seq(Messages) /\ to \in Seq(Messages)
        BY <1>1, <1>6, <1>10
    <2> HIDE DEF ho, to
    <2>2. (o \o x) = ho \o (to \o x) /\ to \o x \in Seq(Messages)
        BY <1>2, <1>3, <2>1, SMTT(60)
    <2> DEFINE tx == to \o x
    <2> HIDE DEF tx
    <2>3. (o \o x) \o c = ho \o (tx \o c) /\ tx \o c \in Seq(Messages)
        <3>1. o \o x = ho \o tx /\ tx \in Seq(Messages)
            BY <2>2 DEF tx
        <3>2. (ho \o tx) \o c = ho \o (tx \o c)
            <4>1. ho \in Seq(Messages) /\ tx \in Seq(Messages) /\ c \in Seq(Messages)
                BY <2>1, <3>1
            <4>2. QED
                BY ONLY <4>1, ConcatAssoc, SMTT(60)
        <3>3. QED
            BY <1>2, <3>1, <3>2
    <2>4. ((o \o x) \o c) \o h = ho \o (((to \o x) \o c) \o h)
        <3> DEFINE txc == tx \o c
        <3>1. (o \o x) \o c = ho \o txc /\ txc \in Seq(Messages)
            BY <2>3
        <3> HIDE DEF txc
        <3>2. (ho \o txc) \o h = ho \o (txc \o h)
            <4>1. ho \in Seq(Messages) /\ txc \in Seq(Messages) /\ h \in Seq(Messages)
                BY <2>1, <3>1
            <4>2. QED
                BY ONLY <4>1, ConcatAssoc, SMTT(60)
        <3>3. QED
            BY <3>1, <3>2 DEF tx, txc
    <2>5. QED
        BY <2>1, <2>4 DEF ho, to
<1>11. ((o \o x) \o c) \o h = o \o (x \o (c \o h))
    <2>1. (o \o x) \o c = o \o (x \o c) /\ x \o c \in Seq(Messages)
        BY <1>2, <1>3
    <2>2. (o \o (x \o c)) \o h = o \o ((x \o c) \o h)
        BY <1>3, <2>1, SMTT(60)
    <2>3. (x \o c) \o h = x \o (c \o h)
        BY <1>3
    <2>4. QED
        BY <2>1, <2>2, <2>3
<1>12. QED
    BY <1>4, <1>7, <1>8, <1>9, <1>10, <1>11

-----------------------------------------------------------------------------
(* The types are kept, and the bytes in the buffer belong to the stream *)

\* What is assumed of the constants, bound by bound.
LEMMA Constants ==
    /\ MaxFrames \in Nat /\ MaxPackets \in Nat /\ WireCap \in Nat /\ OutCap \in Nat
    /\ ControlCap \in Nat /\ 0 < WireCap /\ 0 < OutCap /\ 0 < ControlCap
BY TunnelAssumption DEF TunnelAssumption

\* What the client puts on the stream is a frame, numbered after the last.
LEMMA FrameSent ==
    ASSUME TypeOK, ClientSend, NEW s \in Sorts
    PROVE  LET f == [type |-> s.type, body |-> s.body, n |-> frames + 1]
           IN f \in Frames /\ f.n = frames + 1 /\ frames' \in 0 .. MaxFrames
<1>1. frames \in 0 .. MaxFrames /\ frames < MaxFrames /\ frames' = frames + 1
    BY DEF TypeOK, ClientSend
<1>2. frames + 1 \in 1 .. MaxFrames /\ frames' \in 0 .. MaxFrames
    BY ONLY <1>1, Constants
<1>3. s.type \in PacketTypes /\ s.body \in 0 .. MaxBody
    BY TunnelAssumption DEF TunnelAssumption
<1>4. QED
    BY ONLY <1>2, <1>3 DEF Frames

\* The types hold in the initial state.
LEMMA InitTypes ==
    ASSUME Init
    PROVE  TypeOK
<1>1. \A S : <<>> \in Seq(S) /\ Len(<<>>) = 0
    BY EmptySeq
<1>2. Bytes(wire) = 0
    BY BytesLaws DEF Init
<1>3. got \in [MessageKinds -> Seq(Nat)]
    BY <1>1 DEF Init
<1>4. wire \in Seq(Frames) /\ Len(wire) <= WireCap /\ buffered \in Nat /\ buffered <= Bytes(wire)
    BY <1>1, <1>2, Constants DEF Init
<1>5. /\ control \in Seq(Messages) /\ Len(control) <= ControlCap
      /\ out \in Seq(Messages) /\ Len(out) <= OutCap /\ answered \in Seq(1 .. MaxFrames)
    BY <1>1, Constants DEF Init
<1>6. frames \in 0 .. MaxFrames /\ packets \in 0 .. MaxPackets
    BY Constants DEF Init
<1>7. QED
    BY <1>3, <1>4, <1>5, <1>6 DEF Init, TypeOK

\* Parse takes the whole first frame, which is in the buffer.
LEMMA ParseTakes ==
    ASSUME TypeOK, Complete, buffered' = buffered - TotalLen(Head(wire)), wire' = Tail(wire)
    PROVE  /\ Head(wire) \in Frames /\ Head(wire) = wire[1]
           /\ wire' \in Seq(Frames) /\ Len(wire') = Len(wire) - 1 /\ 0 < Len(wire)
           /\ \A i \in 1 .. Len(wire') : wire'[i] = wire[i + 1]
           /\ buffered' \in Nat /\ buffered' <= Bytes(wire')
<1>1. wire \in Seq(Frames) /\ wire # <<>> /\ buffered \in Nat /\ buffered <= Bytes(wire)
    BY DEF TypeOK, Complete
<1>2. /\ Head(wire) \in Frames /\ Head(wire) = wire[1]
      /\ Tail(wire) \in Seq(Frames) /\ Len(Tail(wire)) = Len(wire) - 1 /\ Len(wire) \in Nat
      /\ \A i \in 1 .. Len(Tail(wire)) : Tail(wire)[i] = wire[i + 1]
    BY <1>1, HeadTailProperties, LenProperties
<1>3. 0 < Len(wire)
    BY <1>1, EmptySeq
<1>4. Bytes(wire) = Size(Head(wire)) + Bytes(Tail(wire)) /\ Bytes(Tail(wire)) \in Nat
    BY <1>1, <1>2, BytesLaws
<1>5. TotalLen(Head(wire)) = Size(Head(wire)) /\ Size(Head(wire)) \in Nat
    BY <1>2, SizeOfFrame
<1>6. buffered >= Size(Head(wire))
    BY <1>5 DEF Complete
<1>7. buffered' \in Nat /\ buffered' <= Bytes(wire')
    BY <1>1, <1>4, <1>5, <1>6
<1>8. QED
    BY <1>2, <1>3, <1>7

\* Every step keeps the types; that buffered is at most Bytes(wire) is where
\* BytesLaws is needed.
LEMMA TypesKept ==
    ASSUME TypeOK, [Next]_vars
    PROVE  TypeOK'
<1> USE Constants
<1>1. CASE ClientSend
    <2>1. PICK s \in Sorts :
             wire' = Append(wire, [type |-> s.type, body |-> s.body, n |-> frames + 1])
        BY <1>1 DEF ClientSend
    <2> DEFINE f == [type |-> s.type, body |-> s.body, n |-> frames + 1]
    <2>2. f \in Frames /\ frames' \in 0 .. MaxFrames
        BY <1>1, FrameSent
    <2>3. wire' = Append(wire, f) /\ wire \in Seq(Frames)
        BY <2>1 DEF TypeOK
    <2> HIDE DEF f
    <2>4. wire' \in Seq(Frames) /\ Len(wire') = Len(wire) + 1
        BY <2>2, <2>3, AppendProperties
    <2>5. Bytes(wire') = Bytes(wire) + Size(f) /\ Bytes(wire) \in Nat /\ Size(f) \in Nat
        BY <2>2, <2>3, BytesLaws, SizeOfFrame
    <2>6. Len(wire') <= WireCap
        BY <1>1, <2>3, <2>4, LenProperties DEF ClientSend
    <2>7. buffered' \in Nat /\ buffered' <= Bytes(wire')
        BY <1>1, <2>5 DEF ClientSend, TypeOK
    <2>8. QED
        BY <1>1, <2>2, <2>4, <2>6, <2>7
           DEF ClientSend, TypeOK, client, egress, signal, ingress
<1>2. CASE ClientRead
    <2>1. /\ out \in Seq(Messages) /\ out # <<>> /\ Head(out) \in Messages
          /\ out' \in Seq(Messages) /\ Len(out') = Len(out) - 1 /\ Len(out) \in Nat
        BY <1>2, HeadTailProperties, LenProperties DEF ClientRead, TypeOK
    <2>2. Head(out).n \in Nat /\ (Head(out) # More => Head(out).kind \in MessageKinds)
        BY <2>1, MessageFields
    <2>3. got' \in [MessageKinds -> Seq(Nat)]
        <3>1. got \in [MessageKinds -> Seq(Nat)]
            BY DEF TypeOK
        <3>2. CASE Head(out) = More
            BY <1>2, <3>1, <3>2 DEF ClientRead
        <3>3. CASE Head(out) # More
            <4>1. Append(got[Head(out).kind], Head(out).n) \in Seq(Nat)
                BY <2>2, <3>1, <3>3, AppendProperties
            <4>2. got' = [got EXCEPT ![Head(out).kind] = Append(got[Head(out).kind], Head(out).n)]
                BY <1>2, <3>3 DEF ClientRead
            <4>3. QED
                BY <3>1, <4>1, <4>2
        <3>4. QED
            BY <3>2, <3>3
    <2>4. Len(out') <= OutCap
        BY <2>1 DEF TypeOK
    <2>5. QED
        BY <1>2, <2>1, <2>3, <2>4
           DEF ClientRead, TypeOK, client, egress, signal, ingress
<1>3. CASE T2Read
    <2>1. buffered' \in Nat /\ buffered' <= Bytes(wire')
        BY <1>3, BytesLaws DEF T2Read, TypeOK
    <2>2. t2' = [at |-> "parse", msg |-> None]
        <3>1. t2 = Select
            BY <1>3 DEF T2Read, TypeOK, Done
        <3>2. QED
            BY <1>3, <3>1 DEF T2Read, Select
    <2>3. QED
        BY <1>3, <2>1, <2>2 DEF T2Read, TypeOK, client, egress, signal, ingress
<1>4. CASE T2Ends
    BY <1>4 DEF T2Ends, TypeOK, client, egress, signal, ingress
<1>5. CASE Parse
    <2> DEFINE f == Head(wire)
    <2>1. /\ f \in Frames /\ wire' \in Seq(Frames) /\ Len(wire') = Len(wire) - 1
          /\ Len(wire) \in Nat /\ buffered' \in Nat /\ buffered' <= Bytes(wire')
        BY <1>5, ParseTakes, LenProperties DEF Parse, TypeOK
    <2>2. f.n \in 1 .. MaxFrames /\ Reply(f.n) \in Messages
        BY <2>1, SizeOfFrame DEF Reply, Messages
    <2>3. answered' \in Seq(1 .. MaxFrames)
        <3>1. answered \in Seq(1 .. MaxFrames)
            BY DEF TypeOK
        <3>2. Append(answered, f.n) \in Seq(1 .. MaxFrames)
            BY <2>2, <3>1, AppendProperties
        <3>3. answered' = answered \/ answered' = Append(answered, f.n)
            BY <1>5 DEF Parse
        <3>4. QED
            BY <3>1, <3>2, <3>3
    <2>4. t2' \in {Select, Done, [at |-> "parse", msg |-> None]} \cup [at : {"control"}, msg : Messages]
        BY <1>5, <2>2 DEF Parse, TypeOK
    <2>5. Len(wire') <= WireCap
        BY <2>1 DEF TypeOK
    <2>6. QED
        BY <1>5, <2>1, <2>3, <2>4, <2>5 DEF Parse, TypeOK, client, egress, signal
<1>6. CASE ParseEnds
    BY <1>6 DEF ParseEnds, TypeOK, client, egress, signal, ingress
<1>7. CASE ControlSend
    <2>1. t2.msg \in Messages
        BY <1>7 DEF ControlSend, TypeOK, Select, Done
    <2>2. control' \in Seq(Messages) /\ Len(control') <= ControlCap
        <3>1. CASE Len(control) < ControlCap /\ control' = Append(control, t2.msg)
            <4>1. control \in Seq(Messages) /\ Len(control) \in Nat
                BY LenProperties DEF TypeOK
            <4>2. control' \in Seq(Messages) /\ Len(control') = Len(control) + 1
                BY <2>1, <3>1, <4>1, AppendProperties
            <4>3. QED
                BY <3>1, <4>1, <4>2
        <3>2. CASE UNCHANGED control
            BY <3>2 DEF TypeOK
        <3>3. QED
            BY <1>7, <3>1, <3>2 DEF ControlSend
    <2>3. QED
        BY <1>7, <2>2 DEF ControlSend, TypeOK, client, egress, signal, ingress
<1>8. CASE T1Control
    <2>1. /\ control' \in Seq(Messages) /\ Len(control') <= ControlCap
          /\ t1' \in {Done} \cup [at : {"write"}, msg : Messages]
        <3>1. CASE control # <<>> /\ t1' = [at |-> "write", msg |-> Head(control)] /\ control' = Tail(control)
            BY <3>1, HeadTailProperties, LenProperties DEF TypeOK
        <3>2. CASE t1' = Done /\ UNCHANGED control
            BY <3>2 DEF TypeOK
        <3>3. QED
            BY <1>8, <3>1, <3>2 DEF T1Control
    <2>2. QED
        BY <1>8, <2>1 DEF T1Control, TypeOK, client, signal, ingress
<1>9. CASE T1ReadTun
    <2>1. packets' \in 0 .. MaxPackets
        BY <1>9 DEF T1ReadTun, TypeOK
    <2>2. t1'.msg \in Payloads
        <3>1. CASE packets < MaxPackets
            <4>1. packets + 1 \in 1 .. MaxPackets
                BY <3>1 DEF TypeOK
            <4>2. QED
                BY <1>9, <3>1, <4>1 DEF T1ReadTun, Packet, Payloads
        <3>2. CASE ~ (packets < MaxPackets)
            BY <1>9, <3>2 DEF T1ReadTun, Payloads
        <3>3. QED
            BY <3>1, <3>2
    <2>3. t1' \in [at : {"write"}, msg : Messages] \cup [at : {"seal", "send"}, msg : Payloads]
        <3>1. t1' \in [at : {"seal", "write"}, msg : Payloads]
            <4>1. t1' = [at |-> IF useDtls THEN "seal" ELSE "write", msg |-> t1'.msg]
                BY <1>9 DEF T1ReadTun
            <4>2. QED
                BY <2>2, <4>1
        <3>2. QED
            BY <2>2, <3>1, PayloadFields
    <2>4. QED
        BY <1>9, <2>1, <2>3 DEF T1ReadTun, TypeOK, client, signal, ingress
<1>10. CASE T1Write
    <2>1. t1.msg \in Messages
        BY <1>10 DEF T1Write, TypeOK, Select, Done
    <2>2. out' \in Seq(Messages) /\ Len(out') <= OutCap
        BY <1>10, <2>1, AppendProperties, LenProperties DEF T1Write, TypeOK
    <2>3. QED
        BY <1>10, <2>2 DEF T1Write, TypeOK, client, signal, ingress
<1>11. CASE T1Error
    <2>1. control' \in Seq(Messages) /\ Len(control') <= ControlCap
        BY <1>11, EmptySeq DEF T1Error
    <2>2. QED
        BY <1>11, <2>1 DEF T1Error, TypeOK, client, signal, ingress
<1>12. CASE StoreEngine
    BY <1>12 DEF StoreEngine, TypeOK, client, egress, ingress
<1>13. CASE SetUseDtls
    BY <1>13 DEF SetUseDtls, TypeOK, client, egress, ingress
<1>14. CASE HandshakeDone
    BY <1>14 DEF HandshakeDone, TypeOK, client, egress, ingress
<1>15. CASE UNCHANGED vars
    BY <1>15 DEF TypeOK, vars, client, egress, signal, ingress
<1>16. CASE T1Seal
    <2>1. t1 \in [at : {"seal"}, msg : Payloads]
        BY <1>16 DEF T1Seal, TypeOK, Select, Done
    <2>2. t1' \in [at : {"send", "write"}, msg : Payloads]
        BY <1>16, <2>1 DEF T1Seal
    <2>3. t1' \in [at : {"write"}, msg : Messages] \cup [at : {"seal", "send"}, msg : Payloads]
        BY <2>2, PayloadFields
    <2>4. QED
        BY <1>16, <2>3 DEF T1Seal, TypeOK, client, signal, ingress
<1>17. CASE T1SendTo
    <2>1. t1 \in [at : {"send"}, msg : Payloads]
        BY <1>17 DEF T1SendTo, TypeOK, Select, Done
    <2>2. t1' = Select \/ t1' \in [at : {"write"}, msg : Payloads]
        BY <1>17, <2>1 DEF T1SendTo
    <2>3. t1' \in {Select} \cup [at : {"write"}, msg : Messages]
        BY <2>2, PayloadFields
    <2>4. gotUdp' \subseteq 1 .. MaxPackets
        <3>1. t1.msg \in Payloads
            BY <2>1
        <3>2. QED
            BY <1>17, <3>1, PayloadFields DEF T1SendTo, TypeOK
    <2>5. QED
        BY <1>17, <2>3, <2>4 DEF T1SendTo, TypeOK, client, signal, ingress
<1>18. QED
    BY <1>1, <1>2, <1>3, <1>4, <1>5, <1>6, <1>7, <1>8, <1>9, <1>10, <1>11, <1>12, <1>13,
       <1>14, <1>15, <1>16, <1>17 DEF Next

-----------------------------------------------------------------------------
(* The stream from the client *)

\* Task 2 leaves its loop over the buffer only when no whole frame is left.
LEMMA NoFrameLeftKept ==
    ASSUME TypeOK, NoFrameLeft, [Next]_vars
    PROVE  NoFrameLeft'
<1>1. CASE ClientSend
    <2>1. PICK s \in Sorts :
             wire' = Append(wire, [type |-> s.type, body |-> s.body, n |-> frames + 1])
        BY <1>1 DEF ClientSend
    <2> DEFINE f == [type |-> s.type, body |-> s.body, n |-> frames + 1]
    <2>2. f \in Frames
        BY <1>1, FrameSent
    <2>3. wire' = Append(wire, f) /\ wire \in Seq(Frames)
        BY <2>1 DEF TypeOK
    <2> HIDE DEF f
    <2>4. CASE wire = <<>>
        <3>1. buffered' = 0
            BY <1>1, <2>4, BytesLaws DEF ClientSend, TypeOK
        <3>2. Head(wire') = f /\ 0 < Size(f)
            BY <2>2, <2>3, <2>4, HeadTailAppend, SizeOfFrame
        <3>3. QED
            BY <3>1, <3>2 DEF NoFrameLeft
    <2>5. CASE wire # <<>>
        <3>1. Head(wire') = Head(wire)
            BY <2>3, <2>5, HeadTailAppend
        <3>2. QED
            BY <1>1, <2>5, <3>1 DEF ClientSend, NoFrameLeft
    <2>6. QED
        BY <2>4, <2>5
<1>2. CASE ParseEnds
    <2> SUFFICES ASSUME wire # <<>> PROVE buffered < Size(Head(wire))
        BY <1>2 DEF ParseEnds, NoFrameLeft
    <2>1. Head(wire) \in Frames
        BY HeadTailProperties DEF TypeOK
    <2>2. /\ Size(Head(wire)) \in Nat /\ Hdr <= Size(Head(wire)) /\ Hdr \in Nat
          /\ TotalLen(Head(wire)) = Size(Head(wire))
        BY <2>1, SizeOfFrame, TunnelAssumption DEF TunnelAssumption
    <2>3. ~ (buffered >= Hdr) \/ ~ (buffered >= TotalLen(Head(wire)))
        BY <1>2 DEF ParseEnds, Complete
    <2>4. buffered \in Nat
        BY DEF TypeOK
    <2>5. QED
        BY <2>2, <2>3, <2>4
<1>3. CASE T2Read
    <2>1. t2'.at # "select"
        BY <1>3 DEF T2Read, TypeOK, Select, Done
    <2>2. QED
        BY <2>1 DEF NoFrameLeft
<1>4. CASE T2Ends \/ Parse \/ ControlSend
    <2>1. t2'.at # "select"
        BY <1>4 DEF T2Ends, Parse, ControlSend, Done
    <2>2. QED
        BY <2>1 DEF NoFrameLeft
<1>5. CASE ClientRead \/ T1Control \/ T1ReadTun \/ T1Seal \/ T1SendTo \/ T1Write \/ T1Error
    <2>1. UNCHANGED <<wire, buffered, t2>>
        BY <1>5 DEF ClientRead, T1Control, T1ReadTun, T1Seal, T1SendTo, T1Write, T1Error, ingress
    <2>2. QED
        BY <2>1 DEF NoFrameLeft
<1>6. CASE StoreEngine \/ SetUseDtls \/ HandshakeDone \/ UNCHANGED vars
    <2>1. UNCHANGED <<wire, buffered, t2>>
        BY <1>6 DEF StoreEngine, SetUseDtls, HandshakeDone, vars, ingress
    <2>2. QED
        BY <2>1 DEF NoFrameLeft
<1>7. QED
    BY <1>1, <1>2, <1>3, <1>4, <1>5, <1>6 DEF Next

\* A greater number behind rising ones.
LEMMA RisingAppend ==
    ASSUME NEW s \in Seq(Nat), NEW n \in Nat, Rising(s),
           \A i \in 1 .. Len(s) : s[i] < n
    PROVE  Rising(Append(s, n))
<1> DEFINE t == Append(s, n)
           l == Len(s)
<1>1. /\ l \in Nat /\ DOMAIN s = 1 .. l /\ t \in Seq(Nat) /\ Len(t) = l + 1
      /\ \A i \in 1 .. l : t[i] = s[i]
      /\ t[l + 1] = n
    BY AppendProperties, LenProperties
<1>2. DOMAIN t = 1 .. l + 1
    BY <1>1, LenProperties
<1> HIDE DEF t, l
<1>3. ASSUME NEW i \in 1 .. l + 1, NEW j \in 1 .. l + 1, i < j PROVE t[i] < t[j]
    <2>1. i \in 1 .. l
        BY <1>1, <1>3
    <2>2. CASE j \in 1 .. l
        BY <1>1, <1>3, <2>1, <2>2 DEF Rising
    <2>3. CASE j = l + 1
        BY <1>1, <2>1, <2>3 DEF l
    <2>4. QED
        BY <1>1, <2>2, <2>3
<1>4. QED
    BY <1>2, <1>3 DEF Rising, t

\* Seen from task 2: the frame that is split off is newer than what was taken.
LEMMA ParseNumbers ==
    ASSUME TypeOK, Counted, Complete, wire' = Tail(wire),
           buffered' = buffered - TotalLen(Head(wire)), frames' = frames
    PROVE  LET n == Head(wire).n IN
           /\ n \in Nat /\ n \in 1 .. MaxFrames /\ n = frames' - Len(wire')
           /\ \A i \in 1 .. Len(answered) : answered[i] < n
           /\ Len(wire') <= frames'
           /\ \A i \in 1 .. Len(wire') : wire'[i].n = (frames' - Len(wire')) + i
<1>1. /\ Head(wire) \in Frames /\ Head(wire) = wire[1]
      /\ Len(wire') = Len(wire) - 1 /\ 0 < Len(wire)
      /\ \A i \in 1 .. Len(wire') : wire'[i] = wire[i + 1]
    BY ParseTakes
<1>2. Head(wire).n \in 1 .. MaxFrames /\ MaxFrames \in Nat
    BY <1>1, SizeOfFrame, Constants
<1>3. frames \in Nat /\ Len(wire) \in Nat
    BY Constants, LenProperties DEF TypeOK
<1>4. /\ Len(wire) <= frames
      /\ \A i \in 1 .. Len(wire) : wire[i].n = (frames - Len(wire)) + i
      /\ \A i \in 1 .. Len(answered) : answered[i] <= frames - Len(wire)
    BY DEF Counted
<1>5. Head(wire).n = (frames - Len(wire)) + 1
    BY <1>1, <1>3, <1>4
<1>6. Head(wire).n = frames' - Len(wire')
    BY <1>1, <1>3, <1>5
<1>7. ASSUME NEW i \in 1 .. Len(answered) PROVE answered[i] < Head(wire).n
    <2>1. answered[i] \in 1 .. MaxFrames
        BY ElementOfSeq DEF TypeOK
    <2>2. answered[i] \in Nat /\ answered[i] <= frames - Len(wire)
        BY <1>2, <1>4, <2>1
    <2>3. QED
        BY <1>3, <1>5, <2>2
<1>8. ASSUME NEW i \in 1 .. Len(wire') PROVE wire'[i].n = (frames' - Len(wire')) + i
    <2>1. i + 1 \in 1 .. Len(wire) /\ wire'[i] = wire[i + 1]
        BY <1>1, <1>3
    <2>2. wire'[i].n = (frames - Len(wire)) + (i + 1)
        BY <1>4, <2>1
    <2>3. (frames - Len(wire)) + (i + 1) = (frames' - Len(wire')) + i
        <3>1. i \in Int
            BY <1>1, <1>3
        <3> DEFINE p == Len(wire)
                   q == Len(wire')
        <3>2. q = p - 1 /\ p \in Nat /\ frames \in Nat
            BY <1>1, <1>3
        <3> HIDE DEF p, q
        <3>3. (frames - p) + (i + 1) = (frames - q) + i
            BY ONLY <3>1, <3>2
        <3>4. QED
            BY <3>3 DEF p, q
    <2>4. QED
        BY <2>2, <2>3
<1>9. Len(wire') <= frames'
    BY <1>1, <1>3, <1>4
<1>10. QED
    BY <1>2, <1>6, <1>7, <1>8, <1>9

\* Every step keeps the numbers of the frames in step with the stream.
LEMMA CountedKept ==
    ASSUME TypeOK, Counted, [Next]_vars
    PROVE  Counted'
<1>1. CASE ClientSend
    <2>1. PICK s \in Sorts :
             wire' = Append(wire, [type |-> s.type, body |-> s.body, n |-> frames + 1])
        BY <1>1 DEF ClientSend
    <2> DEFINE f == [type |-> s.type, body |-> s.body, n |-> frames + 1]
    <2>2. f \in Frames /\ f.n = frames + 1
        BY <1>1, FrameSent
    <2>3. wire' = Append(wire, f) /\ wire \in Seq(Frames) /\ frames \in Nat
        BY <2>1, Constants DEF TypeOK
    <2> HIDE DEF f
    <2>4. /\ Len(wire') = Len(wire) + 1 /\ Len(wire) \in Nat
          /\ \A i \in 1 .. Len(wire) : wire'[i] = wire[i]
          /\ wire'[Len(wire) + 1] = f
        BY <2>2, <2>3, AppendProperties, LenProperties
    <2>5. frames' = frames + 1 /\ answered' = answered
        BY <1>1 DEF ClientSend
    <2>6. frames' - Len(wire') = frames - Len(wire)
        BY <2>3, <2>4, <2>5
    <2>7. Len(wire') <= frames'
        BY <2>3, <2>4, <2>5 DEF Counted
    <2>8. ASSUME NEW i \in 1 .. Len(wire') PROVE wire'[i].n = (frames' - Len(wire')) + i
        <3>1. CASE i \in 1 .. Len(wire)
            BY <2>4, <2>6, <3>1 DEF Counted
        <3>2. CASE i = Len(wire) + 1
            BY <2>2, <2>3, <2>4, <2>6, <3>2
        <3>3. QED
            BY <2>4, <3>1, <3>2
    <2>9. QED
        BY <2>5, <2>6, <2>7, <2>8 DEF Counted
<1>2. CASE Parse
    <2> DEFINE n == Head(wire).n
    <2>1. frames' = frames /\ Complete /\ wire' = Tail(wire) /\ buffered' = buffered - TotalLen(Head(wire))
        BY <1>2 DEF Parse, client
    <2>2. /\ n \in Nat /\ n \in 1 .. MaxFrames /\ n = frames' - Len(wire')
          /\ \A i \in 1 .. Len(answered) : answered[i] < n
          /\ Len(wire') <= frames'
          /\ \A i \in 1 .. Len(wire') : wire'[i].n = (frames' - Len(wire')) + i
        BY <2>1, ParseNumbers
    <2> HIDE DEF n
    <2>3. answered \in Seq(Nat) /\ Rising(answered)
        <3>1. answered \in Seq(1 .. MaxFrames) /\ 1 .. MaxFrames \subseteq Nat
            BY Constants DEF TypeOK
        <3>2. QED
            BY <3>1, SeqMonotonic DEF Counted
    <2>4. answered' = answered \/ answered' = Append(answered, n)
        BY <1>2 DEF Parse, n
    <2>5. CASE answered' = answered
        <3>1. \A i \in 1 .. Len(answered') : answered'[i] \in Nat /\ answered'[i] <= frames' - Len(wire')
            BY <2>2, <2>3, <2>5, ElementOfSeq
        <3>2. QED
            BY <2>2, <2>3, <2>5, <3>1 DEF Counted
    <2>6. CASE answered' = Append(answered, n)
        <3>1. /\ Len(answered') = Len(answered) + 1 /\ Len(answered) \in Nat
              /\ \A i \in 1 .. Len(answered) : answered'[i] = answered[i]
              /\ answered'[Len(answered) + 1] = n
            BY <2>2, <2>3, <2>6, AppendProperties, LenProperties
        <3>2. Rising(answered')
            BY <2>2, <2>3, <2>6, RisingAppend
        <3>3. ASSUME NEW i \in 1 .. Len(answered') PROVE answered'[i] <= frames' - Len(wire')
            <4>1. CASE i \in 1 .. Len(answered)
                <5>1. answered[i] \in Nat /\ answered'[i] < n
                    BY <2>2, <2>3, <3>1, <4>1, ElementOfSeq
                <5>2. QED
                    BY <2>2, <3>1, <4>1, <5>1
            <4>2. CASE i = Len(answered) + 1
                BY <2>2, <3>1, <4>2
            <4>3. QED
                BY <3>1, <4>1, <4>2
        <3>4. QED
            BY <2>2, <3>2, <3>3 DEF Counted
    <2>7. QED
        BY <2>4, <2>5, <2>6
<1>3. CASE T2Read \/ T2Ends \/ ParseEnds \/ ControlSend
    BY <1>3 DEF T2Read, T2Ends, ParseEnds, ControlSend, client, Counted
<1>4. CASE ClientRead \/ T1Control \/ T1ReadTun \/ T1Seal \/ T1SendTo \/ T1Write \/ T1Error
    BY <1>4 DEF ClientRead, T1Control, T1ReadTun, T1Seal, T1SendTo, T1Write, T1Error,
                client, ingress, Counted
<1>5. CASE StoreEngine \/ SetUseDtls \/ HandshakeDone \/ UNCHANGED vars
    BY <1>5 DEF StoreEngine, SetUseDtls, HandshakeDone, vars, client, ingress, Counted
<1>6. QED
    BY <1>1, <1>2, <1>3, <1>4, <1>5 DEF Next

-----------------------------------------------------------------------------
(* Every step does one of seven things to the messages on their way *)

\* They stay as they are, or one moves to the next place.
Keep ==
    /\ UNCHANGED <<answered, got, packets, gotUdp>>
    /\ Queue' = Queue
    /\ t1' # Done => t1 # Done
    /\ \/ out' = out
       \/ t1 # Done /\ out' \in Seq(Messages) /\ \E r \in Seq(Messages) : Queue = out' \o r

\* Some are lost with task 1, none of those on the TLS stream.
Drop ==
    /\ UNCHANGED <<answered, got, packets, gotUdp, out>>
    /\ t1' = Done
    /\ \A k \in MessageKinds : /\ Numbers(Queue', k) \subseteq Numbers(Queue, k)
                               /\ InOrder(Queue, k) => InOrder(Queue', k)

\* The answer to a new request comes in at the end.
Asked ==
    /\ UNCHANGED <<got, packets, gotUdp, out, t1>>
    /\ \E n \in 1 .. MaxFrames :
          /\ answered' = Append(answered, n) /\ \A i \in 1 .. Len(answered) : answered[i] < n
          /\ Queue' = Queue \o <<Reply(n)>>

\* The client takes the first one.
ReadOut ==
    /\ UNCHANGED <<answered, packets, gotUdp, t1>>
    /\ Head(out) \in Messages /\ out' \in Seq(Messages) /\ Queue' \in Seq(Messages)
    /\ out = <<Head(out)>> \o out' /\ Queue = <<Head(out)>> \o Queue'
    /\ got' = IF Head(out) = More THEN got
              ELSE [got EXCEPT ![Head(out).kind] = Append(@, Head(out).n)]

\* The answers stay as they are and in their order.
Aside ==
    /\ UNCHANGED <<answered, got, out>>
    /\ t1 # Done
    /\ Numbers(Queue', "reply") = Numbers(Queue, "reply")
    /\ InOrder(Queue, "reply") => InOrder(Queue', "reply")

\* A numbered packet comes in before the answers that wait.
Taken ==
    /\ Aside
    /\ packets' = packets + 1 /\ gotUdp' = gotUdp
    /\ Numbers(Queue', "packet") = Numbers(Queue, "packet") \cup {packets + 1}
    /\ InOrder(Queue, "packet") /\ Below(Numbers(Queue, "packet"), {packets + 1})
          => InOrder(Queue', "packet")

\* A numbered packet leaves the queue for the client, over DTLS.
Sent ==
    /\ Aside
    /\ packets' = packets
    /\ \E n \in 1 .. MaxPackets :
          /\ gotUdp' = gotUdp \cup {n}
          /\ Numbers(Queue, "packet") = Numbers(Queue', "packet") \cup {n}
          /\ InOrder(Queue, "packet") =>
                InOrder(Queue', "packet") /\ n \notin Numbers(Queue', "packet")

\* A packet without a number comes in, or leaves over DTLS.
Quiet ==
    /\ Aside
    /\ UNCHANGED <<packets, gotUdp>>
    /\ Numbers(Queue', "packet") = Numbers(Queue, "packet")
    /\ InOrder(Queue, "packet") => InOrder(Queue', "packet")

\* The parts of the queue, as sequences of messages.
LEMMA QueueParts ==
    ASSUME TypeOK
    PROVE  /\ out \in Seq(Messages) /\ control \in Seq(Messages)
           /\ Held(t1) \in Seq(Messages) /\ Held(t2) \in Seq(Messages)
           /\ Queue = ((out \o Held(t1)) \o control) \o Held(t2)
           /\ Queue \in Seq(Messages)
<1>1. out \in Seq(Messages) /\ control \in Seq(Messages)
    BY DEF TypeOK
<1>2. Held(t1) \in Seq(Messages) /\ Held(t2) \in Seq(Messages)
    BY HeldInSeq
<1>3. Queue = ((out \o Held(t1)) \o control) \o Held(t2)
    BY DEF Queue
<1>4. out \o Held(t1) \in Seq(Messages)
    BY <1>1, <1>2, ConcatLaws
<1>5. (out \o Held(t1)) \o control \in Seq(Messages)
    BY <1>1, <1>4, ConcatLaws
<1>6. Queue \in Seq(Messages)
    BY <1>2, <1>3, <1>5, ConcatLaws
<1>7. QED
    BY <1>1, <1>2, <1>3, <1>6

\* The answer task 2 sends moves into the channel, or is lost when task 1 has
\* ended.
LEMMA SendStep ==
    ASSUME TypeOK, Channels, ControlSend
    PROVE  (Keep \/ Drop) /\ Channels'
<1>1. t2 \in [at : {"control"}, msg : Messages] /\ t2.msg \in Messages
    BY DEF ControlSend, TypeOK, Select, Done
<1>2. Held(t2) = <<t2.msg>> /\ Held(t2') = <<>>
    <2>1. t2.msg # None
        BY <1>1, MessageFields
    <2>2. Held(t2) = <<t2.msg>>
        BY <2>1 DEF Held
    <2>3. QED
        BY <2>2, HeldLaws DEF ControlSend
<1>3. UNCHANGED <<answered, got, packets, gotUdp, out, t1>>
    BY DEF ControlSend, client
<1>4. out \in Seq(Messages) /\ Held(t1) \in Seq(Messages) /\ control \in Seq(Messages)
    BY QueueParts
<1> DEFINE x == out \o Held(t1)
<1>5. x \in Seq(Messages)
    BY <1>4, ConcatLaws
<1>6. Queue = (x \o control) \o <<t2.msg>> /\ Queue' = (x \o control') \o <<>>
    BY <1>2, <1>3 DEF Queue
<1> HIDE DEF x
<1>7. Numbers(<<t2.msg>>, "packet") = {} /\ <<t2.msg>> \in Seq(Messages)
    BY <1>1, <1>2, SingletonLaws DEF Channels
<1>8. CASE t1 # Done /\ control' = Append(control, t2.msg)
    <2>1. Queue' = Queue
        BY <1>1, <1>4, <1>5, <1>6, <1>8, Moves
    <2>2. control' = control \o <<t2.msg>>
        BY <1>1, <1>4, <1>8, AppendIsConcat
    <2>3. Numbers(control', "packet") = {}
        <3> DEFINE r == <<t2.msg>>
        <3>1. control \in Seq(Messages) /\ r \in Seq(Messages)
            BY <1>4, <1>7
        <3> HIDE DEF r
        <3>2. Numbers(control \o r, "packet") = Numbers(control, "packet") \cup Numbers(r, "packet")
            BY <3>1, ConcatLaws
        <3>3. QED
            BY <1>7, <2>2, <3>2 DEF Channels, r
    <2>4. Keep
        BY <1>3, <2>1 DEF Keep
    <2>5. Channels'
        BY <1>2, <1>3, <1>8, <2>3, EmptyLaws DEF Channels
    <2>6. QED
        BY <2>4, <2>5
<1>9. CASE t1 = Done /\ control' = control
    <2>1. x \o control \in Seq(Messages)
        BY <1>4, <1>5, ConcatLaws
    <2>2. Queue = (x \o control) \o <<t2.msg>> /\ Queue' = x \o control
        BY <1>6, <1>9, <2>1, ConcatEmptySeq
    <2>3. ASSUME NEW k
          PROVE  /\ Numbers(Queue', k) \subseteq Numbers(Queue, k)
                 /\ InOrder(Queue, k) => InOrder(Queue', k)
        <3> DEFINE q == x \o control
                   r == <<t2.msg>>
        <3>1. q \in Seq(Messages) /\ r \in Seq(Messages) /\ Queue = q \o r /\ Queue' = q
            BY <1>7, <2>1, <2>2
        <3> HIDE DEF q, r
        <3>2. /\ Numbers(q \o r, k) = Numbers(q, k) \cup Numbers(r, k)
              /\ InOrder(q \o r, k) => InOrder(q, k)
            BY <3>1, ConcatLaws
        <3>3. QED
            BY <3>1, <3>2
    <2>4. Drop
        BY <1>3, <1>9, <2>3 DEF Drop
    <2>5. Channels'
        BY <1>2, <1>3, <1>9, EmptyLaws DEF Channels
    <2>6. QED
        BY <2>4, <2>5
<1>10. QED
    BY <1>8, <1>9 DEF ControlSend

\* Task 1 takes the first answer of the channel, or ends when there is none.
LEMMA ControlStep ==
    ASSUME TypeOK, Channels, T1Control
    PROVE  Keep /\ Channels'
<1>1. t1 = Select /\ Held(t1) = <<>> /\ t1 # Done
    <2>1. t1 = Select /\ t1 # Done
        BY DEF T1Control, TypeOK, Select, Done
    <2>2. QED
        BY <2>1, HeldLaws
<1>2. UNCHANGED <<answered, got, packets, gotUdp, out, t2>>
    BY DEF T1Control, client, ingress
<1>3. out \in Seq(Messages) /\ Held(t2) \in Seq(Messages) /\ control \in Seq(Messages)
    BY QueueParts
<1>4. Queue = ((out \o <<>>) \o control) \o Held(t2)
    BY <1>1 DEF Queue
<1>5. Queue' = ((out \o Held(t1')) \o control') \o Held(t2)
    BY <1>2 DEF Queue
<1>6. CASE /\ control # <<>>
           /\ t1' = [at |-> "write", msg |-> Head(control)]
           /\ control' = Tail(control)
    <2>1. Head(control) \in Messages /\ Tail(control) \in Seq(Messages)
        BY <1>3, <1>6, HeadTailProperties
    <2>2. Held(t1') = <<Head(control)>> /\ t1' # Done
        BY <1>6, <2>1, HeldLaws DEF Done
    <2>3. Queue' = Queue
        <3>1. ((out \o <<>>) \o control) \o Held(t2)
                = ((out \o <<Head(control)>>) \o Tail(control)) \o Held(t2)
            BY <1>3, <1>6, <2>1, Moves
        <3>2. QED
            BY <1>4, <1>5, <1>6, <2>2, <3>1
    <2>4. Numbers(control', "packet") = {}
        <3>1. control = <<Head(control)>> \o Tail(control) /\ <<Head(control)>> \in Seq(Messages)
            BY <1>3, <1>6, <2>1, Moves, SingletonLaws
        <3> DEFINE q == <<Head(control)>>
                   r == Tail(control)
        <3>2. control = q \o r /\ q \in Seq(Messages) /\ r \in Seq(Messages) /\ control' = r
            BY <1>6, <2>1, <3>1
        <3> HIDE DEF q, r
        <3>3. Numbers(q \o r, "packet") = Numbers(q, "packet") \cup Numbers(r, "packet")
            BY <3>2, ConcatLaws
        <3>4. Numbers(control, "packet") = {}
            BY DEF Channels
        <3>5. QED
            BY <3>2, <3>3, <3>4
    <2>5. QED
        BY <1>1, <1>2, <2>2, <2>3, <2>4 DEF Keep, Channels
<1>7. CASE control = <<>> /\ t1' = Done /\ control' = control
    <2>1. Queue' = Queue
        BY <1>4, <1>5, <1>7, HeldLaws
    <2>2. QED
        BY <1>1, <1>2, <1>7, <2>1 DEF Keep, Channels
<1>8. QED
    BY <1>6, <1>7 DEF T1Control

\* What task 1 holds is written to the TLS stream.
LEMMA WriteStep ==
    ASSUME TypeOK, Channels, T1Write
    PROVE  Keep /\ Channels'
<1>1. t1.msg \in Messages /\ t1 # Done /\ Held(t1) = <<t1.msg>>
    <2>1. t1 \in [at : {"write"}, msg : Messages]
        BY DEF T1Write, TypeOK, Select, Done
    <2>2. t1.msg \in Messages /\ t1.at = "write"
        BY <2>1
    <2>3. t1.msg # None
        BY <2>2, MessageFields
    <2>4. QED
        BY <2>2, <2>3 DEF Held, Done
<1>2. UNCHANGED <<answered, got, packets, gotUdp, control, t2>>
    BY DEF T1Write, client, ingress
<1>3. out' = Append(out, t1.msg) /\ t1' = Select /\ Held(t1') = <<>> /\ t1' # Done
    BY HeldLaws DEF T1Write, Select, Done
<1>4. out \in Seq(Messages) /\ Held(t2) \in Seq(Messages) /\ control \in Seq(Messages)
    BY QueueParts
<1>5. Queue = ((out \o <<t1.msg>>) \o control) \o Held(t2)
    BY <1>1 DEF Queue
<1>6. Queue' = ((Append(out, t1.msg) \o <<>>) \o control) \o Held(t2)
    BY <1>2, <1>3 DEF Queue
<1>7. Queue' = Queue
    BY <1>1, <1>4, <1>5, <1>6, Moves
<1>8. out' \in Seq(Messages) /\ \E r \in Seq(Messages) : Queue = out' \o r
    <2> DEFINE o == Append(out, t1.msg)
               h == Held(t2)
    <2>1. o \in Seq(Messages) /\ h \in Seq(Messages) /\ <<>> \in Seq(Messages)
        BY <1>1, <1>4, AppendProperties, EmptySeq
    <2> HIDE DEF o, h
    <2>2. ((o \o <<>>) \o control) \o h = o \o (<<>> \o (control \o h))
        BY <1>1, <1>4, <2>1, Moves
    <2>3. control \o h \in Seq(Messages)
        BY <1>4, <2>1, ConcatLaws
    <2>4. <<>> \o (control \o h) \in Seq(Messages)
        BY <2>1, <2>3, ConcatLaws
    <2>5. Queue = o \o (<<>> \o (control \o h))
        BY <1>6, <1>7, <2>2 DEF o, h
    <2>6. QED
        BY <1>3, <2>1, <2>4, <2>5 DEF o
<1>9. QED
    BY <1>1, <1>2, <1>3, <1>7, <1>8 DEF Keep, Channels

\* A failure of task 1 loses what it holds and what is in the channel.
LEMMA ErrorStep ==
    ASSUME TypeOK, Channels, T1Error
    PROVE  Drop /\ Channels'
<1>1. UNCHANGED <<answered, got, packets, gotUdp, out, t2>>
    BY DEF T1Error, client, ingress
<1>2. t1' = Done /\ control' = <<>> /\ Held(t1') = <<>>
    BY HeldLaws DEF T1Error
<1> DEFINE x == Held(t1)
           h == Held(t2)
<1>3. /\ out \in Seq(Messages) /\ x \in Seq(Messages)
      /\ control \in Seq(Messages) /\ h \in Seq(Messages)
    BY QueueParts
<1>4. Queue = ((out \o x) \o control) \o h
    BY DEF Queue
<1>5. Queue' = ((out \o <<>>) \o <<>>) \o h
    BY <1>1, <1>2 DEF Queue
<1> HIDE DEF x, h
<1> DEFINE c == control
           ox == out \o x
           oxc == ox \o c
<1>6. Queue' = out \o h
    BY <1>3, <1>5, Moves
<1>7. ox \in Seq(Messages)
    BY <1>3, ConcatLaws
<1>8. oxc \in Seq(Messages)
    BY <1>3, <1>7, ConcatLaws
<1>9. ASSUME NEW k
      PROVE  /\ Numbers(Queue', k) \subseteq Numbers(Queue, k)
             /\ InOrder(Queue, k) => InOrder(Queue', k)
    <2>1. /\ Numbers(ox, k) = Numbers(out, k) \cup Numbers(x, k)
          /\ InOrder(ox, k) => InOrder(out, k)
        BY <1>3, ConcatLaws
    <2>2. /\ Numbers(oxc, k) = Numbers(ox, k) \cup Numbers(c, k)
          /\ InOrder(oxc, k) => InOrder(ox, k)
        <3> HIDE DEF ox
        <3>1. ox \in Seq(Messages) /\ c \in Seq(Messages)
            BY <1>3, <1>7
        <3>2. QED
            BY <3>1, ConcatLaws
    <2> HIDE DEF oxc, ox
    <2>3. Queue = oxc \o h
        BY <1>4 DEF oxc, ox
    <2>4. /\ Numbers(Queue, k) = Numbers(oxc, k) \cup Numbers(h, k)
          /\ InOrder(Queue, k) => /\ InOrder(oxc, k) /\ InOrder(h, k)
                                  /\ Below(Numbers(oxc, k), Numbers(h, k))
        BY <1>3, <1>8, <2>3, ConcatLaws
    <2>5. /\ Numbers(Queue', k) = Numbers(out, k) \cup Numbers(h, k)
          /\ InOrder(Queue', k) <=> /\ InOrder(out, k) /\ InOrder(h, k)
                                    /\ Below(Numbers(out, k), Numbers(h, k))
        BY <1>3, <1>6, ConcatLaws
    <2>6. Numbers(out, k) \subseteq Numbers(oxc, k)
        BY <2>1, <2>2
    <2>7. Below(Numbers(oxc, k), Numbers(h, k)) => Below(Numbers(out, k), Numbers(h, k))
        BY <2>6 DEF Below
    <2>8. QED
        BY <2>1, <2>2, <2>4, <2>5, <2>6, <2>7
<1>10. Drop
    BY <1>1, <1>2, <1>9 DEF Drop
<1>11. Channels'
    BY <1>1, <1>2, EmptyLaws DEF Channels
<1>12. QED
    BY <1>10, <1>11

\* The client takes the oldest message of the TLS stream.
LEMMA ReadStep ==
    ASSUME TypeOK, Channels, ClientRead
    PROVE  ReadOut /\ Channels'
<1>1. UNCHANGED <<answered, packets, gotUdp, t1, t2, control>>
    BY DEF ClientRead, ingress
<1>2. /\ out # <<>> /\ out' = Tail(out)
      /\ got' = IF Head(out) = More THEN got
                ELSE [got EXCEPT ![Head(out).kind] = Append(@, Head(out).n)]
    BY DEF ClientRead
<1> DEFINE x == Held(t1)
           h == Held(t2)
           ho == <<Head(out)>>
<1>3. /\ out \in Seq(Messages) /\ x \in Seq(Messages)
      /\ control \in Seq(Messages) /\ h \in Seq(Messages)
    BY QueueParts
<1>4. Head(out) \in Messages /\ out' \in Seq(Messages)
    BY <1>2, <1>3, HeadTailProperties
<1>5. Queue = ((out \o x) \o control) \o h /\ Queue' = ((out' \o x) \o control) \o h
    BY <1>1 DEF Queue
<1> HIDE DEF x, h, ho
<1>6. out' \o x \in Seq(Messages)
    BY <1>3, <1>4, ConcatLaws
<1>7. (out' \o x) \o control \in Seq(Messages)
    BY <1>3, <1>6, ConcatLaws
<1>8. Queue' \in Seq(Messages)
    BY <1>3, <1>5, <1>7, ConcatLaws
<1>9. out = ho \o Tail(out)
      /\ ((out \o x) \o control) \o h = ho \o (((Tail(out) \o x) \o control) \o h)
    BY <1>2, <1>3, <1>4, Moves DEF ho
<1>10. out = ho \o out' /\ Queue = ho \o Queue'
    BY <1>2, <1>5, <1>9
<1>11. ReadOut
    BY <1>1, <1>2, <1>4, <1>8, <1>10 DEF ReadOut, ho
<1>12. QED
    BY <1>1, <1>11 DEF Channels

\* Task 2 takes a frame; a request brings an answer behind all others.
LEMMA ParseStep ==
    ASSUME TypeOK, Counted, Channels, Parse
    PROVE  (Keep \/ Asked) /\ Channels'
<1>1. /\ UNCHANGED <<got, packets, gotUdp, out, t1, control, frames>> /\ Complete
      /\ wire' = Tail(wire) /\ buffered' = buffered - TotalLen(Head(wire))
    BY DEF Parse, client, egress
<1>2. t2 = [at |-> "parse", msg |-> None] /\ Held(t2) = <<>>
    <2>1. t2 = [at |-> "parse", msg |-> None]
        BY DEF Parse, TypeOK, Select, Done
    <2>2. QED
        BY <2>1, HeldLaws
<1> DEFINE x == out \o Held(t1)
           xc == x \o control
           n == Head(wire).n
<1>3. out \in Seq(Messages) /\ Held(t1) \in Seq(Messages) /\ control \in Seq(Messages)
    BY QueueParts
<1>4. x \in Seq(Messages)
    BY <1>3, ConcatLaws
<1>5. xc \in Seq(Messages)
    BY <1>3, <1>4, ConcatLaws
<1>6. Queue = xc \o <<>> /\ Queue' = xc \o Held(t2')
    BY <1>1, <1>2 DEF Queue
<1>7. n \in 1 .. MaxFrames /\ \A i \in 1 .. Len(answered) : answered[i] < n
    BY <1>1, ParseNumbers
<1>8. \/ answered' = answered /\ (t2' = t2 \/ t2' = Done)
      \/ answered' = Append(answered, n) /\ t2' = [at |-> "control", msg |-> Reply(n)]
    BY DEF Parse
<1> HIDE DEF x, xc, n
<1>9. CASE answered' = answered /\ (t2' = t2 \/ t2' = Done)
    <2>1. Held(t2') = <<>>
        BY <1>2, <1>9, HeldLaws
    <2>2. Queue' = Queue
        BY <1>6, <2>1
    <2>3. QED
        BY <1>1, <1>9, <2>1, <2>2, EmptyLaws DEF Keep, Channels
<1>10. CASE answered' = Append(answered, n) /\ t2' = [at |-> "control", msg |-> Reply(n)]
    <2>1. Reply(n) \in Messages /\ Reply(n).kind = "reply"
        BY <1>7 DEF Reply, Messages
    <2>2. Held(t2') = <<Reply(n)>>
        BY <1>10, <2>1, HeldLaws
    <2>3. xc \o <<>> = xc
        BY <1>5, ConcatEmptySeq
    <2>4. Queue' = Queue \o <<Reply(n)>>
        BY <1>6, <2>2, <2>3
    <2>5. Numbers(Held(t2'), "packet") = {}
        BY <2>1, <2>2, SingletonLaws
    <2>6. Asked
        BY <1>1, <1>7, <1>10, <2>4 DEF Asked
    <2>7. QED
        BY <1>1, <2>5, <2>6 DEF Channels
<1>11. QED
    BY <1>8, <1>9, <1>10

\* The numbers and the order of a queue of four parts are those of its parts.
ByParts(o, x, c, h, k) ==
    LET q == ((o \o x) \o c) \o h
        O == Numbers(o, k)   X == Numbers(x, k)
        C == Numbers(c, k)   H == Numbers(h, k)
    IN /\ Numbers(q, k) = O \cup X \cup C \cup H
       /\ InOrder(q, k) <=>
            /\ InOrder(o, k) /\ InOrder(x, k) /\ InOrder(c, k) /\ InOrder(h, k)
            /\ Below(O, X) /\ Below(O \cup X, C) /\ Below(O \cup X \cup C, H)

\* The numbers and the order of the whole queue, part by part.
LEMMA QueueLaws ==
    ASSUME NEW o \in Seq(Messages), NEW x \in Seq(Messages),
           NEW c \in Seq(Messages), NEW h \in Seq(Messages), NEW k
    PROVE  ByParts(o, x, c, h, k)
<1> DEFINE ox == o \o x
           oxc == ox \o c
           q == oxc \o h
<1>1. /\ ox \in Seq(Messages) /\ Numbers(ox, k) = Numbers(o, k) \cup Numbers(x, k)
      /\ InOrder(ox, k) <=>
           InOrder(o, k) /\ InOrder(x, k) /\ Below(Numbers(o, k), Numbers(x, k))
    BY ConcatLaws
<1> HIDE DEF ox
<1>2. /\ oxc \in Seq(Messages) /\ Numbers(oxc, k) = Numbers(ox, k) \cup Numbers(c, k)
      /\ InOrder(oxc, k) <=>
           InOrder(ox, k) /\ InOrder(c, k) /\ Below(Numbers(ox, k), Numbers(c, k))
    <2>1. ox \in Seq(Messages) /\ c \in Seq(Messages)
        BY <1>1
    <2>2. QED
        BY ONLY <2>1, ConcatLaws
<1> HIDE DEF oxc
<1>3. /\ Numbers(q, k) = Numbers(oxc, k) \cup Numbers(h, k)
      /\ InOrder(q, k) <=>
           InOrder(oxc, k) /\ InOrder(h, k) /\ Below(Numbers(oxc, k), Numbers(h, k))
    <2>1. oxc \in Seq(Messages) /\ h \in Seq(Messages)
        BY <1>2
    <2>2. QED
        BY ONLY <2>1, ConcatLaws
<1> HIDE DEF q
<1>4. q = ((o \o x) \o c) \o h
    BY DEF q, oxc, ox
<1>5. QED
    BY <1>1, <1>2, <1>3, <1>4 DEF ByParts

\* Only what task 1 holds is exchanged, and it is no answer.
LEMMA HeldSwapped ==
    ASSUME TypeOK, Channels, UNCHANGED <<out, control, t2>>,
           Held(t1') \in Seq(Messages),
           \A k : InOrder(Held(t1), k) /\ InOrder(Held(t1'), k),
           Numbers(Held(t1), "reply") = {}, Numbers(Held(t1'), "reply") = {}
    PROVE  LET O == Numbers(out, "packet")
               P == Numbers(Held(t1), "packet")
               R == Numbers(Held(t1'), "packet")
           IN /\ Numbers(Queue', "reply") = Numbers(Queue, "reply")
              /\ InOrder(Queue, "reply") => InOrder(Queue', "reply")
              /\ Numbers(Queue, "packet") = O \cup P /\ Numbers(Queue', "packet") = O \cup R
              /\ InOrder(Queue, "packet") => Below(O, P)
              /\ InOrder(Queue, "packet") /\ Below(O, R) => InOrder(Queue', "packet")
<1> DEFINE x == Held(t1)
           y == Held(t1')
           h == Held(t2)
           c == control
<1>1. out \in Seq(Messages) /\ x \in Seq(Messages) /\ c \in Seq(Messages) /\ h \in Seq(Messages)
    BY QueueParts
<1>2. Queue = ((out \o x) \o c) \o h /\ Queue' = ((out \o y) \o c) \o h
    BY DEF Queue
<1>3. y \in Seq(Messages) /\ \A k : InOrder(x, k) /\ InOrder(y, k)
    OBVIOUS
<1>4. Numbers(x, "reply") = {} /\ Numbers(y, "reply") = {}
    OBVIOUS
<1>5. Numbers(c, "packet") = {} /\ Numbers(h, "packet") = {}
    BY DEF Channels
<1> HIDE DEF x, y, h, c
<1>6. ASSUME NEW k, NEW v \in {x, y}
      PROVE  ByParts(out, v, c, h, k)
    <2>1. v \in Seq(Messages)
        BY <1>1, <1>3
    <2>2. /\ out \in Seq(Messages) /\ v \in Seq(Messages)
          /\ c \in Seq(Messages) /\ h \in Seq(Messages)
        BY ONLY <1>1, <2>1
    <2>3. QED
        BY ONLY <2>2, QueueLaws
<1>7. /\ Numbers(Queue', "reply") = Numbers(Queue, "reply")
      /\ InOrder(Queue, "reply") => InOrder(Queue', "reply")
    <2>1. /\ Numbers(Queue, "reply") = Numbers(out, "reply") \cup Numbers(x, "reply")
                                         \cup Numbers(c, "reply") \cup Numbers(h, "reply")
          /\ Numbers(Queue', "reply") = Numbers(out, "reply") \cup Numbers(y, "reply")
                                         \cup Numbers(c, "reply") \cup Numbers(h, "reply")
        BY <1>2, <1>6 DEF ByParts
    <2>2. ASSUME InOrder(Queue, "reply") PROVE InOrder(Queue', "reply")
        BY <1>2, <1>3, <1>4, <1>6, <2>2 DEF ByParts
    <2>3. QED
        BY <1>4, <2>1, <2>2
<1>8. /\ Numbers(Queue, "packet") = Numbers(out, "packet") \cup Numbers(x, "packet")
      /\ Numbers(Queue', "packet") = Numbers(out, "packet") \cup Numbers(y, "packet")
    BY <1>2, <1>5, <1>6 DEF ByParts
<1>9. InOrder(Queue, "packet") => Below(Numbers(out, "packet"), Numbers(x, "packet"))
    BY <1>2, <1>6 DEF ByParts
<1>10. ASSUME InOrder(Queue, "packet"), Below(Numbers(out, "packet"), Numbers(y, "packet"))
       PROVE  InOrder(Queue', "packet")
    <2>1. InOrder(out, "packet") /\ InOrder(c, "packet") /\ InOrder(h, "packet")
        BY <1>2, <1>6, <1>10 DEF ByParts
    <2>2. \A S : Below(S, {})
        BY DEF Below
    <2>3. QED
        BY <1>2, <1>3, <1>5, <1>6, <1>10, <2>1, <2>2 DEF ByParts
<1>11. QED
    BY <1>7, <1>8, <1>9, <1>10 DEF x, y

\* A packet that is held is one packet, and no answer.
LEMMA HeldPacket ==
    ASSUME NEW m \in Payloads, NEW a
    PROVE  LET v == Held([at |-> a, msg |-> m]) IN
           /\ v \in Seq(Messages) /\ \A k : InOrder(v, k)
           /\ Numbers(v, "reply") = {}
           /\ Numbers(v, "packet") = IF m = More THEN {} ELSE {m.n}
<1>1. Held([at |-> a, msg |-> m]) = <<m>>
    BY PayloadFields, HeldLaws
<1>2. QED
    BY <1>1, PayloadFields, SingletonLaws

\* Task 1 reads a packet from the TUN device.
LEMMA TunStep ==
    ASSUME TypeOK, Channels, T1ReadTun
    PROVE  (Taken \/ Quiet) /\ Channels'
<1> DEFINE m == t1'.msg
<1>1. t1 # Done /\ Held(t1) = <<>>
    <2>1. t1 = Select /\ t1 # Done
        BY DEF T1ReadTun, TypeOK, Select, Done
    <2>2. QED
        BY <2>1, HeldLaws
<1>2. UNCHANGED <<answered, got, out, control, t2, gotUdp>>
    BY DEF T1ReadTun, client, ingress
<1>3. /\ t1' = [at |-> t1'.at, msg |-> m] /\ t1' # Done
      /\ \/ packets' = packets + 1 /\ packets + 1 \in 1 .. MaxPackets /\ m = Packet(packets + 1)
         \/ packets' = packets /\ m = More
    <2>1. t1' = [at  |-> IF useDtls THEN "seal" ELSE "write",
                 msg |-> IF packets < MaxPackets THEN Packet(packets + 1) ELSE More]
        BY DEF T1ReadTun
    <2>2. packets < MaxPackets => packets + 1 \in 1 .. MaxPackets
        BY Constants DEF TypeOK
    <2>3. packets' = IF packets < MaxPackets THEN packets + 1 ELSE packets
        BY DEF T1ReadTun
    <2>4. QED
        BY <2>1, <2>2, <2>3 DEF Done
<1>4. m \in Payloads
    BY <1>3 DEF Payloads, Packet
<1> HIDE DEF m
<1>5. /\ Held(t1') \in Seq(Messages) /\ \A k : InOrder(Held(t1'), k)
      /\ Numbers(Held(t1'), "reply") = {}
      /\ Numbers(Held(t1'), "packet") = IF m = More THEN {} ELSE {m.n}
    BY <1>3, <1>4, HeldPacket
<1>6. \A k : InOrder(Held(t1), k) /\ Numbers(Held(t1), k) = {}
    BY <1>1, EmptyLaws
<1> DEFINE O == Numbers(out, "packet")
           R == Numbers(Held(t1'), "packet")
<1>7. /\ Numbers(Queue', "reply") = Numbers(Queue, "reply")
      /\ InOrder(Queue, "reply") => InOrder(Queue', "reply")
      /\ Numbers(Queue, "packet") = O /\ Numbers(Queue', "packet") = O \cup R
      /\ InOrder(Queue, "packet") /\ Below(O, R) => InOrder(Queue', "packet")
    BY <1>2, <1>5, <1>6, HeldSwapped
<1>8. Aside
    BY <1>1, <1>2, <1>7 DEF Aside
<1> HIDE DEF O, R
<1>9. CASE packets' = packets + 1 /\ m = Packet(packets + 1)
    <2>1. m # More /\ m.n = packets + 1
        BY <1>9 DEF Packet, More
    <2>2. R = {packets + 1}
        BY <1>5, <2>1 DEF R
    <2>3. Taken
        BY <1>2, <1>7, <1>8, <1>9, <2>2 DEF Taken
    <2>4. QED
        BY <1>1, <1>2, <1>3, <2>3 DEF Channels
<1>10. CASE packets' = packets /\ m = More
    <2>1. R = {} /\ Below(O, R)
        BY <1>5, <1>10 DEF R, Below
    <2>2. Quiet
        BY <1>2, <1>7, <1>8, <1>10, <2>1 DEF Quiet
    <2>3. QED
        BY <1>1, <1>2, <1>3, <2>2 DEF Channels
<1>11. QED
    BY <1>3, <1>9, <1>10

\* The engine takes the packet or not; it stays with task 1.
LEMMA SealStep ==
    ASSUME TypeOK, Channels, T1Seal
    PROVE  Keep /\ Channels'
<1>1. UNCHANGED <<answered, got, packets, gotUdp, out, control, t2>>
    BY DEF T1Seal, client, ingress
<1>2. t1 # Done /\ t1' # Done /\ t1'.msg = t1.msg
    <2>1. t1 \in [at : {"seal"}, msg : Payloads]
        BY DEF T1Seal, TypeOK, Select, Done
    <2>2. QED
        BY <2>1 DEF T1Seal, Done
<1>3. Queue' = Queue
    BY <1>1, <1>2 DEF Queue, Held
<1>4. QED
    BY <1>1, <1>2, <1>3 DEF Keep, Channels

\* The datagram is sent, or the packet is to be written to the TLS stream.
LEMMA SendToStep ==
    ASSUME TypeOK, Channels, T1SendTo
    PROVE  (Keep \/ Sent \/ Quiet) /\ Channels'
<1> DEFINE m == t1.msg
<1>1. UNCHANGED <<answered, got, packets, out, control, t2>>
    BY DEF T1SendTo, client, ingress
<1>2. t1 # Done /\ t1' # Done /\ t1 = [at |-> "send", msg |-> m] /\ m \in Payloads
    <2>1. t1 \in [at : {"send"}, msg : Payloads]
        BY DEF T1SendTo, TypeOK, Select, Done
    <2>2. QED
        BY <2>1 DEF T1SendTo, Done, Select
<1>3. CASE t1' = [t1 EXCEPT !.at = "write"] /\ UNCHANGED gotUdp
    <2>1. t1'.msg = t1.msg
        BY <1>2, <1>3
    <2>2. Queue' = Queue
        BY <1>1, <2>1 DEF Queue, Held
    <2>3. QED
        BY <1>1, <1>2, <1>3, <2>2 DEF Keep, Channels
<1>4. CASE /\ t1' = Select
           /\ gotUdp' = IF m = More THEN gotUdp ELSE gotUdp \cup {m.n}
    <2>1. Held(t1') = <<>> /\ <<>> \in Seq(Messages)
        BY <1>4, HeldLaws, EmptySeq
    <2> HIDE DEF m
    <2>2. /\ \A k : InOrder(Held(t1), k)
          /\ Numbers(Held(t1), "reply") = {}
          /\ Numbers(Held(t1), "packet") = IF m = More THEN {} ELSE {m.n}
        BY <1>2, HeldPacket
    <2>3. \A k : InOrder(Held(t1'), k) /\ Numbers(Held(t1'), k) = {}
        BY <2>1, EmptyLaws
    <2> DEFINE O == Numbers(out, "packet")
               P == Numbers(Held(t1), "packet")
    <2>4. /\ Numbers(Queue', "reply") = Numbers(Queue, "reply")
          /\ InOrder(Queue, "reply") => InOrder(Queue', "reply")
          /\ Numbers(Queue, "packet") = O \cup P /\ Numbers(Queue', "packet") = O
          /\ InOrder(Queue, "packet") => Below(O, P)
          /\ InOrder(Queue, "packet") => InOrder(Queue', "packet")
        <3>1. Below(O, {})
            BY DEF Below
        <3>2. QED
            BY <1>1, <2>1, <2>2, <2>3, <3>1, HeldSwapped
    <2>5. Aside
        BY <1>1, <1>2, <2>4 DEF Aside
    <2>6. Channels'
        BY <1>1, <1>2 DEF Channels
    <2> HIDE DEF O, P
    <2>7. CASE m = More
        <3>1. P = {} /\ gotUdp' = gotUdp
            BY <1>4, <2>2, <2>7 DEF P
        <3>2. Quiet
            BY <1>1, <2>4, <2>5, <3>1 DEF Quiet
        <3>3. QED
            BY <2>6, <3>2
    <2>8. CASE m # More
        <3>1. P = {m.n} /\ gotUdp' = gotUdp \cup {m.n} /\ m.n \in 1 .. MaxPackets
            BY <1>2, <1>4, <2>2, <2>8, PayloadFields DEF P
        <3>2. ASSUME Below(O, {m.n}) PROVE m.n \notin O
            BY <3>1, <3>2, Constants DEF Below
        <3>3. Sent
            BY <1>1, <2>4, <2>5, <3>1, <3>2 DEF Sent
        <3>4. QED
            BY <2>6, <3>3
    <2>9. QED
        BY <2>7, <2>8
<1>5. QED
    BY <1>3, <1>4 DEF T1SendTo

\* A step of the tunnel is one of the seven forms, and task 2 sends answers only.
LEMMA EveryStep ==
    ASSUME TypeOK, Counted, Channels, [Next]_vars
    PROVE  (Keep \/ Drop \/ Asked \/ ReadOut \/ Taken \/ Sent \/ Quiet) /\ Channels'
<1>1. CASE T2Read \/ T2Ends \/ ParseEnds
    <2>1. UNCHANGED <<answered, got, packets, gotUdp, out, t1, control>>
        BY <1>1 DEF T2Read, T2Ends, ParseEnds, client, egress
    <2>2. Held(t2) = <<>> /\ Held(t2') = <<>>
        <3>1. t2 \in {Select, [at |-> "parse", msg |-> None]}
            BY <1>1 DEF T2Read, T2Ends, ParseEnds, TypeOK, Done
        <3>2. t2' \in {Select, Done, [at |-> "parse", msg |-> None]}
            BY <1>1, <3>1 DEF T2Read, T2Ends, ParseEnds, Select
        <3>3. QED
            BY <3>1, <3>2, HeldLaws
    <2>3. Queue' = Queue
        BY <2>1, <2>2 DEF Queue
    <2>4. QED
        BY <2>1, <2>2, <2>3, EmptyLaws DEF Keep, Channels
<1>2. CASE ClientSend \/ StoreEngine \/ SetUseDtls \/ HandshakeDone \/ UNCHANGED vars
    <2>1. UNCHANGED <<answered, got, packets, gotUdp, out, t1, control, t2>>
        BY <1>2 DEF ClientSend, StoreEngine, SetUseDtls, HandshakeDone, vars, client, egress, ingress
    <2>2. Queue' = Queue
        BY <2>1 DEF Queue
    <2>3. QED
        BY <2>1, <2>2 DEF Keep, Channels
<1>3. CASE ClientRead
    BY <1>3, ReadStep
<1>4. CASE Parse
    BY <1>4, ParseStep
<1>5. CASE ControlSend
    BY <1>5, SendStep
<1>6. CASE T1Control
    BY <1>6, ControlStep
<1>7. CASE T1ReadTun
    BY <1>7, TunStep
<1>8. CASE T1Write
    BY <1>8, WriteStep
<1>9. CASE T1Error
    BY <1>9, ErrorStep
<1>10. CASE T1Seal
    BY <1>10, SealStep
<1>11. CASE T1SendTo
    BY <1>11, SendToStep
<1>12. QED
    BY <1>1, <1>2, <1>3, <1>4, <1>5, <1>6, <1>7, <1>8, <1>9, <1>10, <1>11 DEF Next

-----------------------------------------------------------------------------
(* The answers *)

\* What is on the TLS stream is the oldest part of what is on its way.
LEMMA OutFirst ==
    ASSUME TypeOK
    PROVE  \E r \in Seq(Messages) : Queue = out \o r
<1> DEFINE x == Held(t1)
           h == Held(t2)
<1>1. /\ out \in Seq(Messages) /\ x \in Seq(Messages)
      /\ control \in Seq(Messages) /\ h \in Seq(Messages)
    BY QueueParts
<1>2. Queue = ((out \o x) \o control) \o h
    BY DEF Queue
<1> HIDE DEF x, h
<1>3. control \o h \in Seq(Messages)
    BY <1>1, ConcatLaws
<1>4. x \o (control \o h) \in Seq(Messages)
    BY <1>1, <1>3, ConcatLaws
<1>5. (out \o x) \o (control \o h) = out \o (x \o (control \o h))
    BY <1>1, <1>3, ConcatAssoc, SMTT(60)
<1>6. out \o x \in Seq(Messages)
    BY <1>1, ConcatLaws
<1>7. ((out \o x) \o control) \o h = (out \o x) \o (control \o h)
    BY <1>1, <1>6, ConcatAssoc, SMTT(60)
<1>8. QED
    BY <1>2, <1>4, <1>5, <1>7

\* What is on the TLS stream is in the queue.
LEMMA OutInQueue ==
    ASSUME TypeOK, NEW k
    PROVE  Numbers(out, k) \subseteq Numbers(Queue, k)
<1>1. PICK r \in Seq(Messages) : Queue = out \o r
    BY OutFirst
<1>2. out \in Seq(Messages)
    BY QueueParts
<1>3. Numbers(out \o r, k) = Numbers(out, k) \cup Numbers(r, k)
    BY <1>2, ConcatLaws
<1>4. QED
    BY <1>1, <1>3

\* The numbers and lengths that Answers compares are naturals.
LEMMA LaterNat ==
    ASSUME TypeOK
    PROVE  Later \subseteq Nat /\ Len(got["reply"]) \in Nat /\ Len(answered) \in Nat
<1>1. answered \in Seq(1 .. MaxFrames) /\ got["reply"] \in Seq(Nat) /\ MaxFrames \in Nat
    BY Constants DEF TypeOK, MessageKinds
<1>2. Len(got["reply"]) \in Nat /\ Len(answered) \in Nat
    BY <1>1, LenProperties
<1>3. \A i \in 1 .. Len(answered) : answered[i] \in Nat
    BY <1>1, ElementOfSeq
<1>4. QED
    BY <1>2, <1>3 DEF Later

\* Messages that move on inside the queue change nothing about the answers.
LEMMA AnswersKeep ==
    ASSUME TypeOK, Answers, Keep
    PROVE  Answers'
<1>1. /\ answered' = answered /\ got' = got /\ Queue' = Queue /\ Later' = Later
      /\ t1' # Done => t1 # Done
    BY DEF Keep, Later
<1>2. ASSUME NEW m \in Later, NEW n \in Later, m < n, n \in Numbers(out', "reply")
      PROVE  m \in Numbers(out', "reply")
    <2>1. CASE out' = out
        BY <1>2, <2>1 DEF Answers
    <2>2. CASE t1 # Done /\ out' \in Seq(Messages) /\ \E r \in Seq(Messages) : Queue = out' \o r
        <3>1. PICK r \in Seq(Messages) : Queue = out' \o r
            BY <2>2
        <3> DEFINE o == out'
        <3>2. o \in Seq(Messages)
            BY <2>2
        <3> HIDE DEF o
        <3>3. /\ Numbers(o \o r, "reply") = Numbers(o, "reply") \cup Numbers(r, "reply")
              /\ InOrder(o \o r, "reply") => Below(Numbers(o, "reply"), Numbers(r, "reply"))
            BY <3>2, ConcatLaws
        <3>4. m \in Numbers(Queue, "reply") /\ InOrder(Queue, "reply")
            BY <2>2 DEF Answers
        <3>5. m \in Nat /\ n \in Nat
            BY LaterNat
        <3>6. CASE m \in Numbers(r, "reply")
            BY <1>2, <3>1, <3>3, <3>4, <3>5, <3>6 DEF Below, o
        <3>7. QED
            BY <3>1, <3>3, <3>4, <3>6 DEF o
    <2>3. QED
        BY <2>1, <2>2 DEF Keep
<1>3. QED
    BY <1>1, <1>2 DEF Answers

\* A failed task 1 loses what it held and what waits behind it.
LEMMA AnswersDrop ==
    ASSUME TypeOK, Answers, Drop
    PROVE  Answers'
<1>1. /\ answered' = answered /\ got' = got /\ out' = out /\ t1' = Done /\ Later' = Later
      /\ Numbers(Queue', "reply") \subseteq Numbers(Queue, "reply")
      /\ InOrder(Queue, "reply") => InOrder(Queue', "reply")
    BY DEF Drop, Later, MessageKinds
<1>2. QED
    BY <1>1 DEF Answers

\* A packet is no answer.
LEMMA AnswersAside ==
    ASSUME TypeOK, Answers, Aside
    PROVE  Answers'
<1>1. /\ answered' = answered /\ got' = got /\ out' = out /\ t1 # Done /\ Later' = Later
      /\ Numbers(Queue', "reply") = Numbers(Queue, "reply")
      /\ InOrder(Queue, "reply") => InOrder(Queue', "reply")
    BY DEF Aside, Later
<1>2. QED
    BY <1>1 DEF Answers

\* A new request is the newest one that is owed an answer.
LEMMA AnswersAsked ==
    ASSUME TypeOK, Counted, Answers, Asked
    PROVE  Answers'
<1> DEFINE l == Len(got["reply"])
           a == Len(answered)
<1>1. PICK n \in 1 .. MaxFrames :
          /\ answered' = Append(answered, n) /\ \A i \in 1 .. a : answered[i] < n
          /\ Queue' = Queue \o <<Reply(n)>>
    BY DEF Asked
<1>2. got' = got /\ out' = out /\ t1' = t1
    BY DEF Asked
<1>3. Later \subseteq Nat /\ l \in Nat /\ a \in Nat /\ l <= a /\ n \in Nat
    BY LaterNat, Constants DEF Answers
<1>4. /\ Len(answered') = a + 1 /\ answered'[a + 1] = n
      /\ \A i \in 1 .. a : answered'[i] = answered[i]
    BY <1>1, AppendProperties DEF TypeOK
<1>5. Later' = Later \cup {n}
    <2>1. Later' = {answered'[i] : i \in l + 1 .. a + 1}
        BY <1>2, <1>4 DEF Later
    <2>2. Later = {answered[i] : i \in l + 1 .. a}
        BY DEF Later
    <2> HIDE DEF l, a
    <2>3. ASSUME NEW i \in l + 1 .. a PROVE i \in l + 1 .. a + 1 /\ answered'[i] = answered[i]
        BY <1>3, <1>4
    <2>4. ASSUME NEW i \in l + 1 .. a + 1 PROVE i = a + 1 \/ i \in l + 1 .. a
        BY <1>3
    <2>5. a + 1 \in l + 1 .. a + 1
        BY <1>3
    <2>6. \A x \in Later : x \in Later'
        BY <2>1, <2>2, <2>3
    <2>7. n \in Later'
        BY <1>4, <2>1, <2>5
    <2>8. \A x \in Later' : x \in Later \/ x = n
        BY <1>4, <2>1, <2>2, <2>3, <2>4
    <2>9. QED
        BY <2>6, <2>7, <2>8
<1>6. \A x \in Later : x < n
    BY <1>1, <1>3 DEF Later
<1>7. /\ <<Reply(n)>> \in Seq(Messages) /\ Numbers(<<Reply(n)>>, "reply") = {n}
      /\ InOrder(<<Reply(n)>>, "reply")
    <2>1. Reply(n) \in Messages /\ Reply(n).kind = "reply" /\ Reply(n).n = n
        BY DEF Reply, Messages
    <2>2. QED
        BY <2>1, SingletonLaws
<1> DEFINE q == Queue
           s == <<Reply(n)>>
<1>8. q \in Seq(Messages) /\ s \in Seq(Messages) /\ Queue' = q \o s
    BY <1>1, <1>7, QueueParts
<1> HIDE DEF q, s
<1>9. /\ Numbers(q \o s, "reply") = Numbers(q, "reply") \cup Numbers(s, "reply")
      /\ InOrder(q \o s, "reply") <=>
            InOrder(q, "reply") /\ InOrder(s, "reply") /\ Below(Numbers(q, "reply"), Numbers(s, "reply"))
    BY <1>8, ConcatLaws
<1>10. /\ Numbers(q, "reply") \subseteq Later /\ InOrder(q, "reply")
       /\ t1 # Done => Later \subseteq Numbers(q, "reply")
    BY DEF Answers, q
<1>11. Numbers(s, "reply") = {n} /\ InOrder(s, "reply")
    BY <1>7 DEF s
<1>12. Below(Numbers(q, "reply"), Numbers(s, "reply"))
    BY <1>6, <1>10, <1>11 DEF Below
<1>13. /\ InOrder(Queue', "reply") /\ Numbers(Queue', "reply") \subseteq Later'
       /\ t1' # Done => Later' \subseteq Numbers(Queue', "reply")
    BY <1>2, <1>5, <1>8, <1>9, <1>10, <1>11, <1>12
<1>14. ASSUME NEW x \in Later', NEW y \in Later', x < y, y \in Numbers(out', "reply")
       PROVE  x \in Numbers(out', "reply")
    <2>1. y \in Later
        BY <1>2, <1>10, <1>14, OutInQueue DEF q
    <2>2. x \in Nat /\ y \in Nat
        BY <1>3, <1>5
    <2>3. x \in Later
        BY <1>3, <1>5, <1>6, <1>14, <2>1, <2>2
    <2>4. QED
        BY <1>2, <1>14, <2>1, <2>3 DEF Answers
<1>15. /\ Len(got'["reply"]) <= Len(answered')
       /\ \A i \in 1 .. Len(got'["reply"]) : got'["reply"][i] = answered'[i]
    <2>1. /\ l <= a + 1
          /\ \A i \in 1 .. l : i \in 1 .. a
          /\ \A i \in 1 .. l : got["reply"][i] = answered[i]
        BY <1>3 DEF Answers
    <2>2. QED
        BY <1>2, <1>4, <2>1
<1>16. QED
    BY <1>13, <1>14, <1>15 DEF Answers

\* The answer at the head of the TLS stream is the oldest one owed.
LEMMA OldestFirst ==
    ASSUME TypeOK, Counted, Answers, ReadOut, Head(out).kind = "reply"
    PROVE  /\ Len(got["reply"]) < Len(answered)
           /\ Head(out).n = answered[Len(got["reply"]) + 1]
<1> DEFINE l == Len(got["reply"])
           a == Len(answered)
           x == Head(out).n
           s == <<Head(out)>>
           o == out'
<1>1. s \in Seq(Messages) /\ o \in Seq(Messages) /\ out = s \o o /\ Numbers(s, "reply") = {x}
    BY SingletonLaws DEF ReadOut
<1>2. Later \subseteq Nat /\ l \in Nat /\ a \in Nat /\ l <= a
    BY LaterNat DEF Answers
<1>3. \A i, j \in 1 .. a : i < j => answered[i] < answered[j]
    BY LenProperties DEF Counted, Rising, TypeOK
<1>4. Later = {answered[i] : i \in l + 1 .. a}
    BY DEF Later
<1> HIDE DEF l, a, x, s, o
<1>5. /\ Numbers(s \o o, "reply") = Numbers(s, "reply") \cup Numbers(o, "reply")
      /\ InOrder(s \o o, "reply") => Below(Numbers(s, "reply"), Numbers(o, "reply"))
    BY <1>1, ConcatLaws
<1>6. x \in Numbers(out, "reply")
    BY <1>1, <1>5
<1>7. x \in Later
    BY <1>6, OutInQueue DEF Answers
<1>8. PICK i \in l + 1 .. a : answered[i] = x
    BY <1>4, <1>7
<1>9. l + 1 \in l + 1 .. a /\ l + 1 \in 1 .. a /\ i \in 1 .. a /\ l < a
    BY <1>2, <1>8
<1>10. ASSUME i # l + 1 PROVE FALSE
    <2>1. l + 1 < i
        BY <1>2, <1>8, <1>10
    <2>2. answered[l + 1] < x /\ answered[l + 1] \in Later
        BY <1>3, <1>4, <1>8, <1>9, <2>1
    <2>3. answered[l + 1] \in Numbers(out, "reply")
        BY <1>6, <1>7, <2>2 DEF Answers
    <2>4. InOrder(out, "reply")
        <3>1. PICK r \in Seq(Messages) : Queue = out \o r
            BY OutFirst
        <3>2. InOrder(out \o r, "reply") => InOrder(out, "reply")
            BY QueueParts, ConcatLaws
        <3>3. QED
            BY <3>1, <3>2 DEF Answers
    <2>5. answered[l + 1] \in Nat /\ x \in Nat
        BY <1>2, <1>7, <2>2
    <2>6. answered[l + 1] \in Numbers(o, "reply")
        BY <1>1, <1>5, <2>2, <2>3, <2>5
    <2>7. x < answered[l + 1]
        BY <1>1, <1>5, <2>4, <2>6 DEF Below
    <2>8. QED
        BY <2>2, <2>5, <2>7
<1>11. QED
    BY <1>8, <1>9, <1>10 DEF l, a, x

\* What the client reads is the oldest answer owed.
LEMMA AnswersRead ==
    ASSUME TypeOK, TypeOK', Counted, Answers, ReadOut
    PROVE  Answers'
<1> DEFINE l == Len(got["reply"])
           a == Len(answered)
           x == Head(out).n
           s == <<Head(out)>>
           o == out'
           q == Queue'
<1>1. /\ s \in Seq(Messages) /\ o \in Seq(Messages) /\ out = s \o o
      /\ q \in Seq(Messages) /\ Queue = s \o q
      /\ t1' = t1 /\ answered' = answered
      /\ Head(out) \in Messages
    BY SingletonLaws DEF ReadOut
<1>2. Later \subseteq Nat /\ l \in Nat /\ a \in Nat /\ l <= a
    BY LaterNat DEF Answers
<1>3. /\ InOrder(Queue, "reply") /\ Numbers(Queue, "reply") \subseteq Later
      /\ t1 # Done => Later \subseteq Numbers(Queue, "reply")
    BY DEF Answers
<1>4. \A m, n \in Later : m < n /\ n \in Numbers(out, "reply") => m \in Numbers(out, "reply")
    BY DEF Answers
<1>5. /\ Numbers(s \o o, "reply") = Numbers(s, "reply") \cup Numbers(o, "reply")
      /\ InOrder(s \o o, "reply") => Below(Numbers(s, "reply"), Numbers(o, "reply"))
    <2> HIDE DEF s, o
    <2>1. QED
        BY <1>1, ConcatLaws
<1>6. /\ Numbers(s \o q, "reply") = Numbers(s, "reply") \cup Numbers(q, "reply")
      /\ InOrder(s \o q, "reply") =>
            InOrder(q, "reply") /\ Below(Numbers(s, "reply"), Numbers(q, "reply"))
    <2> HIDE DEF s, q
    <2>1. QED
        BY <1>1, ConcatLaws
<1>7. CASE Head(out).kind # "reply"
    <2>1. Numbers(s, "reply") = {}
        BY <1>1, <1>7, SingletonLaws
    <2>2. got'["reply"] = got["reply"]
        BY <1>7 DEF ReadOut, TypeOK, MessageKinds
    <2>3. Later' = Later
        BY <1>1, <2>2 DEF Later
    <2> HIDE DEF s, o, q
    <2>4. Numbers(q, "reply") = Numbers(Queue, "reply") /\ InOrder(q, "reply")
        BY <1>1, <1>3, <1>6, <2>1
    <2>5. Numbers(o, "reply") = Numbers(out, "reply")
        BY <1>1, <1>5, <2>1
    <2>6. /\ Len(got'["reply"]) <= Len(answered')
          /\ \A i \in 1 .. Len(got'["reply"]) : got'["reply"][i] = answered'[i]
        BY <1>1, <2>2 DEF Answers
    <2>7. QED
        BY <1>1, <1>3, <1>4, <2>3, <2>4, <2>5, <2>6 DEF Answers, o, q
<1>8. CASE Head(out).kind = "reply"
    <2>1. Numbers(s, "reply") = {x}
        BY <1>1, <1>8, SingletonLaws
    <2>2. l < a /\ x = answered[l + 1]
        BY <1>8, OldestFirst
    <2>3. got'["reply"] = Append(got["reply"], x)
        BY <1>1, <1>8, MessageFields DEF ReadOut, TypeOK, MessageKinds
    <2>4. /\ Len(got'["reply"]) = l + 1 /\ got'["reply"][l + 1] = x
          /\ \A i \in 1 .. l : got'["reply"][i] = got["reply"][i]
        <3>1. x \in Nat /\ got["reply"] \in Seq(Nat)
            BY <1>1, MessageFields DEF TypeOK, MessageKinds
        <3>2. QED
            BY <2>3, <3>1, AppendProperties
    <2>5. \A i, j \in 1 .. a : i < j => answered[i] < answered[j]
        BY LenProperties DEF Counted, Rising, TypeOK
    <2>6. /\ Later = {answered[i] : i \in l + 1 .. a}
          /\ Later' = {answered[i] : i \in (l + 1) + 1 .. a}
        BY <1>1, <2>4 DEF Later
    <2>7. /\ Len(got'["reply"]) <= Len(answered')
          /\ \A i \in 1 .. Len(got'["reply"]) : got'["reply"][i] = answered'[i]
        <3>1. \A i \in 1 .. l : got["reply"][i] = answered[i]
            BY DEF Answers
        <3> HIDE DEF l, a, x
        <3>2. ASSUME NEW i \in 1 .. l + 1 PROVE got'["reply"][i] = answered[i]
            <4>1. CASE i \in 1 .. l
                BY <2>4, <3>1, <4>1
            <4>2. CASE i = l + 1
                BY <2>2, <2>4, <4>2
            <4>3. QED
                BY <1>2, <4>1, <4>2
        <3>3. Len(answered') = a
            BY <1>1 DEF a
        <3>4. QED
            BY <1>1, <1>2, <2>2, <2>4, <3>2, <3>3
    <2> HIDE DEF l, a, x, s, o, q
    <2>8. Later' \subseteq Later /\ \A m \in Later' : x < m
        <3>1. ASSUME NEW i \in (l + 1) + 1 .. a
              PROVE  i \in l + 1 .. a /\ i \in 1 .. a /\ l + 1 \in 1 .. a /\ l + 1 < i
            BY <1>2
        <3>2. QED
            BY <2>2, <2>5, <2>6, <3>1
    <2>9. \A m \in Later : m = x \/ m \in Later'
        <3>1. ASSUME NEW i \in l + 1 .. a PROVE i = l + 1 \/ i \in (l + 1) + 1 .. a
            BY <1>2
        <3>2. QED
            BY <2>2, <2>6, <3>1
    <2>10. x \in Later
        <3>1. l + 1 \in l + 1 .. a
            BY <1>2, <2>2
        <3>2. QED
            BY <2>2, <2>6, <3>1
    <2>11. \A m \in Numbers(q, "reply") : m \in Later /\ x < m
        BY <1>1, <1>3, <1>6, <2>1 DEF Below
    <2>12. x \in Nat
        BY <1>2, <2>10
    <2>13. Numbers(q, "reply") \subseteq Later' /\ InOrder(q, "reply")
        <3>1. \A m \in Numbers(q, "reply") : m # x
            BY <1>2, <2>11, <2>12
        <3>2. QED
            BY <1>1, <1>3, <1>6, <2>9, <2>11, <3>1
    <2>14. ASSUME t1 # Done PROVE Later' \subseteq Numbers(q, "reply")
        <3>1. \A m \in Later' : m # x /\ m \in Numbers(Queue, "reply")
            BY <1>2, <1>3, <2>8, <2>12, <2>14
        <3>2. QED
            BY <1>1, <1>6, <2>1, <3>1
    <2>15. ASSUME NEW m \in Later', NEW n \in Later', m < n, n \in Numbers(o, "reply")
           PROVE  m \in Numbers(o, "reply")
        <3>1. m \in Later /\ n \in Later /\ m # x /\ n \in Numbers(out, "reply")
            BY <1>1, <1>2, <1>5, <2>8, <2>12, <2>15
        <3>2. m \in Numbers(out, "reply")
            BY <1>4, <2>15, <3>1
        <3>3. QED
            BY <1>1, <1>5, <2>1, <3>1, <3>2
    <2>16. QED
        BY <1>1, <2>7, <2>13, <2>14, <2>15 DEF Answers, o, q
<1>9. QED
    BY <1>7, <1>8

-----------------------------------------------------------------------------
(* The packets *)

\* The elements of a sequence to which one is appended.
LEMMA RangeAppend ==
    ASSUME NEW s \in Seq(Nat), NEW n \in Nat
    PROVE  Range(Append(s, n)) = Range(s) \cup {n}
<1> DEFINE t == Append(s, n)
           l == Len(s)
<1>1. /\ l \in Nat /\ DOMAIN s = 1 .. l /\ t \in Seq(Nat) /\ Len(t) = l + 1
      /\ \A i \in 1 .. l : t[i] = s[i]
      /\ t[l + 1] = n
    BY AppendProperties, LenProperties
<1>2. DOMAIN t = 1 .. l + 1
    BY <1>1, LenProperties
<1> HIDE DEF t, l
<1>3. \A i \in 1 .. l : i \in 1 .. l + 1
    BY <1>1
<1>4. \A i \in 1 .. l + 1 : i \in 1 .. l \/ i = l + 1
    BY <1>1
<1>5. l + 1 \in 1 .. l + 1
    BY <1>1
<1>6. Range(t) = {t[i] : i \in 1 .. l + 1} /\ Range(s) = {s[i] : i \in 1 .. l}
    BY <1>1, <1>2 DEF Range
<1>7. \A x \in Range(s) \cup {n} : x \in Range(t)
    BY <1>1, <1>3, <1>5, <1>6
<1>8. \A x \in Range(t) : x \in Range(s) \cup {n}
    BY <1>1, <1>4, <1>6
<1>9. QED
    BY <1>7, <1>8 DEF t

\* Messages that move on inside the queue stay on their path.
LEMMA PathsKeep ==
    ASSUME Paths, Keep
    PROVE  Paths'
BY DEF Paths, Keep

\* A failed task 1 takes no packet to another path.
LEMMA PathsDrop ==
    ASSUME Paths, Drop
    PROVE  Paths'
<1>1. /\ got' = got /\ gotUdp' = gotUdp /\ packets' = packets /\ t1' = Done
      /\ Numbers(Queue', "packet") \subseteq Numbers(Queue, "packet")
      /\ InOrder(Queue, "packet") => InOrder(Queue', "packet")
    BY DEF Drop, MessageKinds
<1>2. QED
    BY <1>1 DEF Paths, Below

\* A new answer is no packet.
LEMMA PathsAsked ==
    ASSUME TypeOK, Paths, Asked
    PROVE  Paths'
<1>1. PICK n \in 1 .. MaxFrames : Queue' = Queue \o <<Reply(n)>>
    BY DEF Asked
<1>2. got' = got /\ gotUdp' = gotUdp /\ packets' = packets /\ t1' = t1
    BY DEF Asked
<1> DEFINE q == Queue
           s == <<Reply(n)>>
<1>3. /\ s \in Seq(Messages) /\ Numbers(s, "packet") = {} /\ InOrder(s, "packet")
    <2>1. Reply(n) \in Messages /\ Reply(n).kind = "reply"
        BY DEF Reply, Messages
    <2>2. QED
        BY <2>1, SingletonLaws
<1>4. q \in Seq(Messages) /\ Queue' = q \o s
    BY <1>1, QueueParts
<1> HIDE DEF q, s
<1>5. /\ Numbers(q \o s, "packet") = Numbers(q, "packet") \cup Numbers(s, "packet")
      /\ InOrder(q \o s, "packet") <=>
            InOrder(q, "packet") /\ InOrder(s, "packet") /\ Below(Numbers(q, "packet"), Numbers(s, "packet"))
    BY <1>3, <1>4, ConcatLaws
<1>6. Numbers(Queue', "packet") = Numbers(q, "packet")
    BY <1>3, <1>4, <1>5
<1>7. InOrder(q, "packet") => InOrder(Queue', "packet")
    BY <1>3, <1>4, <1>5 DEF Below
<1>8. QED
    BY <1>2, <1>6, <1>7 DEF Paths, q

\* A packet the client reads leaves the queue at its head.
LEMMA PathsRead ==
    ASSUME TypeOK, Paths, ReadOut
    PROVE  Paths'
<1> DEFINE x == Head(out).n
           s == <<Head(out)>>
           q == Queue'
           R == Range(got["packet"])
           Q == Numbers(Queue, "packet")
<1>1. /\ s \in Seq(Messages) /\ q \in Seq(Messages) /\ Queue = s \o q
      /\ t1' = t1 /\ gotUdp' = gotUdp /\ packets' = packets
      /\ Head(out) \in Messages
    BY SingletonLaws DEF ReadOut
<1>2. /\ Rising(got["packet"]) /\ InOrder(Queue, "packet") /\ Below(R, Q)
      /\ (R \cup Q) \cap gotUdp = {} /\ R \cup Q \cup gotUdp \subseteq 1 .. packets
      /\ t1 # Done => 1 .. packets \subseteq R \cup Q \cup gotUdp
    BY DEF Paths
<1>3. /\ Numbers(s \o q, "packet") = Numbers(s, "packet") \cup Numbers(q, "packet")
      /\ InOrder(s \o q, "packet") =>
            InOrder(q, "packet") /\ Below(Numbers(s, "packet"), Numbers(q, "packet"))
    <2> HIDE DEF s, q
    <2>1. QED
        BY <1>1, ConcatLaws
<1>4. CASE Head(out).kind # "packet"
    <2>1. Numbers(s, "packet") = {}
        BY <1>1, <1>4, SingletonLaws
    <2>2. got'["packet"] = got["packet"]
        BY <1>4 DEF ReadOut, TypeOK, MessageKinds
    <2> HIDE DEF s, q
    <2>3. Numbers(q, "packet") = Q /\ InOrder(q, "packet")
        BY <1>1, <1>2, <1>3, <2>1
    <2>4. QED
        BY <1>1, <1>2, <2>2, <2>3 DEF Paths, q
<1>5. CASE Head(out).kind = "packet"
    <2>1. Numbers(s, "packet") = {x}
        BY <1>1, <1>5, SingletonLaws
    <2>2. got'["packet"] = Append(got["packet"], x)
        BY <1>1, <1>5, MessageFields DEF ReadOut, TypeOK, MessageKinds
    <2>3. x \in Nat /\ got["packet"] \in Seq(Nat)
        BY <1>1, MessageFields DEF TypeOK, MessageKinds
    <2>4. Range(got'["packet"]) = R \cup {x}
        BY <2>2, <2>3, RangeAppend
    <2>5. x \in Q
        BY <1>1, <1>3, <2>1
    <2>6. Rising(got'["packet"])
        <3>1. \A m \in R : m < x
            BY <1>2, <2>5 DEF Below
        <3>2. \A i \in 1 .. Len(got["packet"]) : got["packet"][i] \in R
            BY <2>3, LenProperties DEF Range
        <3>3. \A i \in 1 .. Len(got["packet"]) : got["packet"][i] < x
            BY <3>1, <3>2
        <3>4. QED
            BY <1>2, <2>2, <2>3, <3>3, RisingAppend
    <2> HIDE DEF s, q, x, R, Q
    <2>7. Q = {x} \cup Numbers(q, "packet") /\ InOrder(q, "packet") /\ Below({x}, Numbers(q, "packet"))
        BY <1>1, <1>2, <1>3, <2>1 DEF Q
    <2>8. Below(R \cup {x}, Numbers(q, "packet"))
        BY <1>2, <2>7 DEF Below
    <2>9. R \cup {x} \cup Numbers(q, "packet") = R \cup Q
        BY <2>7
    <2>10. QED
        BY <1>1, <1>2, <2>4, <2>6, <2>7, <2>8, <2>9 DEF Paths, q
<1>6. QED
    BY <1>4, <1>5

\* A packet that is taken is newer than all others.
LEMMA PathsTaken ==
    ASSUME TypeOK, Paths, Taken
    PROVE  Paths'
<1> DEFINE R == Range(got["packet"])
           Q == Numbers(Queue, "packet")
           p == packets + 1
<1>1. got' = got /\ t1 # Done /\ packets' = p /\ gotUdp' = gotUdp
    BY DEF Taken, Aside
<1>2. /\ Rising(got["packet"]) /\ InOrder(Queue, "packet") /\ Below(R, Q)
      /\ (R \cup Q) \cap gotUdp = {} /\ R \cup Q \cup gotUdp \subseteq 1 .. packets
      /\ 1 .. packets \subseteq R \cup Q \cup gotUdp
    BY <1>1 DEF Paths
<1>3. packets \in Nat /\ 1 .. p = (1 .. packets) \cup {p}
    <2>1. packets \in Nat
        BY Constants DEF TypeOK
    <2>2. QED
        BY <2>1
<1>4. \A m \in R \cup Q \cup gotUdp : m < p
    BY <1>2, <1>3
<1>5. p \notin R /\ p \notin Q /\ p \notin gotUdp
    BY <1>3, <1>4
<1>6. /\ Numbers(Queue', "packet") = Q \cup {p}
      /\ InOrder(Queue, "packet") /\ Below(Q, {p}) => InOrder(Queue', "packet")
    BY DEF Taken
<1> HIDE DEF R, Q, p
<1>7. Below(Q, {p}) /\ Below(R, Q \cup {p})
    BY <1>2, <1>4 DEF Below
<1>8. (R \cup (Q \cup {p})) \cap gotUdp' = {} /\ R \cup (Q \cup {p}) \cup gotUdp' = 1 .. packets'
    BY <1>1, <1>2, <1>3, <1>5
<1>9. QED
    BY <1>1, <1>2, <1>6, <1>7, <1>8 DEF Paths, R, Q

\* A packet that is sent over DTLS was in the queue only, and is there no more.
LEMMA PathsSent ==
    ASSUME TypeOK, Paths, Sent
    PROVE  Paths'
<1> DEFINE R == Range(got["packet"])
           Q == Numbers(Queue, "packet")
           Z == Numbers(Queue', "packet")
<1>1. got' = got /\ t1 # Done /\ packets' = packets
    BY DEF Sent, Aside
<1>2. /\ Rising(got["packet"]) /\ InOrder(Queue, "packet") /\ Below(R, Q)
      /\ (R \cup Q) \cap gotUdp = {} /\ R \cup Q \cup gotUdp \subseteq 1 .. packets
      /\ 1 .. packets \subseteq R \cup Q \cup gotUdp
    BY <1>1 DEF Paths
<1>3. PICK n \in 1 .. MaxPackets :
          /\ gotUdp' = gotUdp \cup {n} /\ Q = Z \cup {n}
          /\ InOrder(Queue, "packet") => InOrder(Queue', "packet") /\ n \notin Z
    BY DEF Sent
<1> HIDE DEF R, Q, Z
<1>4. n \notin R
    <2>1. n \in Nat
        BY Constants
    <2>2. QED
        BY <1>2, <1>3, <2>1 DEF Below
<1>5. Below(R, Z)
    BY <1>2, <1>3 DEF Below
<1>6. (R \cup Z) \cap gotUdp' = {} /\ R \cup Z \cup gotUdp' = R \cup Q \cup gotUdp
    BY <1>2, <1>3, <1>4
<1>7. QED
    BY <1>1, <1>2, <1>3, <1>5, <1>6 DEF Paths, R, Q, Z

\* A packet without a number is on no path that is followed.
LEMMA PathsQuiet ==
    ASSUME Paths, Quiet
    PROVE  Paths'
<1>1. /\ got' = got /\ gotUdp' = gotUdp /\ packets' = packets /\ t1 # Done
      /\ Numbers(Queue', "packet") = Numbers(Queue, "packet")
      /\ InOrder(Queue, "packet") => InOrder(Queue', "packet")
    BY DEF Quiet, Aside
<1>2. QED
    BY <1>1 DEF Paths

-----------------------------------------------------------------------------
(* The theorems *)

\* Nothing has been sent, taken or received.
LEMMA InitInv ==
    ASSUME Init
    PROVE  Inv
<1>1. TypeOK
    BY InitTypes
<1>2. \A S : <<>> \in Seq(S) /\ Len(<<>>) = 0
    BY EmptySeq
<1>3. /\ wire = <<>> /\ answered = <<>> /\ control = <<>> /\ out = <<>> /\ gotUdp = {}
      /\ frames = 0 /\ packets = 0 /\ t1 = Select /\ t2 = Select
      /\ got["reply"] = <<>> /\ got["packet"] = <<>>
    BY DEF Init, MessageKinds
<1>4. Held(t1) = <<>> /\ Held(t2) = <<>>
    BY <1>3, HeldLaws
<1>5. Queue = <<>>
    <2>1. <<>> \o <<>> = <<>>
        BY <1>2, ConcatEmptySeq
    <2>2. QED
        BY <1>3, <1>4, <2>1 DEF Queue
<1>6. Counted
    BY <1>2, <1>3 DEF Counted, Rising
<1>7. Channels
    BY <1>3, <1>4, EmptyLaws DEF Channels, Select, Done
<1>8. Later = {}
    BY <1>2, <1>3 DEF Later
<1>9. Answers
    BY <1>2, <1>3, <1>5, <1>8, EmptyLaws DEF Answers
<1>10. Range(got["packet"]) = {} /\ Rising(got["packet"])
    BY <1>2, <1>3 DEF Range, Rising
<1>11. 1 .. packets = {}
    BY <1>3
<1>12. Paths
    BY <1>3, <1>5, <1>10, <1>11, EmptyLaws DEF Paths, Below
<1>13. NoFrameLeft
    BY <1>3 DEF NoFrameLeft
<1>14. QED
    BY <1>1, <1>6, <1>7, <1>9, <1>12, <1>13 DEF Inv

\* The invariant is inductive: by the form of the step.
LEMMA NextInv ==
    ASSUME Inv, [Next]_vars
    PROVE  Inv'
<1>1. TypeOK /\ NoFrameLeft /\ Counted /\ Channels /\ Answers /\ Paths
    BY DEF Inv
<1>2. TypeOK'
    BY <1>1, TypesKept
<1>3. NoFrameLeft'
    BY <1>1, NoFrameLeftKept
<1>4. Counted'
    BY <1>1, CountedKept
<1>5. (Keep \/ Drop \/ Asked \/ ReadOut \/ Taken \/ Sent \/ Quiet) /\ Channels'
    BY <1>1, EveryStep
<1>6. Answers'
    BY <1>1, <1>2, <1>5, AnswersKeep, AnswersDrop, AnswersAsked, AnswersRead, AnswersAside
       DEF Taken, Sent, Quiet
<1>7. Paths'
    BY <1>1, <1>5, PathsKeep, PathsDrop, PathsAsked, PathsRead, PathsTaken, PathsSent, PathsQuiet
<1>8. QED
    BY <1>2, <1>3, <1>4, <1>5, <1>6, <1>7 DEF Inv

\* The invariant of the two tasks holds in every state.
THEOREM Invariant == Spec => []Inv
<1>1. Init => Inv
    BY InitInv
<1>2. Inv /\ [Next]_vars => Inv'
    BY NextInv
<1>3. QED
    BY <1>1, <1>2, PTL DEF Spec

\* The types, and with them the limits of the channel and the two sockets, and
\* that the buffer of task 2 never holds more bytes than the frames on the
\* stream have.
THEOREM TypeCorrect == Spec => []TypeOK
<1>1. Inv => TypeOK
    BY DEF Inv
<1>2. QED
    BY <1>1, Invariant, PTL

\* Task 2 waits for more bytes only when no whole frame is in its buffer,
\* however the bytes arrive and however long the frames are.
THEOREM WholeFramesTaken == Spec => []NoFrameLeft
<1>1. Inv => NoFrameLeft
    BY DEF Inv
<1>2. QED
    BY <1>1, Invariant, PTL

\* The client gets one answer to every request, in the order of the requests,
\* and what is not there yet is on its way unless task 1 has failed.
THEOREM AnswersInOrder == Spec => []RepliesInOrder
<1>1. ASSUME Inv PROVE RepliesInOrder
    <2>1. Rising(answered) /\ Len(got["reply"]) <= Len(answered)
        BY <1>1 DEF Inv, Counted, Answers
    <2>2. DOMAIN got["reply"] = 1 .. Len(got["reply"])
        BY <1>1, LenProperties DEF Inv, TypeOK, MessageKinds
    <2>3. \A i \in DOMAIN got["reply"] : got["reply"][i] = answered[i]
        BY <1>1, <2>2 DEF Inv, Answers
    <2>4. ASSUME t1 # Done PROVE Numbers(Queue, "reply") = Later
        BY <1>1, <2>4 DEF Inv, Answers
    <2>5. InOrder(Queue, "reply")
        BY <1>1 DEF Inv, Answers
    <2>6. QED
        BY <2>1, <2>3, <2>4, <2>5 DEF RepliesInOrder, Later
<1>2. QED
    BY <1>1, Invariant, PTL

\* A packet of the TUN device goes over TLS or DTLS, once and in order.
THEOREM PacketsOnePath == Spec => []OnePath
<1>1. ASSUME Inv PROVE OnePath
    BY <1>1 DEF Inv, Paths, OnePath, Below
<1>2. QED
    BY <1>1, Invariant, PTL

\* Every step of the two tasks is one that Delivery allows, or does not change
\* what is seen of it.
LEMMA DeliveryStep ==
    ASSUME Inv, [Next]_vars
    PROVE  [Promise!Next]_<<answered, got["reply"], packets, got["packet"], gotUdp>>
<1> DEFINE seen == <<answered, got["reply"], packets, got["packet"], gotUdp>>
<1>1. TypeOK /\ Counted /\ Channels /\ Answers /\ Paths
    BY DEF Inv
<1>2. Keep \/ Drop \/ Asked \/ ReadOut \/ Taken \/ Sent \/ Quiet
    BY <1>1, EveryStep
<1>3. CASE Keep \/ Drop \/ Quiet
    <2>1. UNCHANGED seen
        BY <1>3 DEF Keep, Drop, Quiet, Aside
    <2>2. QED
        BY <2>1
<1>4. CASE Asked
    <2>1. Promise!Ask
        BY <1>4 DEF Asked, Promise!Ask
    <2>2. QED
        BY <2>1 DEF Promise!Next
<1>5. CASE Taken
    <2>1. Promise!Packet
        BY <1>5 DEF Taken, Aside, Promise!Packet
    <2>2. QED
        BY <2>1 DEF Promise!Next
<1>6. CASE ReadOut /\ Head(out).kind = "reply"
    <2>1. got'["reply"] = Append(got["reply"], Head(out).n) /\ got'["packet"] = got["packet"]
        BY <1>1, <1>6, MessageFields DEF ReadOut, TypeOK, MessageKinds
    <2>2. UNCHANGED <<answered, packets, gotUdp>>
        BY <1>6 DEF ReadOut
    <2>3. /\ Len(got["reply"]) < Len(answered)
          /\ Head(out).n = answered[Len(got["reply"]) + 1]
        BY <1>1, <1>6, OldestFirst
    <2>4. Promise!Answer
        BY <2>1, <2>2, <2>3 DEF Promise!Answer
    <2>5. QED
        BY <2>4 DEF Promise!Next
<1>7. CASE ReadOut /\ Head(out).kind = "packet"
    <2> DEFINE n == Head(out).n
    <2>1. got'["packet"] = Append(got["packet"], n) /\ got'["reply"] = got["reply"]
        BY <1>1, <1>7, MessageFields DEF ReadOut, TypeOK, MessageKinds
    <2>2. UNCHANGED <<answered, packets, gotUdp>>
        BY <1>7 DEF ReadOut
    <2>3. n \in Numbers(Queue, "packet")
        <3> DEFINE s == <<Head(out)>>
                   q == Queue'
        <3>1. /\ s \in Seq(Messages) /\ q \in Seq(Messages) /\ Queue = s \o q
              /\ Numbers(s, "packet") = {n}
            BY <1>7, SingletonLaws DEF ReadOut
        <3> HIDE DEF s, q
        <3>2. Numbers(s \o q, "packet") = Numbers(s, "packet") \cup Numbers(q, "packet")
            BY <3>1, ConcatLaws
        <3>3. QED
            BY <3>1, <3>2
    <2>4. n \in 1 .. packets /\ n \notin gotUdp
        BY <1>1, <2>3 DEF Paths
    <2>5. ASSUME got["packet"] # <<>> PROVE n > got["packet"][Len(got["packet"])]
        <3>1. got["packet"] \in Seq(Nat)
            BY <1>1 DEF TypeOK, MessageKinds
        <3>2. /\ Len(got["packet"]) \in Nat /\ Len(got["packet"]) # 0
              /\ DOMAIN got["packet"] = 1 .. Len(got["packet"])
            BY <2>5, <3>1, EmptySeq, LenProperties
        <3>3. Len(got["packet"]) \in DOMAIN got["packet"]
            BY <3>2
        <3>4. got["packet"][Len(got["packet"])] \in Range(got["packet"])
            BY <3>3 DEF Range
        <3>5. got["packet"][Len(got["packet"])] < n
            BY <1>1, <2>3, <3>4 DEF Paths, Below
        <3>6. QED
            BY <3>5
    <2> HIDE DEF n
    <2>6. Promise!Stream
        BY <2>1, <2>2, <2>4, <2>5 DEF Promise!Stream
    <2>7. QED
        BY <2>6 DEF Promise!Next
<1>8. CASE ReadOut /\ Head(out) = More
    <2>1. UNCHANGED seen
        BY <1>8 DEF ReadOut
    <2>2. QED
        BY <2>1
<1>9. CASE Sent
    <2> DEFINE s == got["packet"]
               Z == Numbers(Queue', "packet")
    <2>1. PICK n \in 1 .. MaxPackets :
              /\ gotUdp' = gotUdp \cup {n} /\ Numbers(Queue, "packet") = Z \cup {n}
        BY <1>9 DEF Sent
    <2>2. n \in Numbers(Queue, "packet")
        BY <2>1
    <2>3. n \in 1 .. packets /\ n \notin gotUdp
        BY <1>1, <2>2 DEF Paths
    <2>4. ASSUME NEW i \in 1 .. Len(s), s[i] = n PROVE FALSE
        <3>1. s \in Seq(Nat)
            BY <1>1 DEF TypeOK, MessageKinds
        <3>2. n \in Range(s)
            BY <2>4, <3>1, LenProperties DEF Range
        <3>3. n < n /\ n \in Nat
            BY <1>1, <2>2, <3>2, Constants DEF Paths, Below
        <3>4. QED
            BY <3>3
    <2>5. UNCHANGED <<answered, got, packets>>
        BY <1>9 DEF Sent, Aside
    <2>6. Promise!Datagram
        BY <2>1, <2>3, <2>4, <2>5 DEF Promise!Datagram
    <2>7. QED
        BY <2>6 DEF Promise!Next
<1>10. CASE ReadOut
    <2>1. Head(out) = More \/ Head(out).kind \in MessageKinds
        BY <1>10, MessageFields DEF ReadOut
    <2>2. QED
        BY <1>6, <1>7, <1>8, <1>10, <2>1 DEF MessageKinds
<1>11. QED
    BY <1>2, <1>3, <1>4, <1>5, <1>9, <1>10

\* The tunnel implements Delivery: what a client sees of the two tasks, their
\* queues and their failures is what Delivery promises.
THEOREM DeliversAsPromised == Spec => ImplementsDelivery
<1>1. Init => Promise!Init
    BY DEF Init, Promise!Init, MessageKinds
<1>2. Inv /\ [Next]_vars
        => [Promise!Next]_<<answered, got["reply"], packets, got["packet"], gotUdp>>
    BY DeliveryStep
<1>3. QED
    BY <1>1, <1>2, Invariant, PTL DEF Spec, ImplementsDelivery, Promise!Spec

=============================================================================
