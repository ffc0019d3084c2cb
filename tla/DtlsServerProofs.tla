--------------------------- MODULE DtlsServerProofs ---------------------------
(***************************************************************************)
(* Proofs about DtlsServer for every set of tunnels, of UDP addresses and  *)
(* of addresses of SSL objects, and every capacity of the channels.        *)
(***************************************************************************)
EXTENDS DtlsServer, SequenceTheorems, TLAPS

\* An SSL object is in one of three places: the loop has made it and not yet
\* sent it, it is in the signal channel of a tunnel, or the tunnel uses it.
InLoop == srv.at = "signal"
Used   == {k \in Tunnels : engine[k] # None}

\* Every engine is at the tunnel of its session, and fresh until it is used.
EnginesHome ==
    /\ \A k \in Used : engine[k].sid = k
    /\ \A k \in Tunnels : \A i \in DOMAIN signalQ[k] :
          signalQ[k][i].sid = k /\ signalQ[k][i].hs = "new"
    /\ InLoop => srv.engine.hs = "new"

\* Wherever an engine is, its SSL object is alive.
PtrsLive ==
    /\ \A k \in Used : engine[k].ptr \in live
    /\ \A k \in Tunnels : \A i \in DOMAIN signalQ[k] : signalQ[k][i].ptr \in live
    /\ InLoop => srv.engine.ptr \in live

\* No SSL object is in two places.
PtrsApart ==
    /\ \A j, k \in Used : engine[j].ptr = engine[k].ptr => j = k
    /\ \A j \in Used : \A k \in Tunnels : \A i \in DOMAIN signalQ[k] :
          engine[j].ptr # signalQ[k][i].ptr
    /\ \A j, k \in Tunnels : \A h \in DOMAIN signalQ[j] : \A i \in DOMAIN signalQ[k] :
          signalQ[j][h].ptr = signalQ[k][i].ptr => j = k /\ h = i
    /\ InLoop => /\ \A k \in Used : engine[k].ptr # srv.engine.ptr
                 /\ \A k \in Tunnels : \A i \in DOMAIN signalQ[k] :
                       signalQ[k][i].ptr # srv.engine.ptr

\* Wherever an engine is, its pointer stands for its own session or for none.
KeysOwn ==
    /\ \A k \in Used : pending[engine[k].ptr] \in {engine[k].sid, None}
    /\ \A k \in Tunnels : \A i \in DOMAIN signalQ[k] :
          pending[signalQ[k][i].ptr] \in {signalQ[k][i].sid, None}
    /\ InLoop => pending[srv.engine.ptr] \in {srv.engine.sid, None}

\* The address the loop is busy with is the one of the tunnel it signals, and
\* a tunnel that has ended has an empty packet channel.
Mapped ==
    /\ srv # Receiving => active[srv.addr] = srv.engine.sid
    /\ \A k \in Tunnels : t2[k] = "ended" => dataQ[k] = <<>>

\* The inductive invariant.  KeyIsOwn speaks of the engines in use only; that
\* a new engine at an old address disturbs none of them rests on the three
\* places being apart.
Inv ==
    /\ TypeOK /\ EnginesHome /\ PtrsLive /\ PtrsApart /\ KeysOwn
    /\ PendingIsLive /\ Mapped /\ QueuedIsMapped

-----------------------------------------------------------------------------

\* The elements of a queue to which one is appended, and of the rest of one.
LEMMA Appended ==
    ASSUME NEW S, NEW s \in Seq(S), NEW e \in S
    PROVE  \A i \in DOMAIN Append(s, e) :
              (i \in DOMAIN s /\ Append(s, e)[i] = s[i]) \/ Append(s, e)[i] = e
BY AppendProperties, LenProperties

\* The elements of the rest of a queue are elements of the queue.
LEMMA Taken ==
    ASSUME NEW S, NEW s \in Seq(S), s # <<>>
    PROVE  \A i \in DOMAIN Tail(s) :
              i \in Nat \ {0} /\ i + 1 \in DOMAIN s /\ Tail(s)[i] = s[i + 1]
BY HeadTailProperties, LenProperties

\* Every queued packet comes from an address.
LEMMA QueuedTypes ==
    ASSUME TypeOK
    PROVE  \A j \in Tunnels : \A i \in DOMAIN dataQ[j] : dataQ[j][i].from \in Addrs
<1>1. \A j \in Tunnels : \A i \in DOMAIN dataQ[j] : dataQ[j][i] \in Packets
    BY LenProperties, ElementOfSeq DEF TypeOK
<1>2. QED
    BY <1>1 DEF Packets

\* What the loop is busy with when it is not receiving.
LEMMA BusyLoop ==
    ASSUME TypeOK, srv # Receiving
    PROVE  srv.at \in {"signal", "hello"} /\ srv.addr \in Addrs /\ srv.engine \in Engines
BY DEF TypeOK

\* Feeding an engine changes nothing but its handshake.
LEMMA FeedEngine ==
    ASSUME NEW e \in Engines, NEW pkt \in Packets
    PROVE  /\ Feed(e, pkt) \in Engines
           /\ Feed(e, pkt).ptr = e.ptr /\ Feed(e, pkt).sid = e.sid
BY DEF Feed, Engines, KeyOf

\* The loop at its socket, and every engine it makes, are of their types.
LEMMA LoopTypes ==
    /\ Receiving \in [at : {"recv", "signal", "hello"}, addr : Addrs \cup {None},
                      engine : Engines \cup {None}]
    /\ \A p \in Ptrs, k \in Tunnels :
          [ptr |-> p, sid |-> k, hs |-> "new"] \in Engines
    /\ \A a \in Addrs, e \in Engines :
          /\ [at |-> "signal", addr |-> a, engine |-> e]
                \in [at : {"recv", "signal", "hello"}, addr : Addrs \cup {None},
                     engine : Engines \cup {None}]
          /\ a # None /\ e # None
BY DtlsAssumption, NoneIsNoEngine DEF DtlsAssumption, Receiving, Engines

\* Every step of the loop, of the monitors and of the tunnels keeps the types.
LEMMA TypeStep == TypeOK /\ [Next]_vars => TypeOK'
<1> SUFFICES ASSUME TypeOK, [Next]_vars PROVE TypeOK'
    OBVIOUS
<1> USE DtlsAssumption DEF DtlsAssumption
<1>1. ASSUME NEW a \in Addrs, NEW pkt \in Packets, pkt.from = a, Forward(a, pkt)
      PROVE  TypeOK'
    <2>1. active[a] \in Tunnels
        BY <1>1 DEF Forward, TypeOK
    <2>2. \A s \in Seq(Packets) : Append(s, pkt) \in Seq(Packets) /\ Len(Append(s, pkt)) = Len(s) + 1
        BY <1>1, AppendProperties
    <2>3. /\ dataQ' \in [Tunnels -> Seq(Packets)]
          /\ \A k \in Tunnels : Len(dataQ'[k]) <= DataCap
        BY <1>1, <2>1, <2>2 DEF Forward, TypeOK
    <2>4. active' \in [Addrs -> Tunnels \cup {None}]
        BY <1>1 DEF Forward, TypeOK
    <2>5. QED
        BY <1>1, <2>3, <2>4 DEF Forward, TypeOK
<1>2. ASSUME NEW a \in Addrs, NEW pkt \in Packets, NewSession(a, pkt)
      PROVE  TypeOK'
    <2>1. pkt.sid \in Tunnels
        BY DEF Packets
    <2>2. PICK p \in Ptrs \ live :
             /\ live' = live \cup {p}
             /\ pending' = [pending EXCEPT ![p] = pkt.sid]
             /\ srv' = [at |-> "signal", addr |-> a,
                        engine |-> [ptr |-> p, sid |-> pkt.sid, hs |-> "new"]]
        BY <1>2 DEF NewSession
    <2>3. /\ srv' \in [at : {"recv", "signal", "hello"}, addr : Addrs \cup {None},
                       engine : Engines \cup {None}]
          /\ srv'.at # "recv" /\ srv'.addr # None /\ srv'.engine # None
        BY <2>1, <2>2, LoopTypes
    <2>4. /\ live' \subseteq Ptrs
          /\ pending' \in [Ptrs -> Tunnels \cup {None}]
          /\ active' \in [Addrs -> Tunnels \cup {None}]
        BY <1>2, <2>1, <2>2 DEF NewSession, TypeOK
    <2>5. QED
        BY <1>2, <2>3, <2>4 DEF NewSession, TypeOK
<1>3. ASSUME SendSignal PROVE TypeOK'
    <2> DEFINE e == srv.engine
    <2>1. srv.at = "signal" /\ e \in Engines /\ e.sid \in Tunnels /\ srv.addr \in Addrs
        BY <1>3, BusyLoop DEF SendSignal, Receiving, Engines
    <2>2. \A s \in Seq(Engines) : Append(s, e) \in Seq(Engines) /\ Len(Append(s, e)) = Len(s) + 1
        BY <2>1, AppendProperties
    <2>3. /\ signalQ' \in [Tunnels -> Seq(Engines)]
          /\ \A k \in Tunnels : Len(signalQ'[k]) <= SignalCap
        BY <1>3, <2>1, <2>2 DEF SendSignal, TypeOK
    <2>4. srv \in [at : {"recv", "signal", "hello"}, addr : Addrs \cup {None},
                  engine : Engines \cup {None}]
        BY DEF TypeOK
    <2>5. srv' = [srv EXCEPT !.at = "hello"]
        BY <1>3 DEF SendSignal
    <2>6. /\ srv' \in [at : {"recv", "signal", "hello"}, addr : Addrs \cup {None},
                       engine : Engines \cup {None}]
          /\ srv'.at # "recv" /\ srv'.addr # None /\ srv'.engine # None
        <3>1. srv' = [at |-> "hello", addr |-> srv.addr, engine |-> srv.engine]
            BY <2>4, <2>5
        <3>2. srv.addr # None /\ srv.engine # None
            BY <2>1, LoopTypes
        <3>3. QED
            BY <2>1, <3>1, <3>2
    <2>7. UNCHANGED <<active, pending, live, t2, dataQ, engine, dropping>>
        BY <1>3 DEF SendSignal
    <2>8. QED
        BY <2>3, <2>6, <2>7 DEF TypeOK
<1>4. ASSUME SendHello PROVE TypeOK'
    <2> DEFINE k == srv.engine.sid
    <2>1. k \in Tunnels /\ srv.addr \in Addrs
        BY <1>4, BusyLoop DEF SendHello, Receiving, Engines
    <2>2. Hello(k, srv.addr) \in Packets
        BY <2>1 DEF Hello, Packets
    <2>3. \A s \in Seq(Packets) : /\ Append(s, Hello(k, srv.addr)) \in Seq(Packets)
                                 /\ Len(Append(s, Hello(k, srv.addr))) = Len(s) + 1
        BY <2>2, AppendProperties
    <2>4. /\ dataQ' \in [Tunnels -> Seq(Packets)]
          /\ \A j \in Tunnels : Len(dataQ'[j]) <= DataCap
        <3>1. CASE UNCHANGED dataQ
            BY <3>1 DEF TypeOK
        <3>2. CASE /\ Len(dataQ[k]) < DataCap
                   /\ dataQ' = [dataQ EXCEPT ![k] = Append(@, Hello(k, srv.addr))]
            BY <2>1, <2>3, <3>2 DEF TypeOK
        <3>3. QED
            BY <1>4, <3>1, <3>2 DEF SendHello
    <2>5. QED
        BY <1>4, <2>4, LoopTypes DEF SendHello, TypeOK
<1>5. ASSUME NEW k \in Tunnels, Link(k) PROVE TypeOK'
    BY <1>5 DEF Link, TypeOK
<1>6. ASSUME NEW k \in Tunnels, MonitorTake(k) PROVE TypeOK'
    <2>1. /\ Head(signalQ[k]) \in Engines /\ Tail(signalQ[k]) \in Seq(Engines)
          /\ Len(Tail(signalQ[k])) = Len(signalQ[k]) - 1
        BY <1>6, HeadTailProperties DEF MonitorTake, TypeOK
    <2>2. /\ signalQ' \in [Tunnels -> Seq(Engines)]
          /\ \A j \in Tunnels : Len(signalQ'[j]) <= SignalCap
        BY <1>6, <2>1 DEF MonitorTake, TypeOK
    <2>3. /\ engine' \in [Tunnels -> Engines \cup {None}]
          /\ dropping' \in [Tunnels -> Ptrs \cup {None}]
          /\ live' \subseteq Ptrs
        BY <1>6, <2>1, ZenonT(60) DEF MonitorTake, TypeOK, Engines
    <2>4. QED
        BY <1>6, <2>2, <2>3 DEF MonitorTake, TypeOK
<1>7. ASSUME NEW k \in Tunnels, GuardDrop(k) PROVE TypeOK'
    BY <1>7 DEF GuardDrop, TypeOK
<1>8. ASSUME NEW k \in Tunnels, T2Receive(k) PROVE TypeOK'
    <2>1. /\ Head(dataQ[k]) \in Packets /\ Tail(dataQ[k]) \in Seq(Packets)
          /\ Len(Tail(dataQ[k])) = Len(dataQ[k]) - 1
        BY <1>8, HeadTailProperties DEF T2Receive, TypeOK
    <2>2. /\ dataQ' \in [Tunnels -> Seq(Packets)]
          /\ \A j \in Tunnels : Len(dataQ'[j]) <= DataCap
        BY <1>8, <2>1 DEF T2Receive, TypeOK
    <2>3. engine' \in [Tunnels -> Engines \cup {None}]
        BY <1>8, <2>1, FeedEngine DEF T2Receive, TypeOK
    <2>4. QED
        BY <1>8, <2>2, <2>3 DEF T2Receive, TypeOK
<1>9. ASSUME NEW k \in Tunnels, T2Stall(k) PROVE TypeOK'
    BY <1>9 DEF T2Stall, TypeOK
<1>10. ASSUME NEW k \in Tunnels, T2End(k) PROVE TypeOK'
    BY <1>10 DEF T2End, TypeOK
<1>11. CASE UNCHANGED vars
    BY <1>11 DEF vars, TypeOK
<1>12. QED
    BY <1>1, <1>2, <1>3, <1>4, <1>5, <1>6, <1>7, <1>8, <1>9, <1>10, <1>11 DEF Next, Monitor

-----------------------------------------------------------------------------

\* What is known of every engine, wherever it is.
EnginesOK == EnginesHome /\ PtrsLive /\ PtrsApart /\ KeysOwn

\* A new SSL object has a pointer that no engine has: it takes over the old
\* name of a freed one, and the session id that may still stand under it.
LEMMA NewSessionEngines ==
    ASSUME TypeOK, EnginesOK, NEW a \in Addrs, NEW pkt \in Packets, NewSession(a, pkt)
    PROVE  EnginesOK'
<1>1. PICK p \in Ptrs \ live :
         /\ live' = live \cup {p}
         /\ pending' = [pending EXCEPT ![p] = pkt.sid]
         /\ srv' = [at |-> "signal", addr |-> a,
                    engine |-> [ptr |-> p, sid |-> pkt.sid, hs |-> "new"]]
    BY DEF NewSession
<1>2. UNCHANGED <<engine, signalQ>> /\ Used' = Used
    BY DEF NewSession, Used
<1>3. srv'.engine.ptr = p /\ srv'.engine.sid = pkt.sid /\ srv'.engine.hs = "new"
    BY <1>1
<1>4. pending'[p] = pkt.sid /\ \A q \in Ptrs \ {p} : pending'[q] = pending[q]
    BY <1>1 DEF TypeOK
<1>5. EnginesHome'
    BY <1>2, <1>3 DEF EnginesOK, EnginesHome
<1>6. PtrsLive'
    BY <1>1, <1>2, <1>3 DEF EnginesOK, PtrsLive
<1>7. PtrsApart'
    BY <1>2, <1>3 DEF EnginesOK, PtrsLive, PtrsApart
<1>8. KeysOwn'
    BY <1>2, <1>3, <1>4, ZenonT(60) DEF EnginesOK, KeysOwn, PtrsLive, TypeOK
<1>9. QED
    BY <1>5, <1>6, <1>7, <1>8 DEF EnginesOK

\* The loop hands its engine over to the channel of the tunnel.
LEMMA SendSignalEngines ==
    ASSUME TypeOK, EnginesOK, SendSignal
    PROVE  EnginesOK'
<1> DEFINE e == srv.engine
           k == srv.engine.sid
<1>1. InLoop /\ e \in Engines /\ k \in Tunnels
    BY BusyLoop DEF SendSignal, Receiving, Engines, InLoop
<1>2. srv'.at = "hello"
    BY DEF SendSignal, TypeOK
<1>3. UNCHANGED <<engine, live, pending>> /\ Used' = Used /\ ~InLoop'
    BY <1>2 DEF SendSignal, Used, InLoop
<1>4. /\ signalQ'[k] = Append(signalQ[k], e)
      /\ \A j \in Tunnels \ {k} : signalQ'[j] = signalQ[j]
    BY <1>1 DEF SendSignal, TypeOK
<1>5. /\ DOMAIN signalQ'[k] = DOMAIN signalQ[k] \cup {Len(signalQ[k]) + 1}
      /\ Len(signalQ[k]) + 1 \notin DOMAIN signalQ[k]
      /\ \A i \in DOMAIN signalQ[k] : signalQ'[k][i] = signalQ[k][i]
      /\ signalQ'[k][Len(signalQ[k]) + 1] = e
    BY <1>1, <1>4, AppendProperties, LenProperties DEF TypeOK
<1>6. \A j \in Tunnels : \A i \in DOMAIN signalQ'[j] :
         \/ i \in DOMAIN signalQ[j] /\ signalQ'[j][i] = signalQ[j][i]
         \/ j = k /\ i = Len(signalQ[k]) + 1 /\ signalQ'[j][i] = e
    BY <1>4, <1>5
<1> HIDE DEF e, k
<1>7. EnginesHome'
    <2>1. e.sid = k /\ e.hs = "new"
        BY <1>1 DEF EnginesOK, EnginesHome, e, k
    <2>2. QED
        BY <1>3, <1>6, <2>1 DEF EnginesOK, EnginesHome
<1>8. PtrsLive'
    <2>1. e.ptr \in live
        BY <1>1 DEF EnginesOK, PtrsLive, e
    <2>2. QED
        BY <1>3, <1>6, <2>1 DEF EnginesOK, PtrsLive
<1>9. PtrsApart'
    <2>1. /\ \A j \in Used : engine[j].ptr # e.ptr
          /\ \A j \in Tunnels : \A i \in DOMAIN signalQ[j] : signalQ[j][i].ptr # e.ptr
        BY <1>1 DEF EnginesOK, PtrsApart, e
    <2>2. QED
        BY <1>3, <1>6, <2>1 DEF EnginesOK, PtrsApart
<1>10. KeysOwn'
    <2>1. pending[e.ptr] \in {e.sid, None}
        BY <1>1 DEF EnginesOK, KeysOwn, e
    <2>2. QED
        BY <1>3, <1>6, <2>1 DEF EnginesOK, KeysOwn
<1>11. QED
    BY <1>7, <1>8, <1>9, <1>10 DEF EnginesOK

\* The monitor takes the oldest engine of its channel.  The SSL object of the
\* engine that goes is freed, and it is nobody else's.
LEMMA MonitorTakeEngines ==
    ASSUME TypeOK, EnginesOK, NEW k \in Tunnels, MonitorTake(k)
    PROVE  EnginesOK'
<1> DEFINE e == signalQ[k][1]
           Was(j, i) == IF j = k THEN i + 1 ELSE i
<1>1. /\ signalQ'[k] = Tail(signalQ[k]) /\ 1 \in DOMAIN signalQ[k]
      /\ \A j \in Tunnels \ {k} : signalQ'[j] = signalQ[j]
    BY LenProperties, EmptySeq DEF MonitorTake, TypeOK
<1>2. \A i \in DOMAIN Tail(signalQ[k]) :
         i \in Nat \ {0} /\ i + 1 \in DOMAIN signalQ[k] /\ Tail(signalQ[k])[i] = signalQ[k][i + 1]
    BY Taken DEF MonitorTake, TypeOK
<1>3. \A j \in Tunnels : \A i \in DOMAIN signalQ'[j] :
         /\ Was(j, i) \in DOMAIN signalQ[j] /\ signalQ'[j][i] = signalQ[j][Was(j, i)]
         /\ j = k => Was(j, i) # 1
         /\ \A h \in DOMAIN signalQ'[j] : Was(j, h) = Was(j, i) => h = i
    <2>1. ASSUME NEW i \in DOMAIN signalQ'[k], NEW h \in DOMAIN signalQ'[k]
          PROVE  /\ i + 1 \in DOMAIN signalQ[k] /\ signalQ'[k][i] = signalQ[k][i + 1]
                 /\ i + 1 # 1 /\ (h + 1 = i + 1 => h = i)
        BY <1>1, <1>2
    <2>2. QED
        BY <1>1, <2>1
<1> HIDE DEF Was
<1>4. /\ engine'[k] = e
      /\ \A j \in Tunnels \ {k} : engine'[j] = engine[j]
    BY DEF MonitorTake, TypeOK
<1> HIDE DEF e
<1>5. /\ \A j \in Used' : j = k \/ (j # k /\ j \in Used /\ engine'[j] = engine[j])
      /\ engine'[k] = e
    BY <1>4 DEF Used
<1>6. live' = IF k \in Used THEN live \ {engine[k].ptr} ELSE live
    BY DEF MonitorTake, Used
<1>7. UNCHANGED <<pending, srv>>
    BY DEF MonitorTake
<1>8. EnginesHome'
    <2>1. e.sid = k
        BY <1>1 DEF EnginesOK, EnginesHome, e
    <2>2. QED
        BY <1>3, <1>5, <1>7, <2>1 DEF EnginesOK, EnginesHome, InLoop
<1>9. PtrsApart'
    <2>1. /\ \A j \in Used : engine[j].ptr # e.ptr
          /\ \A j \in Tunnels : \A i \in DOMAIN signalQ[j] :
                signalQ[j][i].ptr = e.ptr => j = k /\ i = 1
          /\ InLoop => e.ptr # srv.engine.ptr
        BY <1>1 DEF EnginesOK, PtrsApart, e
    <2>2. \A i, j \in Used' : engine'[i].ptr = engine'[j].ptr => i = j
        BY <1>5, <2>1 DEF EnginesOK, PtrsApart
    <2>3. \A h \in Used' : \A j \in Tunnels : \A i \in DOMAIN signalQ'[j] :
             engine'[h].ptr # signalQ'[j][i].ptr
        BY <1>3, <1>5, <2>1 DEF EnginesOK, PtrsApart
    <2>4. QED
        BY <1>3, <1>5, <1>7, <2>1, <2>2, <2>3 DEF EnginesOK, PtrsApart, InLoop
<1>10. PtrsLive'
    <2>1. e.ptr \in live /\ (k \in Used => e.ptr # engine[k].ptr)
        BY <1>1 DEF EnginesOK, PtrsLive, PtrsApart, e
    <2>2. ASSUME k \in Used
          PROVE  /\ \A j \in Used \ {k} : engine[j].ptr # engine[k].ptr
                 /\ \A j \in Tunnels : \A i \in DOMAIN signalQ[j] :
                       signalQ[j][i].ptr # engine[k].ptr
                 /\ InLoop => srv.engine.ptr # engine[k].ptr
        BY <2>2 DEF EnginesOK, PtrsApart
    <2>3. /\ \A j \in Used : engine[j].ptr \in live
          /\ \A j \in Tunnels : \A i \in DOMAIN signalQ[j] : signalQ[j][i].ptr \in live
          /\ InLoop => srv.engine.ptr \in live
        BY DEF EnginesOK, PtrsLive
    <2>4. CASE k \in Used
        <3>1. \A q \in live : q # engine[k].ptr => q \in live'
            BY <1>6, <2>4
        <3>2. \A j \in Used' : engine'[j].ptr \in live'
            BY <1>5, <2>1, <2>2, <2>3, <2>4, <3>1
        <3>3. \A j \in Tunnels : \A i \in DOMAIN signalQ'[j] : signalQ'[j][i].ptr \in live'
            <4>1. \A j \in Tunnels : \A i \in DOMAIN signalQ[j] : signalQ[j][i].ptr \in live'
                BY <2>2, <2>3, <2>4, <3>1
            <4>2. QED
                BY <1>3, <4>1
        <3>4. InLoop' => srv'.engine.ptr \in live'
            <4>1. InLoop => srv.engine.ptr \in live'
                BY <2>2, <2>3, <2>4, <3>1
            <4>2. QED
                BY <1>7, <4>1 DEF InLoop
        <3>5. QED
            BY <3>2, <3>3, <3>4 DEF PtrsLive
    <2>5. CASE k \notin Used
        BY <1>3, <1>5, <1>6, <1>7, <2>1, <2>3, <2>5 DEF PtrsLive, InLoop
    <2>6. QED
        BY <2>4, <2>5
<1>11. KeysOwn'
    <2>1. pending[e.ptr] \in {e.sid, None}
        BY <1>1 DEF EnginesOK, KeysOwn, e
    <2>2. QED
        BY <1>3, <1>5, <1>7, <2>1 DEF EnginesOK, KeysOwn, InLoop
<1>12. QED
    BY <1>8, <1>9, <1>10, <1>11 DEF EnginesOK

\* Every step keeps the engines at their tunnels, alive, apart and with their
\* own key or none.
LEMMA EnginesStep == TypeOK /\ EnginesOK /\ [Next]_vars => EnginesOK'
<1> SUFFICES ASSUME TypeOK, EnginesOK, [Next]_vars PROVE EnginesOK'
    OBVIOUS
<1> USE DEF EnginesOK, EnginesHome, PtrsLive, PtrsApart, KeysOwn, InLoop, Used
<1>1. ASSUME NEW a \in Addrs, NEW pkt \in Packets, Forward(a, pkt)
      PROVE  EnginesOK'
    BY <1>1 DEF Forward
<1>2. ASSUME NEW a \in Addrs, NEW pkt \in Packets, NewSession(a, pkt)
      PROVE  EnginesOK'
    BY <1>2, NewSessionEngines
<1>3. ASSUME SendSignal PROVE EnginesOK'
    BY <1>3, SendSignalEngines
<1>4. ASSUME SendHello PROVE EnginesOK'
    <2>1. ~InLoop'
        BY <1>4 DEF SendHello, Receiving
    <2>2. UNCHANGED <<engine, signalQ, live, pending>>
        BY <1>4 DEF SendHello
    <2>3. QED
        BY <2>1, <2>2
<1>5. ASSUME NEW k \in Tunnels, Link(k) PROVE EnginesOK'
    BY <1>5 DEF Link
<1>6. ASSUME NEW k \in Tunnels, MonitorTake(k) PROVE EnginesOK'
    BY <1>6, MonitorTakeEngines
<1>7. ASSUME NEW k \in Tunnels, GuardDrop(k) PROVE EnginesOK'
    <2>1. \A p \in Ptrs : pending'[p] \in {pending[p], None}
        BY <1>7 DEF GuardDrop, TypeOK
    <2>2. UNCHANGED <<srv, live, signalQ, engine>>
        BY <1>7 DEF GuardDrop
    <2>3. KeysOwn'
        BY <2>1, <2>2 DEF TypeOK
    <2>4. QED
        BY <2>2, <2>3
<1>8. ASSUME NEW k \in Tunnels, T2Receive(k) PROVE EnginesOK'
    <2>1. Head(dataQ[k]) \in Packets
        BY <1>8, HeadTailProperties DEF T2Receive, TypeOK
    <2>2. \A j \in Used' : j \in Used /\ engine'[j].ptr = engine[j].ptr /\ engine'[j].sid = engine[j].sid
        BY <1>8, <2>1, FeedEngine DEF T2Receive, TypeOK
    <2>3. UNCHANGED <<srv, live, signalQ, pending>>
        BY <1>8 DEF T2Receive
    <2>4. QED
        BY <2>2, <2>3
<1>9. ASSUME NEW k \in Tunnels, T2Stall(k) PROVE EnginesOK'
    BY <1>9 DEF T2Stall
<1>10. ASSUME NEW k \in Tunnels, T2End(k) PROVE EnginesOK'
    BY <1>10 DEF T2End
<1>11. CASE UNCHANGED vars
    BY <1>11 DEF vars
<1>12. QED
    BY <1>1, <1>2, <1>3, <1>4, <1>5, <1>6, <1>7, <1>8, <1>9, <1>10, <1>11 DEF Next, Monitor

-----------------------------------------------------------------------------

\* The map of pending ids: an entry is made together with its SSL object, and
\* outlives it only until the guard of the engine is done.
LEMMA PendingStep == TypeOK /\ PendingIsLive /\ [Next]_vars => PendingIsLive'
<1> SUFFICES ASSUME TypeOK, PendingIsLive, [Next]_vars PROVE PendingIsLive'
    OBVIOUS
<1> USE DtlsAssumption DEF DtlsAssumption, PendingIsLive
<1>1. ASSUME NEW a \in Addrs, NEW pkt \in Packets, Forward(a, pkt)
      PROVE  PendingIsLive'
    BY <1>1 DEF Forward
<1>2. ASSUME NEW a \in Addrs, NEW pkt \in Packets, NewSession(a, pkt)
      PROVE  PendingIsLive'
    BY <1>2 DEF NewSession, TypeOK
<1>3. CASE SendSignal \/ SendHello
    BY <1>3 DEF SendSignal, SendHello
<1>4. ASSUME NEW k \in Tunnels, Link(k) \/ T2Receive(k) \/ T2Stall(k) \/ T2End(k)
      PROVE  PendingIsLive'
    BY <1>4 DEF Link, T2Receive, T2Stall, T2End
<1>5. ASSUME NEW k \in Tunnels, MonitorTake(k) PROVE PendingIsLive'
    BY <1>5 DEF MonitorTake, TypeOK
<1>6. ASSUME NEW k \in Tunnels, GuardDrop(k) PROVE PendingIsLive'
    BY <1>6 DEF GuardDrop, TypeOK
<1>7. CASE UNCHANGED vars
    BY <1>7 DEF vars
<1>8. QED
    BY <1>1, <1>2, <1>3, <1>4, <1>5, <1>6, <1>7 DEF Next, Monitor

\* The map of addresses: a packet is queued only for the tunnel of its source,
\* and an address is taken from a tunnel only when the channel is closed, and
\* with it empty.
LEMMA MappedStep ==
    TypeOK /\ Mapped /\ QueuedIsMapped /\ [Next]_vars => Mapped' /\ QueuedIsMapped'
<1> SUFFICES ASSUME TypeOK, Mapped, QueuedIsMapped, [Next]_vars
             PROVE  Mapped' /\ QueuedIsMapped'
    OBVIOUS
<1> USE DtlsAssumption DEF DtlsAssumption, Mapped, QueuedIsMapped
<1>1. ASSUME NEW a \in Addrs, NEW pkt \in Packets, pkt.from = a, Forward(a, pkt)
      PROVE  Mapped' /\ QueuedIsMapped'
    <2> DEFINE k == active[a]
    <2>1. k \in Tunnels /\ srv' = Receiving
        BY <1>1 DEF Forward, TypeOK
    <2>2. CASE t2[k] = "ended"
        <3>1. /\ UNCHANGED <<dataQ, t2>> /\ dataQ[k] = <<>>
              /\ \A b \in Addrs \ {a} : active'[b] = active[b]
            BY <1>1, <2>1, <2>2 DEF Forward, TypeOK
        <3>2. \A j \in Tunnels \ {k} : \A i \in DOMAIN dataQ[j] : dataQ[j][i].from \in Addrs \ {a}
            BY QueuedTypes
        <3>3. QED
            BY <2>1, <3>1, <3>2
    <2>3. CASE t2[k] # "ended" /\ Len(dataQ[k]) < DataCap
        <3>1. /\ UNCHANGED <<active, t2>>
              /\ dataQ'[k] = Append(dataQ[k], pkt)
              /\ \A j \in Tunnels \ {k} : dataQ'[j] = dataQ[j]
            BY <1>1, <2>1, <2>3 DEF Forward, TypeOK
        <3>2. \A i \in DOMAIN dataQ'[k] :
                 dataQ'[k][i].from = a \/ (i \in DOMAIN dataQ[k] /\ dataQ'[k][i] = dataQ[k][i])
            BY <1>1, <2>1, <3>1, Appended DEF TypeOK
        <3>3. QueuedIsMapped'
            <4>1. \A i \in DOMAIN dataQ'[k] : active'[dataQ'[k][i].from] = k
                BY <2>1, <3>1, <3>2
            <4>2. \A j \in Tunnels \ {k} : \A i \in DOMAIN dataQ'[j] : active'[dataQ'[j][i].from] = j
                BY <2>1, <3>1, <3>2
            <4>3. QED
                BY <4>1, <4>2
        <3>4. QED
            BY <2>1, <2>3, <3>1, <3>3
    <2>4. CASE t2[k] # "ended" /\ ~(Len(dataQ[k]) < DataCap)
        BY <1>1, <2>1, <2>4 DEF Forward
    <2>5. QED
        BY <2>2, <2>3, <2>4
<1>2. ASSUME NEW a \in Addrs, NEW pkt \in Packets, NewSession(a, pkt)
      PROVE  Mapped' /\ QueuedIsMapped'
    <2>1. /\ srv'.addr = a /\ srv'.engine.sid = pkt.sid
          /\ active'[a] = pkt.sid /\ active[a] = None
          /\ \A b \in Addrs \ {a} : active'[b] = active[b]
          /\ UNCHANGED <<dataQ, t2>>
        BY <1>2 DEF NewSession, TypeOK
    <2>2. \A j \in Tunnels : \A i \in DOMAIN dataQ[j] : dataQ[j][i].from \in Addrs \ {a}
        BY <2>1, QueuedTypes
    <2>3. QED
        BY <2>1, <2>2
<1>3. ASSUME SendSignal PROVE Mapped' /\ QueuedIsMapped'
    BY <1>3 DEF SendSignal, TypeOK, Receiving
<1>4. ASSUME SendHello PROVE Mapped' /\ QueuedIsMapped'
    <2> DEFINE k == srv.engine.sid
               m == Hello(k, srv.addr)
    <2>1. srv # Receiving /\ k \in Tunnels /\ active[srv.addr] = k /\ m \in Packets /\ m.from = srv.addr
        BY <1>4, BusyLoop DEF SendHello, Receiving, Engines, Hello, Packets
    <2>2. srv' = Receiving /\ UNCHANGED <<active, t2>>
        BY <1>4 DEF SendHello
    <2>3. CASE UNCHANGED dataQ
        BY <2>2, <2>3
    <2>4. CASE t2[k] # "ended" /\ dataQ' = [dataQ EXCEPT ![k] = Append(@, m)]
        <3>1. /\ dataQ'[k] = Append(dataQ[k], m)
              /\ \A j \in Tunnels \ {k} : dataQ'[j] = dataQ[j]
            BY <2>1, <2>4 DEF TypeOK
        <3>2. \A i \in DOMAIN dataQ'[k] :
                 dataQ'[k][i] = m \/ (i \in DOMAIN dataQ[k] /\ dataQ'[k][i] = dataQ[k][i])
            BY <2>1, <3>1, Appended DEF TypeOK
        <3>3. QueuedIsMapped'
            <4>1. \A i \in DOMAIN dataQ'[k] : active'[dataQ'[k][i].from] = k
                BY <2>1, <2>2, <3>1, <3>2, ZenonT(60)
            <4>2. \A j \in Tunnels \ {k} : \A i \in DOMAIN dataQ'[j] : active'[dataQ'[j][i].from] = j
                BY <2>1, <2>2, <3>1, <3>2
            <4>3. QED
                BY <4>1, <4>2
        <3>4. QED
            BY <2>1, <2>2, <2>4, <3>1, <3>3
    <2>5. QED
        BY <1>4, <2>3, <2>4 DEF SendHello
<1>5. ASSUME NEW k \in Tunnels, Link(k) \/ T2Stall(k)
      PROVE  Mapped' /\ QueuedIsMapped'
    BY <1>5 DEF Link, T2Stall, TypeOK
<1>6. ASSUME NEW k \in Tunnels, Monitor(k) PROVE Mapped' /\ QueuedIsMapped'
    BY <1>6 DEF Monitor, MonitorTake, GuardDrop
<1>7. ASSUME NEW k \in Tunnels, T2Receive(k) PROVE Mapped' /\ QueuedIsMapped'
    <2>1. /\ dataQ'[k] = Tail(dataQ[k]) /\ dataQ[k] # <<>> /\ t2[k] = "on"
          /\ \A j \in Tunnels \ {k} : dataQ'[j] = dataQ[j]
          /\ UNCHANGED <<srv, active, t2>>
        BY <1>7 DEF T2Receive, TypeOK
    <2>2. \A i \in DOMAIN dataQ'[k] : i + 1 \in DOMAIN dataQ[k] /\ dataQ'[k][i] = dataQ[k][i + 1]
        BY <2>1, Taken DEF TypeOK
    <2>3. QueuedIsMapped'
        <3>1. \A i \in DOMAIN dataQ'[k] : active'[dataQ'[k][i].from] = k
            BY <2>1, <2>2
        <3>2. \A j \in Tunnels \ {k} : \A i \in DOMAIN dataQ'[j] : active'[dataQ'[j][i].from] = j
            BY <2>1, <2>2
        <3>3. QED
            BY <3>1, <3>2
    <2>4. QED
        BY <2>1, <2>3
<1>8. ASSUME NEW k \in Tunnels, T2End(k) PROVE Mapped' /\ QueuedIsMapped'
    <2>1. /\ dataQ'[k] = <<>> /\ \A j \in Tunnels \ {k} : dataQ'[j] = dataQ[j] /\ t2'[j] = t2[j]
          /\ UNCHANGED <<srv, active>>
        BY <1>8 DEF T2End, TypeOK
    <2>2. DOMAIN <<>> = {}
        OBVIOUS
    <2>3. QED
        BY <2>1, <2>2
<1>9. CASE UNCHANGED vars
    BY <1>9 DEF vars
<1>10. QED
    BY <1>1, <1>2, <1>3, <1>4, <1>5, <1>6, <1>7, <1>8, <1>9 DEF Next

-----------------------------------------------------------------------------

\* DtlsServer::run starts with empty maps and channels.
LEMMA InitInv == Init => Inv
<1> SUFFICES ASSUME Init PROVE Inv
    OBVIOUS
<1> USE DtlsAssumption DEF DtlsAssumption, Init
<1>1. TypeOK
    BY LoopTypes, EmptySeq DEF TypeOK
<1>2. EnginesHome /\ PtrsLive /\ PtrsApart /\ KeysOwn
    BY DEF EnginesHome, PtrsLive, PtrsApart, KeysOwn, InLoop, Used, Receiving
<1>3. PendingIsLive /\ Mapped /\ QueuedIsMapped
    BY DEF PendingIsLive, Mapped, QueuedIsMapped
<1>4. QED
    BY <1>1, <1>2, <1>3 DEF Inv

\* Every step of the UDP side preserves the invariant.
LEMMA StepInv == Inv /\ [Next]_vars => Inv'
BY TypeStep, EnginesStep, PendingStep, MappedStep DEF Inv, EnginesOK

\* The inductive invariant holds in every state of the specification.
THEOREM Invariant == Spec => []Inv
BY InitInv, StepInv, PTL DEF Spec

-----------------------------------------------------------------------------

\* Type correctness: neither channel of a tunnel outgrows its capacity.
THEOREM TypeCorrect == Spec => []TypeOK
<1>1. Inv => TypeOK
    BY DEF Inv
<1>2. QED
    BY <1>1, Invariant, PTL

\* The PSK callback finds the key of the tunnel the engine is for, or none: for
\* any number of engines, whichever addresses OpenSSL uses again and however
\* late a guard removes an old one.
THEOREM KeysNotSwapped == Spec => []KeyIsOwn
<1>1. Inv => KeyIsOwn
    BY DEF Inv, EnginesHome, KeysOwn, KeyIsOwn, Used
<1>2. QED
    BY <1>1, Invariant, PTL

\* The map of pending ids holds no more than the SSL objects that are alive and
\* those whose guard is about to run.
THEOREM PendingBounded == Spec => []PendingIsLive
<1>1. Inv => PendingIsLive
    BY DEF Inv
<1>2. QED
    BY <1>1, Invariant, PTL

\* A packet is in the channel of the tunnel its address is mapped to: the loop
\* takes no address from a tunnel that has packets of it queued.
THEOREM QueuedStayMapped == Spec => []QueuedIsMapped
<1>1. Inv => QueuedIsMapped
    BY DEF Inv
<1>2. QED
    BY <1>1, Invariant, PTL

\* An engine comes up in a step of task 2 alone: what the monitor stores is
\* fresh.
LEMMA UpStep ==
    Inv /\ [Next]_vars =>
        \A k \in Tunnels :
            (engine'[k] # None /\ engine'[k].hs = "up" /\ engine[k] # engine'[k])
            => Head(dataQ[k]).sid = k
<1> SUFFICES ASSUME Inv, [Next]_vars, NEW k \in Tunnels,
                    engine'[k] # None, engine'[k].hs = "up", engine[k] # engine'[k]
             PROVE  Head(dataQ[k]).sid = k
    OBVIOUS
<1>1. TypeOK /\ EnginesHome /\ KeysOwn
    BY DEF Inv
<1>2. ~MonitorTake(k)
    <2> SUFFICES ASSUME MonitorTake(k) PROVE FALSE
        OBVIOUS
    <2>1. engine'[k] = signalQ[k][1] /\ 1 \in DOMAIN signalQ[k]
        BY <1>1, LenProperties, EmptySeq DEF MonitorTake, TypeOK
    <2>2. QED
        BY <1>1, <2>1 DEF EnginesHome
<1>3. T2Receive(k)
    <2>1. \A j \in Tunnels \ {k} : (MonitorTake(j) \/ T2Receive(j)) => engine'[k] = engine[k]
        BY <1>1 DEF MonitorTake, T2Receive, TypeOK
    <2>2. QED
        BY <1>2, <2>1 DEF Next, vars, Forward, NewSession, SendSignal, SendHello, Link, Monitor,
            GuardDrop, T2Stall, T2End
<1>4. k \in Used /\ engine'[k] = Feed(engine[k], Head(dataQ[k]))
    BY <1>1, <1>3 DEF T2Receive, TypeOK, Used
<1>5. engine[k] \in Engines /\ Head(dataQ[k]) \in Packets
    BY <1>1, <1>3, <1>4, HeadTailProperties DEF T2Receive, TypeOK, Used
<1>6. KeyOf(engine[k]) = Head(dataQ[k]).sid
    BY <1>4, <1>5 DEF Feed, Engines
<1>7. KeyOf(engine[k]) \in {k, None} /\ Head(dataQ[k]).sid \in Tunnels
    BY <1>1, <1>4, <1>5 DEF EnginesHome, KeysOwn, KeyOf, Packets
<1>8. QED
    BY <1>6, <1>7, DtlsAssumption DEF DtlsAssumption

\* An engine that is up was brought up by a packet that proves the key of its
\* own session.
THEOREM HandshakesOwnKey == Spec => UpWithOwnKey
BY Invariant, UpStep, PTL DEF Spec, UpWithOwnKey
=============================================================================
