----------------------------- MODULE DtlsServer -----------------------------
(***************************************************************************)
(* The UDP side: the loop of DtlsServer::run (src/src/vpn/dtls.rs), the    *)
(* signal monitor and the DTLS branch of task 2 of each tunnel             *)
(* (src/src/vpn/tunnel.rs), and the SSL objects they pass around           *)
(* (src/src/vpn/dtls_engine.rs).                                           *)
(*                                                                         *)
(* A tunnel and its DTLS session have one name, for the CONNECT handler    *)
(* gives every session id to one tunnel.  The network may deliver any      *)
(* datagram of any client from any address at any time, so datagrams are   *)
(* lost, repeated and reordered at will.  Handshakes are PSK handshakes:   *)
(* a ClientHello, then the flight that makes OpenSSL call the PSK          *)
(* callback.  Later records change nothing that is modelled here.          *)
(***************************************************************************)
EXTENDS Naturals, Sequences

CONSTANTS Tunnels,     \* the linked DTLS sessions
          Addrs,       \* UDP source addresses
          Ptrs,        \* memory addresses OpenSSL gives to SSL objects
          None,
          DataCap,     \* capacity of the packet channel of a tunnel (1024)
          SignalCap    \* capacity of the signal channel of a tunnel (10)

ASSUME DtlsAssumption ==
    /\ DataCap \in Nat \ {0} /\ SignalCap \in Nat \ {0}
    /\ None \notin Tunnels \cup Addrs \cup Ptrs

VARIABLES
    srv,       \* where the loop is: [at, addr, engine]
    active,    \* active_sessions: the tunnel an address belongs to
    pending,   \* pending_session_ids: SSL pointer -> session id
    live,      \* the pointers of the SSL objects that are not freed
    t2,        \* task 2 of the tunnel: "off", "on", "stalled" or "ended"
    dataQ,     \* the packet channel, tun_tx to dtls_rx
    signalQ,   \* the signal channel, dtls_signal_tx to dtls_signal_rx
    engine,    \* dtls_state of the tunnel
    dropping   \* the pointer the monitor has freed and not yet cleaned up

vars == <<srv, active, pending, live, t2, dataQ, signalQ, engine, dropping>>

\* A datagram: "hello" carries the session id sid, "kex" proves the key of sid.
Packets == [kind : {"hello", "kex"}, sid : Tunnels, from : Addrs]

Hello(k, a) == [kind |-> "hello", sid |-> k, from |-> a]

\* DtlsEngine: its SSL pointer, the session it was made for, its handshake.
Engines == [ptr : Ptrs, sid : Tunnels, hs : {"new", "hello", "up", "failed"}]

ASSUME NoneIsNoEngine == None \notin Engines

Receiving == [at |-> "recv", addr |-> None, engine |-> None]

Init ==
    /\ srv = Receiving
    /\ active   = [a \in Addrs |-> None]
    /\ pending  = [p \in Ptrs |-> None]
    /\ live     = {}
    /\ t2       = [k \in Tunnels |-> "off"]
    /\ dataQ    = [k \in Tunnels |-> <<>>]
    /\ signalQ  = [k \in Tunnels |-> <<>>]
    /\ engine   = [k \in Tunnels |-> None]
    /\ dropping = [k \in Tunnels |-> None]

-----------------------------------------------------------------------------
(* The loop *)

\* A mutated form: an error of try_send always drops the mapping.
ForwardUnmapping(a, pkt) ==
    LET k == active[a] IN
    /\ srv = Receiving /\ k # None
    /\ IF t2[k] # "ended" /\ Len(dataQ[k]) < DataCap
       THEN dataQ' = [dataQ EXCEPT ![k] = Append(@, pkt)] /\ UNCHANGED active
       ELSE active' = [active EXCEPT ![a] = None] /\ UNCHANGED dataQ
    /\ UNCHANGED <<srv, pending, live, t2, signalQ, engine, dropping>>

\* A datagram from a known address goes to its tunnel by try_send: it is
\* dropped when the channel is full, and the mapping with it when closed.
Forward(a, pkt) ==
    LET k == active[a] IN
    /\ srv = Receiving /\ k # None
    /\ dataQ' = IF t2[k] # "ended" /\ Len(dataQ[k]) < DataCap
                THEN [dataQ EXCEPT ![k] = Append(@, pkt)] ELSE dataQ
    /\ active' = IF t2[k] = "ended" THEN [active EXCEPT ![a] = None] ELSE active
    /\ UNCHANGED <<srv, pending, live, t2, signalQ, engine, dropping>>

\* A mutated form: entry().or_insert in place of insert.
NewSessionKeeping(a, pkt) ==
    /\ srv = Receiving /\ active[a] = None
    /\ pkt.kind = "hello" /\ t2[pkt.sid] # "off"
    /\ \E p \in Ptrs \ live :
          /\ live' = live \cup {p}
          /\ pending' = [pending EXCEPT ![p] = IF @ = None THEN pkt.sid ELSE @]
          /\ srv' = [at |-> "signal", addr |-> a,
                     engine |-> [ptr |-> p, sid |-> pkt.sid, hs |-> "new"]]
    /\ active' = [active EXCEPT ![a] = pkt.sid]
    /\ UNCHANGED <<t2, dataQ, signalQ, engine, dropping>>

\* A ClientHello from an unknown address: a new engine is made, its pointer is
\* mapped to the session id and the address to the tunnel.  Nothing happens
\* when the session has no channels yet, or for any other datagram.
NewSession(a, pkt) ==
    /\ srv = Receiving /\ active[a] = None
    /\ pkt.kind = "hello" /\ t2[pkt.sid] # "off"
    /\ \E p \in Ptrs \ live :
          /\ live' = live \cup {p}
          /\ pending' = [pending EXCEPT ![p] = pkt.sid]
          /\ srv' = [at |-> "signal", addr |-> a,
                     engine |-> [ptr |-> p, sid |-> pkt.sid, hs |-> "new"]]
    /\ active' = [active EXCEPT ![a] = pkt.sid]
    /\ UNCHANGED <<t2, dataQ, signalQ, engine, dropping>>

\* A mutated form: the channel has no limit.
SendSignalUnbounded ==
    LET k == srv.engine.sid IN
    /\ srv.at = "signal"
    /\ signalQ' = [signalQ EXCEPT ![k] = Append(@, srv.engine)]
    /\ srv' = [srv EXCEPT !.at = "hello"]
    /\ UNCHANGED <<active, pending, live, t2, dataQ, engine, dropping>>

\* signal_tx.send().await waits for room.  It cannot fail: the session store
\* keeps a sender, so the monitor never leaves its loop.
SendSignal ==
    LET k == srv.engine.sid IN
    /\ srv.at = "signal"
    /\ Len(signalQ[k]) < SignalCap
    /\ signalQ' = [signalQ EXCEPT ![k] = Append(@, srv.engine)]
    /\ srv' = [srv EXCEPT !.at = "hello"]
    /\ UNCHANGED <<active, pending, live, t2, dataQ, engine, dropping>>

\* tun_tx.send(ClientHello).await waits for room, or fails when closed.
SendHello ==
    LET k == srv.engine.sid IN
    /\ srv.at = "hello"
    /\ \/ /\ t2[k] = "ended"
          /\ UNCHANGED dataQ
       \/ /\ t2[k] # "ended" /\ Len(dataQ[k]) < DataCap
          /\ dataQ' = [dataQ EXCEPT ![k] = Append(@, Hello(k, srv.addr))]
    /\ srv' = Receiving
    /\ UNCHANGED <<active, pending, live, t2, signalQ, engine, dropping>>

-----------------------------------------------------------------------------
(* The tunnels *)

\* The CONNECT handler links the session and runs the tunnel.
Link(k) ==
    /\ t2[k] = "off"
    /\ t2' = [t2 EXCEPT ![k] = "on"]
    /\ UNCHANGED <<srv, active, pending, live, dataQ, signalQ, engine, dropping>>

\* A mutated form: if let in place of while let, the monitor takes one engine.
MonitorOnce(k) ==
    /\ signalQ[k] # <<>> /\ engine[k] = None
    /\ signalQ' = [signalQ EXCEPT ![k] = Tail(@)]
    /\ engine' = [engine EXCEPT ![k] = Head(signalQ[k])]
    /\ UNCHANGED <<srv, active, pending, live, t2, dataQ, dropping>>

\* The monitor receives an engine and stores it under the mutex of
\* dtls_state.  An engine that is there is dropped: first its SSL object is
\* freed, and then, in a second step, its guard removes the pointer.
MonitorTake(k) ==
    /\ signalQ[k] # <<>> /\ dropping[k] = None
    /\ signalQ' = [signalQ EXCEPT ![k] = Tail(@)]
    /\ engine' = [engine EXCEPT ![k] = Head(signalQ[k])]
    /\ IF engine[k] = None
       THEN UNCHANGED <<live, dropping>>
       ELSE /\ live' = live \ {engine[k].ptr}
            /\ dropping' = [dropping EXCEPT ![k] = engine[k].ptr]
    /\ UNCHANGED <<srv, active, pending, t2, dataQ>>

\* A mutated form: the engine carries no guard.
NoGuard(k) ==
    /\ dropping[k] # None
    /\ dropping' = [dropping EXCEPT ![k] = None]
    /\ UNCHANGED <<srv, active, pending, live, t2, dataQ, signalQ, engine>>

GuardDrop(k) ==
    /\ dropping[k] # None
    /\ pending' = [pending EXCEPT ![dropping[k]] = None]
    /\ dropping' = [dropping EXCEPT ![k] = None]
    /\ UNCHANGED <<srv, active, live, t2, dataQ, signalQ, engine>>

\* The PSK callback looks the pointer of the SSL object up: the session whose
\* key it returns, or None for no key.
KeyOf(e) == pending[e.ptr]

\* feed_encrypted: the handshake succeeds when both sides have one key.
Feed(e, pkt) ==
    CASE e.hs = "new" /\ pkt.kind = "hello" -> [e EXCEPT !.hs = "hello"]
      [] e.hs = "hello" /\ pkt.kind = "kex" ->
            [e EXCEPT !.hs = IF KeyOf(e) = pkt.sid THEN "up" ELSE "failed"]
      [] OTHER -> e

\* Task 2 takes an encrypted packet.  It waits for the mutex while the monitor
\* holds it; without an engine the packet is dropped.
T2Receive(k) ==
    /\ t2[k] = "on" /\ dataQ[k] # <<>> /\ dropping[k] = None
    /\ dataQ' = [dataQ EXCEPT ![k] = Tail(@)]
    /\ engine' = IF engine[k] = None THEN engine
                 ELSE [engine EXCEPT ![k] = Feed(@, Head(dataQ[k]))]
    /\ UNCHANGED <<srv, active, pending, live, t2, signalQ, dropping>>

\* Task 2 waits in control_tx.send while task 1 waits in a TLS write for a
\* peer that does not read, and goes on when the peer reads again.
T2Stall(k) ==
    /\ \/ t2[k] = "on" /\ t2' = [t2 EXCEPT ![k] = "stalled"]
       \/ t2[k] = "stalled" /\ t2' = [t2 EXCEPT ![k] = "on"]
    /\ UNCHANGED <<srv, active, pending, live, dataQ, signalQ, engine, dropping>>

\* Task 2 ends and drops dtls_rx.  The monitor goes on, with the engine.
T2End(k) ==
    /\ t2[k] = "on"
    /\ t2' = [t2 EXCEPT ![k] = "ended"]
    /\ dataQ' = [dataQ EXCEPT ![k] = <<>>]
    /\ UNCHANGED <<srv, active, pending, live, signalQ, engine, dropping>>

Monitor(k) == MonitorTake(k) \/ GuardDrop(k)

Next ==
    \/ \E a \in Addrs : \E pkt \in Packets :
          /\ pkt.from = a
          /\ Forward(a, pkt) \/ NewSession(a, pkt)
    \/ SendSignal \/ SendHello
    \/ \E k \in Tunnels : Link(k) \/ Monitor(k) \/ T2Receive(k) \/ T2Stall(k) \/ T2End(k)

Spec == Init /\ [][Next]_vars

\* The runtime polls every task that can run.  Nothing is assumed of clients:
\* of no datagram, and not that a stalled peer reads again.
Fairness ==
    /\ WF_vars(SendSignal) /\ WF_vars(SendHello)
    /\ \A k \in Tunnels : WF_vars(Monitor(k)) /\ WF_vars(T2Receive(k))

FairSpec == Spec /\ Fairness

-----------------------------------------------------------------------------
(* Properties that hold *)

TypeOK ==
    /\ srv \in [at : {"recv", "signal", "hello"}, addr : Addrs \cup {None},
                engine : Engines \cup {None}]
    /\ srv # Receiving => srv.at # "recv" /\ srv.addr # None /\ srv.engine # None
    /\ active \in [Addrs -> Tunnels \cup {None}]
    /\ pending \in [Ptrs -> Tunnels \cup {None}]
    /\ live \subseteq Ptrs
    /\ t2 \in [Tunnels -> {"off", "on", "stalled", "ended"}]
    /\ dataQ \in [Tunnels -> Seq(Packets)] /\ signalQ \in [Tunnels -> Seq(Engines)]
    /\ \A k \in Tunnels : Len(dataQ[k]) <= DataCap /\ Len(signalQ[k]) <= SignalCap
    /\ engine \in [Tunnels -> Engines \cup {None}]
    /\ dropping \in [Tunnels -> Ptrs \cup {None}]

\* The key that completes a handshake is the key of the tunnel it is for.
\* SSL objects are named by their address, addresses are used again, and the
\* removal of an old name may come late: it can lose a key, never swap two.
KeyIsOwn ==
    \A k \in Tunnels : engine[k] # None =>
        /\ engine[k].sid = k
        /\ pending[engine[k].ptr] \in {k, None}

\* An engine that is up was brought up with the key of its own session.
UpWithOwnKey ==
    [][\A k \in Tunnels :
          (engine'[k] # None /\ engine'[k].hs = "up" /\ engine[k] # engine'[k])
          => Head(dataQ[k]).sid = k]_vars

\* The map of pending ids does not outgrow the SSL objects: a pointer in it is
\* alive, or its guard is about to remove it.
PendingIsLive ==
    \A p \in Ptrs : pending[p] # None =>
        p \in live \/ \E k \in Tunnels : dropping[k] = p

\* A queued packet came from an address that still belongs to the tunnel: a
\* full queue costs the packet, and never the mapping of the client.
QueuedIsMapped ==
    \A k \in Tunnels : \A i \in DOMAIN dataQ[k] : active[dataQ[k][i].from] = k

\* The loop that serves every client returns to its socket again and again.
\* Waiting for room in the channels of one tunnel can stop it for good only
\* while the TLS peer of a tunnel does not read: for no flood of datagrams, no
\* end of a tunnel and no order in which engines and packets are queued.
LoopReturns ==
    <>[](\A k \in Tunnels : t2[k] # "stalled") => []<>(srv = Receiving)

-----------------------------------------------------------------------------
(* What the documentation says and the code does not do *)

\* The id of an SSL object is in the map from before its handshake to its end.
Handshaking ==
    {e \in {engine[k] : k \in {j \in Tunnels : t2[j] = "on"}} \ {None} :
        e.hs \in {"new", "hello"}}

PopulatedBeforeHandshake == \A e \in Handshaking : pending[e.ptr] = e.sid
=============================================================================
