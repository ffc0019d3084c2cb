------------------------- MODULE ServerProcessProofs -------------------------
(***************************************************************************)
(* Proofs about ServerProcess for any number of processes, control clients *)
(* and disturbances, and about DtlsOffer for any lists of ciphers.         *)
(***************************************************************************)
EXTENDS ServerProcess, Induction

\* One process has the TCP port.
PortHeld == \A p, q \in Procs : Listens(p) /\ Listens(q) => p = q

\* main ends its accept loop by an error only.
EndingSeen == \A p \in Procs : main[p] = "ending" => overlapped

\* Between the removal of the socket file and the bind nobody else binds.
PathFree == overlapped \/ (\A p \in Procs : control[p] = "bind" => sock = None)

\* The table of a server that has a command to answer is one the client may see.
TableSeen ==
    \A c \in Clients : (ctl[c].at = "asked" /\ ctl[c].sent = "command") =>
        listed[ctl[c].proc] \in ctl[c].seen

\* The inductive invariant.  Ports and paths are free because the TCP port
\* keeps two processes from serving at the same time.
Inv == TypeOK /\ PortHeld /\ EndingSeen /\ PathFree /\ TableSeen /\ NoneInTheWay

-----------------------------------------------------------------------------
(* Stages of main *)

\* A process that is gone leaves a stale socket file at most.
LEMMA EndInv ==
    ASSUME Inv, NEW p \in Procs, NEW how \in {"down", "failed"}, End(p, how),
           UNCHANGED <<cert, overlapped>>, budget' \in 0 .. Disturbances
    PROVE  Inv'
<1>1. /\ main' = [main EXCEPT ![p] = how]
      /\ dtls' = [dtls EXCEPT ![p] = "off"] /\ context' = [context EXCEPT ![p] = None]
      /\ suites' = [suites EXCEPT ![p] = None]
      /\ control' = [control EXCEPT ![p] = "off"] /\ listed' = [listed EXCEPT ![p] = {}]
      /\ sock' = IF sock = p THEN "stale" ELSE sock
    BY DEF End, Goto
<1>2. /\ main' \in [Procs -> Starting \cup {"down", "failed", "accept", "ending"}]
      /\ main'[p] = how /\ dtls'[p] = "off" /\ context'[p] = None /\ control'[p] = "off"
      /\ suites'[p] = None /\ listed'[p] = {}
      /\ \A q \in Procs \ {p} : /\ main'[q] = main[q] /\ dtls'[q] = dtls[q]
                                /\ context'[q] = context[q] /\ control'[q] = control[q]
                                /\ suites'[q] = suites[q] /\ listed'[q] = listed[q]
    BY <1>1 DEF Inv, TypeOK, Starting
<1>3. sock' # p /\ (sock' \in Procs => sock' = sock) /\ (sock = None => sock' = None)
    BY <1>1, ProcessAssumption DEF ProcessAssumption
<1>4. \A c \in Clients :
         /\ ctl'[c] \in {ctl[c], NoClient}
         /\ (InFlight(c) /\ ctl[c].proc = p) => ctl'[c] = NoClient
    BY DEF End
<1>5. NoClient.at = "idle" /\ NoClient \in [at : {"idle", "asked", "reply"}, proc : Procs \cup {None},
            sent : {"none", "command", "part"}, rows : Rows, seen : SUBSET Rows]
    BY DEF NoClient, Rows
<1>6. ctl' \in [Clients -> [at : {"idle", "asked", "reply"}, proc : Procs \cup {None},
            sent : {"none", "command", "part"}, rows : Rows, seen : SUBSET Rows]]
    BY <1>5 DEF End, Inv, TypeOK
<1>7. \A c \in Clients : InFlight(c)' =>
         /\ ctl'[c] = ctl[c] /\ InFlight(c) /\ ctl[c].proc # p
         /\ ctl[c].proc # None /\ ctl[c].proc \in Procs
    BY <1>4, <1>5 DEF Inv, TypeOK, InFlight
<1>8. TypeOK'
    <2>1. \A c \in Clients : InFlight(c)' => ctl'[c].proc # None /\ control'[ctl'[c].proc] = "listening"
        BY <1>2, <1>7 DEF Inv, TypeOK
    <2>2. \A q \in Procs : ~(main'[q] \in {"accept", "ending"}) =>
             dtls'[q] = "off" /\ control'[q] = "off" /\ listed'[q] = {}
        BY <1>2 DEF Inv, TypeOK
    <2>3. \A q \in Procs : /\ HasUdp(q)' <=> context'[q] # None
                           /\ dtls'[q] = "serving" <=> suites'[q] # None
        BY <1>2 DEF Inv, TypeOK, HasUdp
    <2>4. sock' \in Procs \cup {"stale", None} /\ (sock' \in Procs => control'[sock'] = "listening")
        BY <1>1, <1>2, <1>3 DEF Inv, TypeOK
    <2>5. /\ dtls' \in [Procs -> {"off", "spawned", "loading", "serving", "failed", "in-use"}]
          /\ context' \in [Procs -> Keys \cup {None}] /\ suites' \in [Procs -> Keys \cup {None}]
          /\ control' \in [Procs -> {"off", "spawned", "bind", "listening", "failed", "in-use"}]
          /\ listed' \in [Procs -> Rows]
        BY <1>1 DEF Inv, TypeOK, Rows
    <2>6. cert' \in Keys \cup {"missing"} /\ overlapped' \in BOOLEAN /\ budget' \in 0 .. Disturbances
        BY DEF Inv, TypeOK
    <2>7. QED
        BY <1>2, <1>6, <2>1, <2>2, <2>3, <2>4, <2>5, <2>6 DEF TypeOK
<1>9. PortHeld' /\ EndingSeen'
    BY <1>2 DEF Inv, PortHeld, EndingSeen, Listens
<1>10. PathFree'
    BY <1>2, <1>3 DEF Inv, PathFree
<1>11. TableSeen'
    BY <1>2, <1>7 DEF Inv, TableSeen, InFlight
<1>12. NoneInTheWay'
    BY <1>2 DEF Inv, NoneInTheWay
<1>13. QED
    BY <1>8, <1>9, <1>10, <1>11, <1>12 DEF Inv

\* A step of the start, before anything is spawned.
LEMMA StageInv ==
    ASSUME Inv, NEW p \in Procs, main[p] \notin {"accept", "ending"},
           NEW stage \in Starting, Goto(p, stage), UNCHANGED <<tasks, listed, ctl, world>>,
           stage = "state" => ~\E q \in Procs : Listens(q)
    PROVE  Inv'
<1>1. UNCHANGED <<dtls, context, suites, control, sock, listed, ctl, cert, budget, overlapped>>
    BY DEF tasks, world
<1>2. /\ main' \in [Procs -> Starting \cup {"down", "failed", "accept", "ending"}]
      /\ main'[p] = stage /\ stage \notin {"accept", "ending"}
      /\ \A q \in Procs \ {p} : main'[q] = main[q]
    BY DEF Goto, Inv, TypeOK, Starting
<1>3. TypeOK'
    BY <1>1, <1>2 DEF Inv, TypeOK, InFlight, HasUdp
<1>4. PortHeld' /\ EndingSeen'
    BY <1>1, <1>2 DEF Inv, PortHeld, EndingSeen, Listens
<1>5. PathFree' /\ TableSeen' /\ NoneInTheWay'
    BY <1>1 DEF Inv, PathFree, TableSeen, NoneInTheWay
<1>6. QED
    BY <1>3, <1>4, <1>5 DEF Inv

\* main keeps its port while it starts the tasks and comes to accept.
LEMMA SpawnInv ==
    ASSUME Inv, NEW p \in Procs, Spawn(p)
    PROVE  Inv'
<1>1. /\ main[p] = "state" /\ main' = [main EXCEPT ![p] = "accept"]
      /\ dtls' \in {[dtls EXCEPT ![p] = "spawned"], dtls}
      /\ control' = [control EXCEPT ![p] = "spawned"]
      /\ UNCHANGED <<context, suites, sock, listed, ctl, cert, budget, overlapped>>
    BY DEF Spawn, Goto, world
<1>2. dtls[p] = "off" /\ control[p] = "off" /\ context[p] = None /\ suites[p] = None
    BY <1>1 DEF Inv, TypeOK, HasUdp
<1>3. /\ main'[p] = "accept" /\ dtls'[p] \in {"off", "spawned"} /\ control'[p] = "spawned"
      /\ \A q \in Procs \ {p} : main'[q] = main[q] /\ dtls'[q] = dtls[q] /\ control'[q] = control[q]
      /\ main' \in [Procs -> Starting \cup {"down", "failed", "accept", "ending"}]
      /\ dtls' \in [Procs -> {"off", "spawned", "loading", "serving", "failed", "in-use"}]
      /\ control' \in [Procs -> {"off", "spawned", "bind", "listening", "failed", "in-use"}]
    BY <1>1, <1>2 DEF Inv, TypeOK
<1>4. TypeOK'
    <2>1. \A c \in Clients : InFlight(c)' => ctl'[c].proc # None /\ control'[ctl'[c].proc] = "listening"
        BY <1>1, <1>2, <1>3 DEF Inv, TypeOK, InFlight
    <2>2. \A q \in Procs : ~(main'[q] \in {"accept", "ending"}) =>
             dtls'[q] = "off" /\ control'[q] = "off" /\ listed'[q] = {}
        BY <1>1, <1>3 DEF Inv, TypeOK
    <2>3. \A q \in Procs : /\ HasUdp(q)' <=> context'[q] # None
                           /\ dtls'[q] = "serving" <=> suites'[q] # None
        BY <1>1, <1>2, <1>3 DEF Inv, TypeOK, HasUdp
    <2>4. sock' \in Procs => control'[sock'] = "listening"
        BY <1>1, <1>2, <1>3 DEF Inv, TypeOK
    <2>5. QED
        BY <1>1, <1>3, <2>1, <2>2, <2>3, <2>4 DEF Inv, TypeOK, HasUdp
<1>5. PortHeld' /\ EndingSeen' /\ PathFree'
    BY <1>1, <1>3 DEF Inv, PortHeld, EndingSeen, PathFree, Listens
<1>6. TableSeen' /\ NoneInTheWay'
    BY <1>1, <1>3 DEF Inv, TableSeen, NoneInTheWay
<1>7. QED
    BY <1>4, <1>5, <1>6 DEF Inv

\* An error of accept is remembered in overlapped.
LEMMA AcceptFailsInv ==
    ASSUME Inv, NEW p \in Procs, AcceptFails(p)
    PROVE  Inv'
<1>1. /\ main[p] = "accept" /\ main' = [main EXCEPT ![p] = "ending"] /\ overlapped' = TRUE
      /\ UNCHANGED <<dtls, context, suites, control, sock, listed, ctl, cert>>
      /\ budget' \in 0 .. Disturbances
    BY ProcessAssumption DEF AcceptFails, Goto, tasks, Disturb, Inv, TypeOK, ProcessAssumption
<1>2. /\ main'[p] = "ending"
      /\ \A q \in Procs \ {p} : main'[q] = main[q]
      /\ main' \in [Procs -> Starting \cup {"down", "failed", "accept", "ending"}]
    BY <1>1 DEF Inv, TypeOK
<1>3. TypeOK'
    BY <1>1, <1>2 DEF Inv, TypeOK, InFlight, HasUdp
<1>4. PortHeld' /\ EndingSeen' /\ PathFree' /\ TableSeen' /\ NoneInTheWay'
    BY <1>1, <1>2 DEF Inv, PortHeld, EndingSeen, PathFree, TableSeen, NoneInTheWay, Listens
<1>5. QED
    BY <1>3, <1>4 DEF Inv

-----------------------------------------------------------------------------
(* The DTLS and control tasks *)

\* Without an error of accept, one process has spawned tasks.
LEMMA OneServes ==
    ASSUME Inv, ~overlapped, NEW p \in Procs, NEW q \in Procs,
           main[p] \in {"accept", "ending"}, main[q] \in {"accept", "ending"}
    PROVE  p = q
BY DEF Inv, EndingSeen, PortHeld, Listens

\* A disturbance uses one of those that are left.
LEMMA BudgetLeft ==
    ASSUME Inv, Disturb
    PROVE  budget' \in 0 .. Disturbances
BY ProcessAssumption DEF Inv, TypeOK, Disturb, ProcessAssumption

\* A step of the DTLS task of p: how it goes on, and what it has loaded.
LEMMA DtlsTaskInv ==
    ASSUME Inv, NEW p \in Procs, dtls[p] # "off",
           NEW how \in {"loading", "serving", "failed", "in-use"}, SetDtls(p, how),
           how = "in-use" => overlapped,
           UNCHANGED <<main, control, sock, listed, ctl, cert, overlapped>>,
           NEW key \in Keys \cup {None}, context' = [context EXCEPT ![p] = key],
           NEW set \in Keys \cup {None}, suites' = [suites EXCEPT ![p] = set],
           how \in {"loading", "serving"} <=> key # None, how = "serving" <=> set # None,
           budget' \in 0 .. Disturbances
    PROVE  Inv'
<1>1. /\ dtls'[p] = how /\ context'[p] = key /\ suites'[p] = set
      /\ \A q \in Procs \ {p} : /\ dtls'[q] = dtls[q] /\ context'[q] = context[q]
                                /\ suites'[q] = suites[q]
      /\ dtls' \in [Procs -> {"off", "spawned", "loading", "serving", "failed", "in-use"}]
      /\ context' \in [Procs -> Keys \cup {None}] /\ suites' \in [Procs -> Keys \cup {None}]
    BY DEF SetDtls, Inv, TypeOK
<1>2. TypeOK'
    <2>1. \A q \in Procs : /\ HasUdp(q)' <=> context'[q] # None
                           /\ dtls'[q] = "serving" <=> suites'[q] # None
        BY <1>1 DEF Inv, TypeOK, HasUdp
    <2>2. QED
        BY <1>1, <2>1 DEF Inv, TypeOK, InFlight, HasUdp
<1>3. PortHeld' /\ EndingSeen' /\ PathFree' /\ TableSeen'
    BY DEF Inv, PortHeld, EndingSeen, PathFree, TableSeen, Listens
<1>4. NoneInTheWay'
    BY <1>1 DEF Inv, NoneInTheWay
<1>5. QED
    BY <1>2, <1>3, <1>4 DEF Inv

\* A certificate that is there is one of the operator's.
LEMMA CertKey ==
    ASSUME Inv, cert # "missing"
    PROVE  cert \in Keys /\ cert # None
BY ProcessAssumption DEF ProcessAssumption, Inv, TypeOK

\* The UDP port is taken by another process only.
LEMMA DtlsNewInv ==
    ASSUME Inv, NEW p \in Procs, DtlsNew(p)
    PROVE  Inv'
<1>1. /\ dtls[p] = "spawned" /\ main[p] \in {"accept", "ending"}
      /\ UNCHANGED <<main, control, sock, listed, ctl, cert, overlapped>>
      /\ budget' \in 0 .. Disturbances
    BY DEF DtlsNew, world, Inv, TypeOK
<1>2. context[p] = None /\ suites[p] = None
    BY <1>1 DEF HasUdp, Inv, TypeOK
<1>3. /\ suites' = [suites EXCEPT ![p] = None]
      /\ context' = context => context' = [context EXCEPT ![p] = None]
    BY <1>2 DEF DtlsNew, Inv, TypeOK
<1>4. CASE \E q \in Procs : HasUdp(q)
    <2>1. PICK q \in Procs : HasUdp(q)
        BY <1>4
    <2>2. main[q] \in {"accept", "ending"} /\ q # p
        BY <1>1, <2>1 DEF Inv, TypeOK, HasUdp
    <2>3. overlapped
        BY <1>1, <2>2, OneServes
    <2>4. SetDtls(p, "in-use") /\ context' = context
        BY <1>4 DEF DtlsNew
    <2>5. QED
        BY <1>1, <1>3, <2>3, <2>4, DtlsTaskInv
<1>5. CASE ~(\E q \in Procs : HasUdp(q)) /\ cert = "missing"
    <2>1. SetDtls(p, "failed") /\ context' = context
        BY <1>5 DEF DtlsNew
    <2>2. QED
        BY <1>1, <1>3, <2>1, DtlsTaskInv
<1>6. CASE ~(\E q \in Procs : HasUdp(q)) /\ cert # "missing"
    <2>1. SetDtls(p, "loading") /\ context' = [context EXCEPT ![p] = cert]
        BY <1>6 DEF DtlsNew
    <2>2. cert \in Keys \cup {None} /\ cert # None
        BY <1>6, CertKey
    <2>3. QED
        BY <1>1, <1>3, <2>1, <2>2, DtlsTaskInv
<1>7. QED
    BY <1>4, <1>5, <1>6

\* The second read of the certificate sets the ciphers, or ends the server.
LEMMA DtlsSuitesInv ==
    ASSUME Inv, NEW p \in Procs, DtlsSuites(p)
    PROVE  Inv'
<1>1. /\ dtls[p] = "loading"
      /\ UNCHANGED <<main, control, sock, listed, ctl, cert, overlapped>>
      /\ budget' \in 0 .. Disturbances
    BY DEF DtlsSuites, world, Inv, TypeOK
<1>2. context[p] \in Keys \ {None} /\ suites[p] = None
    BY <1>1 DEF HasUdp, Inv, TypeOK
<1>3. CASE cert = "missing"
    <2>1. /\ SetDtls(p, "failed") /\ context' = [context EXCEPT ![p] = None]
          /\ suites' = [suites EXCEPT ![p] = None]
        BY <1>2, <1>3 DEF DtlsSuites, Inv, TypeOK
    <2>2. QED
        BY <1>1, <2>1, DtlsTaskInv
<1>4. CASE cert # "missing"
    <2>1. /\ SetDtls(p, "serving") /\ suites' = [suites EXCEPT ![p] = cert]
          /\ context' = [context EXCEPT ![p] = context[p]]
        BY <1>4 DEF DtlsSuites, Inv, TypeOK
    <2>2. QED
        BY <1>1, <1>2, <1>4, <2>1, CertKey, DtlsTaskInv
<1>5. QED
    BY <1>3, <1>4

\* The DTLS server ends by an error, and its certificate with it.
LEMMA DtlsFailsInv ==
    ASSUME Inv, NEW p \in Procs, DtlsFails(p)
    PROVE  Inv'
<1>1. /\ dtls[p] # "off" /\ SetDtls(p, "failed")
      /\ context' = [context EXCEPT ![p] = None] /\ suites' = [suites EXCEPT ![p] = None]
      /\ UNCHANGED <<main, control, sock, listed, ctl, cert, overlapped>>
    BY DEF DtlsFails, HasUdp
<1>2. budget' \in 0 .. Disturbances
    BY BudgetLeft DEF DtlsFails
<1>3. QED
    BY <1>1, <1>2, DtlsTaskInv

\* A step of a control task that does not listen yet: no client waits for it.
LEMMA ControlTaskInv ==
    ASSUME Inv, NEW p \in Procs, control[p] \in {"spawned", "bind"},
           NEW how \in {"bind", "listening", "failed", "in-use"}, SetControl(p, how),
           how = "in-use" => overlapped,
           sock' \in {sock, None} \/ sock' = p, sock' = p => how = "listening",
           PathFree',
           UNCHANGED <<main, dtls, context, suites, listed, ctl, cert, overlapped>>,
           budget' \in 0 .. Disturbances
    PROVE  Inv'
<1>1. /\ control'[p] = how
      /\ \A q \in Procs \ {p} : control'[q] = control[q]
      /\ control' \in [Procs -> {"off", "spawned", "bind", "listening", "failed", "in-use"}]
    BY DEF SetControl, Inv, TypeOK
<1>2. main[p] \in {"accept", "ending"}
    BY DEF Inv, TypeOK
<1>3. sock # p
    BY DEF Inv, TypeOK
<1>4. \A c \in Clients : InFlight(c) => ctl[c].proc # p /\ ctl[c].proc \in Procs
    BY DEF Inv, TypeOK
<1>5. None \notin Procs
    BY ProcessAssumption DEF ProcessAssumption
<1>6. TypeOK'
    <2>1. \A c \in Clients : InFlight(c)' => ctl'[c].proc # None /\ control'[ctl'[c].proc] = "listening"
        BY <1>1, <1>4 DEF Inv, TypeOK, InFlight
    <2>2. \A q \in Procs : ~(main'[q] \in {"accept", "ending"}) =>
             dtls'[q] = "off" /\ control'[q] = "off" /\ listed'[q] = {}
        BY <1>1, <1>2 DEF Inv, TypeOK
    <2>3. sock' \in Procs \cup {"stale", None} /\ (sock' \in Procs => control'[sock'] = "listening")
        BY <1>1, <1>3, <1>5 DEF Inv, TypeOK
    <2>4. QED
        BY <1>1, <2>1, <2>2, <2>3 DEF Inv, TypeOK, HasUdp
<1>7. PortHeld' /\ EndingSeen' /\ TableSeen'
    BY DEF Inv, PortHeld, EndingSeen, TableSeen, Listens
<1>8. NoneInTheWay'
    BY <1>1 DEF Inv, NoneInTheWay
<1>9. QED
    BY <1>6, <1>7, <1>8 DEF Inv

\* The control server removes the socket file, binds the path, or fails.
LEMMA ControlInv ==
    ASSUME Inv, NEW p \in Procs, ControlUnlink(p) \/ ControlBind(p) \/ ControlFails(p)
    PROVE  Inv'
<1>1. CASE ControlUnlink(p)
    <2>1. /\ control[p] = "spawned" /\ SetControl(p, "bind") /\ sock' = None
          /\ UNCHANGED <<main, dtls, context, suites, listed, ctl, cert, overlapped>>
          /\ budget' \in 0 .. Disturbances
        BY <1>1 DEF ControlUnlink, world, Inv, TypeOK
    <2>2. PathFree' /\ None # p
        BY <2>1, ProcessAssumption DEF PathFree, ProcessAssumption
    <2>3. QED
        BY <2>1, <2>2, ControlTaskInv
<1>2. CASE ControlBind(p) /\ sock = None
    <2>1. /\ control[p] = "bind" /\ SetControl(p, "listening") /\ sock' = p
          /\ UNCHANGED <<main, dtls, context, suites, listed, ctl, cert, overlapped>>
          /\ budget' \in 0 .. Disturbances
        BY <1>2 DEF ControlBind, world, Inv, TypeOK
    <2>2. PathFree'
        <3>1. \A q \in Procs : control'[q] = "bind" => control[q] = "bind" /\ q # p
            BY <2>1 DEF SetControl, Inv, TypeOK
        <3>2. \A q \in Procs : control[q] = "bind" => main[q] \in {"accept", "ending"}
            BY DEF Inv, TypeOK
        <3>3. QED
            BY <2>1, <3>1, <3>2, OneServes DEF PathFree
    <2>3. QED
        BY <2>1, <2>2, ControlTaskInv
<1>3. CASE ControlBind(p) /\ sock # None
    <2>1. /\ control[p] = "bind" /\ SetControl(p, "in-use") /\ sock' = sock
          /\ UNCHANGED <<main, dtls, context, suites, listed, ctl, cert, overlapped>>
          /\ budget' \in 0 .. Disturbances
        BY <1>3 DEF ControlBind, world, Inv, TypeOK
    <2>2. overlapped /\ sock # p
        BY <1>3, <2>1 DEF Inv, PathFree, TypeOK
    <2>3. PathFree'
        BY <2>1, <2>2 DEF PathFree
    <2>4. QED
        BY <2>1, <2>2, <2>3, ControlTaskInv
<1>4. CASE ControlFails(p)
    <2>1. /\ control[p] \in {"spawned", "bind"} /\ SetControl(p, "failed") /\ sock' = sock
          /\ UNCHANGED <<main, dtls, context, suites, listed, ctl, cert, overlapped>>
        BY <1>4 DEF ControlFails
    <2>2. budget' \in 0 .. Disturbances
        BY <1>4, BudgetLeft DEF ControlFails
    <2>3. PathFree' /\ sock # p
        BY <2>1 DEF Inv, PathFree, TypeOK, SetControl
    <2>4. QED
        BY <2>1, <2>2, <2>3, ControlTaskInv
<1>5. QED
    BY <1>1, <1>2, <1>3, <1>4

-----------------------------------------------------------------------------
(* show_users *)

\* What a step of one client may leave behind.
LEMMA ClientInv ==
    ASSUME Inv, NEW c \in Clients,
           NEW r \in [at : {"idle", "asked", "reply"}, proc : Procs \cup {None},
                      sent : {"none", "command", "part"},
                      rows : Rows, seen : SUBSET Rows],
           SetClient(c, r), UNCHANGED <<main, tasks, listed, world>>,
           r.at \in {"asked", "reply"} => (r.proc # None /\ control[r.proc] = "listening"),
           (r.at = "asked" /\ r.sent = "command") => listed[r.proc] \in r.seen
    PROVE  Inv'
<1>1. UNCHANGED <<main, dtls, context, suites, control, sock, listed, cert, budget, overlapped>>
    BY DEF tasks, world
<1>2. /\ ctl'[c] = r
      /\ \A d \in Clients \ {c} : ctl'[d] = ctl[d]
      /\ ctl' \in [Clients -> [at : {"idle", "asked", "reply"}, proc : Procs \cup {None},
                               sent : {"none", "command", "part"},
                               rows : Rows, seen : SUBSET Rows]]
    BY DEF SetClient, Inv, TypeOK
<1>3. \A d \in Clients : InFlight(d)' => ctl'[d].proc # None /\ control'[ctl'[d].proc] = "listening"
    BY <1>1, <1>2 DEF Inv, TypeOK, InFlight
<1>4. TypeOK'
    BY <1>1, <1>2, <1>3 DEF Inv, TypeOK, HasUdp
<1>5. TableSeen'
    BY <1>1, <1>2 DEF Inv, TableSeen
<1>6. PortHeld' /\ EndingSeen' /\ PathFree' /\ NoneInTheWay'
    BY <1>1 DEF Inv, PortHeld, EndingSeen, PathFree, NoneInTheWay, Listens
<1>7. QED
    BY <1>4, <1>5, <1>6 DEF Inv

\* A registration is seen by every client that waits for the answer.
LEMMA ListedInv ==
    ASSUME Inv, NEW p \in Procs, main[p] \in {"accept", "ending"}, NEW rows \in Rows,
           SetListed(p, rows), UNCHANGED <<main, tasks, world>>
    PROVE  Inv'
<1>1. UNCHANGED <<main, dtls, context, suites, control, sock, cert, budget, overlapped>>
    BY DEF tasks, world
<1>2. /\ listed'[p] = rows /\ listed' \in [Procs -> Rows]
      /\ \A q \in Procs \ {p} : listed'[q] = listed[q]
    BY DEF SetListed, Inv, TypeOK
<1>3. \A c \in Clients :
         /\ ctl'[c] \in [at : {"idle", "asked", "reply"}, proc : Procs \cup {None},
                         sent : {"none", "command", "part"},
                         rows : Rows, seen : SUBSET Rows]
         /\ ctl'[c].at = ctl[c].at /\ ctl'[c].proc = ctl[c].proc /\ ctl'[c].sent = ctl[c].sent
         /\ ctl[c].seen \subseteq ctl'[c].seen
         /\ (ctl[c].seen # {} /\ ctl[c].proc = p) => rows \in ctl'[c].seen
    <2> SUFFICES ASSUME NEW c \in Clients
                 PROVE  /\ ctl'[c] \in [at : {"idle", "asked", "reply"}, proc : Procs \cup {None},
                                        sent : {"none", "command", "part"},
                                        rows : Rows, seen : SUBSET Rows]
                        /\ ctl'[c].at = ctl[c].at /\ ctl'[c].proc = ctl[c].proc
                        /\ ctl'[c].sent = ctl[c].sent
                        /\ ctl[c].seen \subseteq ctl'[c].seen
                        /\ (ctl[c].seen # {} /\ ctl[c].proc = p) => rows \in ctl'[c].seen
        OBVIOUS
    <2>1. CASE ctl[c].seen # {} /\ ctl[c].proc = p
        <3>1. ctl'[c] = [ctl[c] EXCEPT !.seen = ctl[c].seen \cup {rows}]
            BY <2>1 DEF SetListed
        <3>2. QED
            BY <3>1 DEF Inv, TypeOK
    <2>2. CASE ~(ctl[c].seen # {} /\ ctl[c].proc = p)
        <3>1. ctl'[c] = ctl[c]
            BY <2>2 DEF SetListed
        <3>2. QED
            BY <2>2, <3>1 DEF Inv, TypeOK
    <2>3. QED
        BY <2>1, <2>2
<1>4. \A c \in Clients : InFlight(c)' => ctl'[c].proc # None /\ control'[ctl'[c].proc] = "listening"
    BY <1>1, <1>3 DEF Inv, TypeOK, InFlight
<1>5. ctl' \in [Clients -> [at : {"idle", "asked", "reply"}, proc : Procs \cup {None},
                            sent : {"none", "command", "part"},
                            rows : Rows, seen : SUBSET Rows]]
    BY <1>3 DEF SetListed
<1>6. TypeOK'
    BY <1>1, <1>2, <1>4, <1>5 DEF Inv, TypeOK, HasUdp
<1>7. TableSeen'
    <2>1. \A c \in Clients : (ctl[c].at = "asked" /\ ctl[c].sent = "command") =>
             ctl[c].proc \in Procs /\ listed[ctl[c].proc] \in ctl[c].seen
        BY DEF Inv, TypeOK, TableSeen, InFlight
    <2>2. QED
        BY <1>2, <1>3, <2>1 DEF TableSeen
<1>8. PortHeld' /\ EndingSeen' /\ PathFree' /\ NoneInTheWay'
    BY <1>1 DEF Inv, PortHeld, EndingSeen, PathFree, NoneInTheWay, Listens
<1>9. QED
    BY <1>6, <1>7, <1>8 DEF Inv

\* A control client asks, is answered, and reads the answer.
LEMMA ClientsInv ==
    ASSUME Inv, NEW c \in Clients, Ask(c) \/ HandleClient(c) \/ Reply(c)
    PROVE  Inv'
<1> DEFINE Records == [at : {"idle", "asked", "reply"}, proc : Procs \cup {None},
                       sent : {"none", "command", "part"},
                       rows : Rows, seen : SUBSET Rows]
<1>1. UNCHANGED <<main, tasks, listed, world>>
    BY DEF Ask, HandleClient, Reply
<1>2. NoClient \in Records /\ NoClient.at = "idle"
    BY DEF NoClient, Rows
<1>3. CASE SetClient(c, NoClient)
    BY <1>1, <1>2, <1>3, ClientInv
<1>4. CASE Ask(c) /\ sock \in Procs
    <2>1. PICK what \in {"command", "part"} :
             SetClient(c, [at |-> "asked", sent |-> what, proc |-> sock, rows |-> {},
                           seen |-> IF what = "command" THEN {listed[sock]} ELSE {}])
        BY <1>4 DEF Ask
    <2> DEFINE r == [at |-> "asked", sent |-> what, proc |-> sock, rows |-> {},
                     seen |-> IF what = "command" THEN {listed[sock]} ELSE {}]
    <2>2. r \in Records
        BY <1>4 DEF Rows, Inv, TypeOK
    <2>3. /\ r.at = "asked" /\ r.proc = sock /\ r.sent = what
          /\ what = "command" => r.seen = {listed[sock]}
        OBVIOUS
    <2>4. sock # None /\ control[sock] = "listening"
        BY <1>4, ProcessAssumption DEF ProcessAssumption, Inv, TypeOK
    <2> HIDE DEF r
    <2>5. SetClient(c, r)
        BY <2>1 DEF r
    <2>6. QED
        BY <1>1, <2>2, <2>3, <2>4, <2>5, ClientInv
<1>5. CASE HandleClient(c) /\ ctl[c].sent = "command"
    <2> DEFINE r == [ctl[c] EXCEPT !.at = "reply", !.rows = listed[ctl[c].proc], !.seen = {}]
    <2>1. ctl[c].at = "asked" /\ SetClient(c, r)
        BY <1>5 DEF HandleClient
    <2>2. ctl[c].proc \in Procs /\ ctl[c].proc # None /\ control[ctl[c].proc] = "listening"
        BY <2>1 DEF Inv, TypeOK, InFlight
    <2>3. ctl[c] \in Records /\ listed[ctl[c].proc] \in Rows
        BY <2>2 DEF Inv, TypeOK
    <2> DEFINE q1 == [ctl[c] EXCEPT !.at = "reply"]
               q2 == [q1 EXCEPT !.rows = listed[ctl[c].proc]]
    <2>4. q1 \in Records /\ q1.at = "reply" /\ q1.proc = ctl[c].proc
        BY <2>3
    <2> HIDE DEF q1
    <2>5. q2 \in Records /\ q2.at = "reply" /\ q2.proc = ctl[c].proc
        BY <2>3, <2>4
    <2> HIDE DEF q2
    <2>6. [q2 EXCEPT !.seen = {}] \in Records /\ [q2 EXCEPT !.seen = {}].at = "reply"
          /\ [q2 EXCEPT !.seen = {}].proc = ctl[c].proc
        BY <2>5
    <2>7. r = [q2 EXCEPT !.seen = {}]
        BY DEF q1, q2
    <2> HIDE DEF r
    <2>8. QED
        BY <1>1, <2>1, <2>2, <2>6, <2>7, ClientInv
<1>6. QED
    BY <1>3, <1>4, <1>5 DEF Ask, HandleClient, Reply

-----------------------------------------------------------------------------

\* Before the first start there is neither a process nor a socket.
LEMMA InitInv == Init => Inv
<1> SUFFICES ASSUME Init PROVE Inv
    OBVIOUS
<1>1. NoClient.at = "idle" /\ NoClient \in [at : {"idle", "asked", "reply"}, proc : Procs \cup {None},
            sent : {"none", "command", "part"}, rows : Rows, seen : SUBSET Rows]
    BY DEF NoClient, Rows
<1>2. TypeOK
    <2>1. /\ main = [p \in Procs |-> "down"] /\ dtls = [p \in Procs |-> "off"]
          /\ context = [p \in Procs |-> None] /\ suites = [p \in Procs |-> None]
          /\ control = [p \in Procs |-> "off"]
          /\ listed = [p \in Procs |-> {}] /\ ctl = [c \in Clients |-> NoClient]
          /\ sock = None /\ None \notin Procs /\ cert \in Keys
        BY ProcessAssumption DEF ProcessAssumption, Init
    <2> overlapped \in BOOLEAN
        BY DEF Init
    <2> budget \in 0 .. Disturbances
        BY ProcessAssumption DEF ProcessAssumption, Init
    <2>2. \A c \in Clients : ~InFlight(c)
        BY <1>1, <2>1 DEF InFlight
    <2>3. listed \in [Procs -> Rows]
        BY <2>1 DEF Rows
    <2>4. QED
        BY <1>1, <2>1, <2>2, <2>3 DEF TypeOK, HasUdp
<1>3. PortHeld /\ EndingSeen /\ PathFree /\ TableSeen /\ NoneInTheWay
    BY <1>1 DEF Init, PortHeld, EndingSeen, PathFree, TableSeen, NoneInTheWay, Listens
<1>4. QED
    BY <1>2, <1>3 DEF Inv

\* The invariant is inductive: a case for every action.
LEMMA StepInv == Inv /\ [Next]_vars => Inv'
<1> SUFFICES ASSUME Inv, [Next]_vars PROVE Inv'
    OBVIOUS
<1>1. budget \in 0 .. Disturbances
    BY DEF Inv, TypeOK
<1>2. ASSUME NEW p \in Procs, Fail(p), UNCHANGED <<cert, overlapped>>, budget' \in 0 .. Disturbances
      PROVE  Inv'
    BY <1>2, EndInv DEF Fail
<1>3. ASSUME NEW p \in Procs, LoadConfig(p) \/ LoadTls(p) \/ HashCert(p) \/ Bind(p) PROVE Inv'
    <2>1. UNCHANGED <<cert, budget, overlapped>>
        BY <1>3 DEF LoadConfig, LoadTls, HashCert, Bind, world
    <2>2. CASE Fail(p)
        BY <1>1, <1>2, <2>1, <2>2
    <2>3. CASE LoadConfig(p)
        BY <2>3, StageInv DEF LoadConfig, Starting
    <2>4. CASE LoadTls(p) /\ cert # "missing"
        BY <2>4, StageInv DEF LoadTls, Starting
    <2>5. CASE HashCert(p) /\ cert # "missing"
        BY <2>5, StageInv DEF HashCert, Starting
    <2>6. CASE Bind(p) /\ ~\E q \in Procs : Listens(q)
        BY <2>6, StageInv DEF Bind, Starting
    <2>7. QED
        BY <1>3, <2>2, <2>3, <2>4, <2>5, <2>6 DEF LoadTls, HashCert, Bind
<1>4. ASSUME NEW p \in Procs, Spawn(p) PROVE Inv'
    BY <1>4, SpawnInv
<1>5. ASSUME NEW p \in Procs, Exit(p) PROVE Inv'
    BY <1>1, <1>2, <1>5 DEF Exit, world
<1>6. ASSUME NEW p \in Procs, Start(p) PROVE Inv'
    BY <1>6, StageInv DEF Start, Starting
<1>7. CASE Restart
    <2>1. Unit \in Procs
        BY ProcessAssumption DEF ProcessAssumption
    <2>2. QED
        BY <1>7, <2>1, StageInv DEF Restart, Starting
<1>8. ASSUME NEW p \in Procs, StartFails(p) \/ Kill(p) PROVE Inv'
    BY <1>2, <1>8, BudgetLeft DEF StartFails, Kill
<1>9. ASSUME NEW p \in Procs, Stop(p) PROVE Inv'
    <2>1. End(p, "down") /\ UNCHANGED <<cert, overlapped>> /\ Disturb
        BY <1>9 DEF Stop
    <2>2. QED
        BY <2>1, BudgetLeft, EndInv
<1>10. ASSUME NEW p \in Procs, AcceptFails(p) PROVE Inv'
    BY <1>10, AcceptFailsInv
<1>11. ASSUME NEW p \in Procs, DtlsNew(p) \/ DtlsSuites(p) \/ DtlsFails(p) PROVE Inv'
    BY <1>11, DtlsNewInv, DtlsSuitesInv, DtlsFailsInv
<1>12. ASSUME NEW p \in Procs, ControlUnlink(p) \/ ControlBind(p) \/ ControlFails(p) PROVE Inv'
    BY <1>12, ControlInv
<1>13. ASSUME NEW p \in Procs, NEW u \in Users, Register(p, u) \/ Unregister(p, u) PROVE Inv'
    <2>1. listed[p] \in Rows
        BY DEF Inv, TypeOK
    <2>2. listed[p] \cup {u} \in Rows /\ listed[p] \ {u} \in Rows
        BY <2>1 DEF Rows
    <2>3. main[p] \in {"accept", "ending"} /\ UNCHANGED <<main, tasks, world>>
        BY <1>13 DEF Register, Unregister
    <2>4. QED
        BY <1>13, <2>2, <2>3, ListedInv DEF Register, Unregister
<1>14. CASE Renew
    <2>1. /\ UNCHANGED <<main, dtls, context, suites, control, sock, listed, ctl, overlapped>>
          /\ cert' \in Keys \cup {"missing"} /\ budget' \in 0 .. Disturbances
        BY <1>14, BudgetLeft DEF Renew, tasks
    <2>2. QED
        BY <2>1 DEF Inv, TypeOK, PortHeld, EndingSeen, PathFree, TableSeen, NoneInTheWay, Listens,
                    InFlight, HasUdp
<1>15. ASSUME NEW c \in Clients, Ask(c) \/ HandleClient(c) \/ Reply(c) PROVE Inv'
    BY <1>15, ClientsInv
<1>16. CASE UNCHANGED vars
    BY <1>16 DEF vars, tasks, world, Inv, TypeOK, PortHeld, EndingSeen, PathFree, TableSeen,
                 NoneInTheWay, Listens, InFlight, HasUdp
<1>17. QED
    BY <1>3, <1>4, <1>5, <1>6, <1>7, <1>8, <1>9, <1>10, <1>11, <1>12, <1>13, <1>14, <1>15, <1>16
    DEF Next, Steps

\* Every reachable state satisfies the inductive invariant.
THEOREM Invariant == Spec => []Inv
<1>1. QED
    BY InitInv, StepInv, PTL DEF Spec

\* The types, and that tasks, rows and waiting clients belong to a process that
\* runs and the socket file to a control server that listens.
THEOREM TypeCorrect == Spec => []TypeOK
<1>1. Inv => TypeOK
    BY DEF Inv
<1>2. QED
    BY <1>1, Invariant, PTL

\* No DTLS or control server finds its port or path taken, until an accept loop
\* has ended by an error: whatever is killed, stopped or started by hand.
THEOREM WayIsClear == Spec => []NoneInTheWay
<1>1. Inv => NoneInTheWay
    BY DEF Inv
<1>2. QED
    BY <1>1, Invariant, PTL

\* The control socket of a server that serves is removed only by a process
\* whose accept loop has failed.
THEOREM SocketKept == Spec => SocketNotStolen
<1>1. ASSUME Inv, [Next]_vars, NEW p \in Procs,
             sock = p, main[p] = "accept", sock' # p, main'[p] = "accept"
      PROVE  \E q \in Procs \ {p} : main[q] = "ending"
    <2>1. p # None /\ control[p] = "listening"
        BY <1>1, ProcessAssumption DEF ProcessAssumption, Inv, TypeOK
    <2>2. ASSUME NEW q \in Procs, NEW how \in {"down", "failed"}, End(q, how) PROVE FALSE
        BY <1>1, <2>2 DEF End, Goto, Inv, TypeOK
    <2>3. \A q \in Procs : ~Fail(q) /\ ~Stop(q)
        BY <2>2 DEF Fail, Stop
    <2>4. PICK q \in Procs : ControlUnlink(q) \/ ControlBind(q)
        BY <1>1, <2>3 DEF Next, Steps, vars, tasks, world, Start, Restart, LoadConfig, LoadTls,
           HashCert, Bind, Spawn, StartFails, AcceptFails, Exit, Kill, Renew, DtlsNew, DtlsSuites, DtlsFails,
           ControlFails, Register, Unregister, Ask, HandleClient, Reply
    <2>5. control[q] = "spawned" /\ q # p
        BY <1>1, <2>1, <2>4 DEF ControlUnlink, ControlBind
    <2>6. main[q] \in {"accept", "ending"}
        BY <1>1, <2>5 DEF Inv, TypeOK
    <2>7. QED
        BY <1>1, <2>5, <2>6 DEF Inv, PortHeld, Listens
<1>2. Inv /\ [Next]_vars =>
      [\A p \in Procs :
          (sock = p /\ main[p] = "accept" /\ sock' # p /\ main'[p] = "accept")
          => \E q \in Procs \ {p} : main[q] = "ending"]_vars
    BY <1>1
<1>3. QED
    BY <1>2, Invariant, PTL DEF Spec, SocketNotStolen

\* show_users answers with the table of one moment after the command.
THEOREM Snapshots == Spec => ReplyIsSnapshot
<1>1. ASSUME Inv, [Next]_vars, NEW c \in Clients, ctl[c].at = "asked", ctl'[c].at = "reply"
      PROVE  ctl'[c].rows \in ctl[c].seen
    <2>1. NoClient.at = "idle"
        BY DEF NoClient
    <2>2. ASSUME NEW p \in Procs, NEW how \in {"down", "failed"}, End(p, how) PROVE FALSE
        BY <1>1, <2>1, <2>2 DEF End
    <2>3. \A p \in Procs : ~Fail(p) /\ ~Stop(p)
        BY <2>2 DEF Fail, Stop
    <2>4. ASSUME NEW p \in Procs, NEW rows, SetListed(p, rows) PROVE FALSE
        BY <1>1, <2>4 DEF SetListed, Inv, TypeOK
    <2>5. PICK d \in Clients : Ask(d) \/ HandleClient(d) \/ Reply(d)
        BY <1>1, <2>3, <2>4 DEF Next, Steps, vars, tasks, world, Start, Restart, LoadConfig,
           LoadTls, HashCert, Bind, Spawn, StartFails, AcceptFails, Exit, Kill, Renew, DtlsNew,
           DtlsSuites, DtlsFails, ControlUnlink, ControlBind, ControlFails, Register, Unregister
    <2>6. d = c
        BY <1>1, <2>5 DEF Ask, HandleClient, Reply, SetClient, Inv, TypeOK
    <2>7. HandleClient(c) /\ ctl[c].sent = "command"
        BY <1>1, <2>1, <2>5, <2>6 DEF Ask, InFlight, HandleClient, Reply, SetClient, Inv, TypeOK
    <2>8. ctl'[c] = [ctl[c] EXCEPT !.at = "reply", !.rows = listed[ctl[c].proc], !.seen = {}]
        BY <1>1, <2>7 DEF HandleClient, SetClient, Inv, TypeOK
    <2>9. ctl'[c].rows = listed[ctl[c].proc]
        BY <1>1, <2>8 DEF Inv, TypeOK
    <2>10. QED
        BY <1>1, <2>7, <2>9 DEF Inv, TableSeen
<1>2. Inv /\ [Next]_vars =>
      [\A c \in Clients :
          (ctl[c].at = "asked" /\ ctl'[c].at = "reply") => ctl'[c].rows \in ctl[c].seen]_vars
    BY <1>1
<1>3. QED
    BY <1>2, Invariant, PTL DEF Spec, ReplyIsSnapshot

-----------------------------------------------------------------------------
(* The cipher offered to a legacy client *)

\* select_compatible_cipher picks from the list, and a cipher the key can
\* authenticate when there is one.
LEMMA Selected ==
    ASSUME NEW list, DOMAIN list = 1 .. Len(list), Len(list) \in Nat \ {0}, NEW key \in KeyTypes
    PROVE  /\ SelectCompatible(list, key) \in ToSet(list)
           /\ (\E c \in ToSet(list) : Authenticates(key, c)) =>
                 Authenticates(key, SelectCompatible(list, key))
<1> DEFINE prefixes == Preferred(key)
           found    == {i \in DOMAIN prefixes : Places(list, prefixes[i]) # {}}
           at       == IF found = {} THEN 1 ELSE Min(Places(list, prefixes[Min(found)]))
<1>1. SelectCompatible(list, key) = list[at]
    BY DEF SelectCompatible
<1>2. /\ key = "ec" => prefixes = <<"ECDHE-ECDSA">>
      /\ key = "rsa" => prefixes = <<"ECDHE-RSA", "DHE-RSA">>
      /\ key = "unknown" => prefixes = <<"ECDHE-ECDSA", "ECDHE-RSA", "DHE-RSA", "AES">>
    BY DEF Preferred
<1>3. found \subseteq DOMAIN prefixes /\ DOMAIN prefixes \subseteq Nat
    BY <1>2 DEF KeyTypes
<1>4. \A kx : Places(list, kx) \subseteq Nat
    BY DEF Places
<1>5. found # {} => /\ Min(found) \in found
                    /\ \A i \in found : Min(found) <= i
    BY <1>3, LeastNat
<1>6. found # {} => at \in Places(list, prefixes[Min(found)])
    BY <1>4, <1>5, LeastNat
<1>7. at \in DOMAIN list /\ (found # {} => list[at].kx = prefixes[Min(found)])
    BY <1>6 DEF Places
<1>8. ASSUME NEW j \in DOMAIN list, Authenticates(key, list[j])
      PROVE  Authenticates(key, list[at])
    <2>1. \A i \in DOMAIN prefixes : prefixes[i] = list[j].kx => i \in found
        BY DEF Places
    <2> HIDE DEF found, at
    <2>2. CASE key = "ec"
        <3>1. 1 \in found
            BY <1>2, <1>8, <2>1, <2>2 DEF Authenticates
        <3>2. Min(found) = 1
            BY <1>2, <1>3, <1>5, <2>2, <3>1
        <3>3. QED
            BY <1>2, <1>7, <2>2, <3>1, <3>2 DEF Authenticates
    <2>3. CASE key = "rsa"
        <3>1. found # {}
            BY <1>2, <1>8, <2>1, <2>3 DEF Authenticates
        <3>2. Min(found) \in {1, 2}
            BY <1>2, <1>3, <1>5, <2>3, <3>1
        <3>3. QED
            BY <1>2, <1>7, <2>3, <3>1, <3>2 DEF Authenticates
    <2>4. CASE key = "unknown"
        <3>1. 1 \in found
            BY <1>2, <1>8, <2>1, <2>4 DEF Authenticates
        <3>2. Min(found) = 1
            BY <1>2, <1>3, <1>5, <2>4, <3>1
        <3>3. QED
            BY <1>2, <1>7, <2>4, <3>1, <3>2 DEF Authenticates
    <2>5. QED
        BY <2>2, <2>3, <2>4 DEF KeyTypes
<1> HIDE DEF at
<1>9. QED
    BY <1>1, <1>7, <1>8 DEF ToSet

\* The key authenticates the key exchanges of the ciphers that are set for it,
\* or these are more.
LEMMA ExchangesOf ==
    ASSUME NEW key \in KeyTypes, NEW c, Authenticates(key, c)
    PROVE  c.kx \in Exchanges(key)
<1>1. PICK s \in Suites(key) : s.kx = c.kx
    <2>1. "AES256-GCM-SHA384" \in Gcm
        BY DEF Gcm
    <2> DEFINE s == Cipher(c.kx, "AES256-GCM-SHA384")
    <2>2. s.kx = c.kx
        BY DEF Cipher
    <2> HIDE DEF s
    <2>3. s \in Suites(key)
        <3>1. CASE key = "ec"
            BY <2>1, <3>1 DEF s, Suites, Authenticates
        <3>2. CASE key = "rsa"
            BY <2>1, <3>2 DEF s, Suites, Authenticates
        <3>3. CASE key = "unknown"
            BY <2>1, <3>3 DEF s, Suites, Authenticates
        <3>4. QED
            BY <3>1, <3>2, <3>3 DEF KeyTypes
    <2>4. QED
        BY <2>2, <2>3
<1>2. QED
    BY <1>1 DEF Exchanges

\* What CONNECT offers a legacy client fits the key it was made for.
LEMMA OfferedFits ==
    ASSUME NEW r \in Requests, NEW key \in KeyTypes, Offer(r, key).mode = "legacy"
    PROVE  FitsKey(r, Offer(r, key), key, key)
<1> DEFINE o    == Offer(r, key)
           list == SentUnder(r, CipherHeader(o))
<1> SUFFICES ASSUME list # NoList
             PROVE  o.cipher \in ToSet(list) /\
                    ((\E c \in ToSet(list) : Authenticates(key, c)) => Authenticates(key, o.cipher))
    BY ExchangesOf DEF FitsKey
<1>1. ~r.psk /\ r.secret
    BY DEF Offer, NoOffer, Requests
<1>2. r.dtls \in Lists \cup {NoList} /\ r.dtls12 \in Lists \cup {NoList}
    BY DEF Requests
<1>3. CASE r.dtls12 # NoList
    <2>1. o = [mode |-> "legacy", cipher |-> SelectCompatible(r.dtls12, key), dtls12 |-> TRUE]
        BY <1>1, <1>3 DEF Offer
    <2>2. o.cipher = SelectCompatible(r.dtls12, key) /\ list = r.dtls12
        BY <2>1 DEF CipherHeader, SentUnder
    <2>3. DOMAIN r.dtls12 = 1 .. Len(r.dtls12) /\ Len(r.dtls12) \in Nat \ {0}
        BY <1>2, <1>3, ListsAssumption DEF ListsAssumption
    <2>4. QED
        BY <2>2, <2>3, Selected
<1>4. CASE r.dtls12 = NoList
    <2>1. o = [mode |-> "legacy", cipher |-> SelectCompatible(Values(r.dtls), key), dtls12 |-> FALSE]
        BY <1>1, <1>4 DEF Offer
    <2>2. o.cipher = SelectCompatible(Values(r.dtls), key) /\ list = r.dtls
        BY <2>1 DEF CipherHeader, SentUnder
    <2>3. Values(r.dtls) = r.dtls
        BY <2>2 DEF Values
    <2>4. DOMAIN r.dtls = 1 .. Len(r.dtls) /\ Len(r.dtls) \in Nat \ {0}
        BY <1>2, <2>2, ListsAssumption DEF ListsAssumption
    <2>5. QED
        BY <2>2, <2>3, <2>4, Selected
<1>5. QED
    BY <1>3, <1>4

\* Whatever lists clients send, the offered cipher is one of them, and its key
\* exchange fits the certificate in the file, so the key and the ciphers of the
\* DTLS server as long as it has loaded that one, when one of the list does.
THEOREM OffersFitKey == Spec => []OfferFitsKey
<1>1. ASSUME Inv, NEW p \in Procs, dtls[p] = "serving", context[p] = cert, suites[p] = cert
      PROVE  LegacyFits(p)
    <2>1. context[p] \in Keys
        BY <1>1 DEF Inv, TypeOK, HasUdp
    <2>2. KeyOnDisk = context[p] /\ suites[p] = context[p] /\ context[p] \in KeyTypes
        BY <1>1, <2>1, ProcessAssumption DEF ProcessAssumption, KeyOnDisk, KeyTypes
    <2>3. QED
        BY <2>2, OfferedFits DEF LegacyFits, OfferNow
<1>2. Inv => OfferFitsKey
    BY <1>1 DEF OfferFitsKey
<1>3. QED
    BY <1>2, Invariant, PTL

\* The limit of what an offer shows: the rest of a cipher's name is not looked
\* at, so with an RSA key an old cipher that comes first is offered, which the
\* DTLS server does not have although it has the next one.
THEOREM OldCipherOffered ==
    ASSUME NEW list,
           list = <<Cipher("ECDHE-RSA", "AES256-SHA"), Cipher("ECDHE-RSA", "AES256-GCM-SHA384")>>
    PROVE  SelectCompatible(list, "rsa") \notin Suites("rsa") /\ list[2] \in Suites("rsa")
<1> DEFINE prefixes == Preferred("rsa")
           found    == {i \in DOMAIN prefixes : Places(list, prefixes[i]) # {}}
<1>1. prefixes = <<"ECDHE-RSA", "DHE-RSA">>
    BY DEF Preferred
<1>2. Places(list, "ECDHE-RSA") = {1, 2}
    BY DEF Places, Cipher
<1>3. 1 \in found /\ found \subseteq {1, 2}
    BY <1>1, <1>2
<1> HIDE DEF found
<1>4. Min(found) = 1
    <2>1. found \subseteq Nat /\ found # {}
        BY <1>3
    <2>2. Min(found) \in found /\ Min(found) <= 1
        BY <1>3, <2>1, LeastNat
    <2>3. \A m \in {1, 2} : m <= 1 => m = 1
        OBVIOUS
    <2>4. QED
        BY ONLY <1>3, <2>2, <2>3
<1>5. Min({1, 2}) = 1
    BY LeastNat
<1>6. SelectCompatible(list, "rsa") = list[1]
    BY <1>1, <1>2, <1>3, <1>4, <1>5 DEF SelectCompatible, found
<1>7. list[1].rest \notin Gcm \cup Cbc
    BY DEF Cipher, Gcm, Cbc
<1>8. \A c \in Suites("rsa") : c.rest \in Gcm \cup Cbc
    BY DEF Suites, Cipher
<1>9. list[2] \in Suites("rsa")
    BY DEF Suites, Gcm
<1>10. QED
    BY <1>6, <1>7, <1>8, <1>9
=============================================================================
