---------------------------- MODULE ServerProcess ----------------------------
(***************************************************************************)
(* The life of a server process: main (src/src/main.rs) up to the loop of  *)
(* HttpServer::run, the DTLS and control servers it spawns on the way, the *)
(* control client occtl (src/src/bin/occtl.rs), and the service unit that  *)
(* starts a failed server again (src/ocserv-rs.service).                   *)
(*                                                                         *)
(* More than one process may run on the machine, for an operator can start *)
(* one by hand beside the one of the unit.  They share the TCP and the UDP *)
(* port, the path of the control socket and the certificate file.  Inside  *)
(* a process main and the spawned tasks interleave.                        *)
(*                                                                         *)
(* What disturbs the machine (a failing call, a kill, a stop, a renewed    *)
(* certificate) happens at most Disturbances times.                        *)
(***************************************************************************)
EXTENDS Naturals, DtlsOffer

CONSTANTS Procs, Unit,    \* processes, and the one of the service unit
          Keys,           \* key types of the certificates the operator has
          FirstKey,       \* that of the certificate in use at first
          Users,          \* rows of the session table
          Clients,        \* control clients
          None,
          Disturbances

ASSUME ProcessAssumption ==
    /\ Unit \in Procs
    /\ None \notin Procs \cup KeyTypes /\ "stale" \notin Procs
    /\ Keys \subseteq KeyTypes /\ FirstKey \in Keys
    /\ Disturbances \in Nat

VARIABLES
    main,       \* where main is, "failed" and "down" when there is no process
    dtls,       \* the DTLS task
    context,    \* key type of the certificate the DTLS server has loaded
    suites,     \* key type of the certificate its ciphers are set for
    control,    \* the control task
    sock,       \* whose socket the control path names: a process, "stale", None
    cert,       \* key type of the certificate file, or "missing"
    listed,     \* the rows show_users reports, by process
    ctl,        \* control clients: [at, sent, proc, rows, seen], where seen is the
                \* history of the table since the command
    budget,     \* disturbances that may still come
    overlapped  \* history: an accept loop has ended by an error

tasks == <<dtls, context, suites, control, sock>>
world == <<cert, budget, overlapped>>
vars  == <<main, tasks, listed, ctl, world>>

\* A client that does not wait: it has asked nothing, or got no table.
NoClient == [at |-> "idle", sent |-> "none", proc |-> None, rows |-> {}, seen |-> {}]

Init ==
    /\ main = [p \in Procs |-> "down"]
    /\ dtls = [p \in Procs |-> "off"]
    /\ context = [p \in Procs |-> None] /\ suites = [p \in Procs |-> None]
    /\ control = [p \in Procs |-> "off"] /\ sock = None
    /\ cert = FirstKey
    /\ listed = [p \in Procs |-> {}] /\ ctl = [c \in Clients |-> NoClient]
    /\ budget = Disturbances /\ overlapped = FALSE

Starting == {"config", "tls", "hash", "bind", "state"}
Running(p) == main[p] \in Starting \cup {"accept", "ending"}

\* The TCP listener lives from the bind to the end of run.
Listens(p) == main[p] \in {"state", "accept"}

InFlight(c) == ctl[c].at \in {"asked", "reply"}

Disturb == budget > 0 /\ budget' = budget - 1

Goto(p, stage) == main' = [main EXCEPT ![p] = stage]

\* The process is gone, its tasks and ports with it; the socket file stays.
End(p, how) ==
    /\ Goto(p, how)
    /\ dtls' = [dtls EXCEPT ![p] = "off"]
    /\ context' = [context EXCEPT ![p] = None] /\ suites' = [suites EXCEPT ![p] = None]
    /\ control' = [control EXCEPT ![p] = "off"]
    /\ sock' = IF sock = p THEN "stale" ELSE sock
    /\ listed' = [listed EXCEPT ![p] = {}]
    /\ ctl' = [c \in Clients |->
                  IF InFlight(c) /\ ctl[c].proc = p
                  THEN NoClient ELSE ctl[c]]

\* main returns an error or panics: a failure, after which the unit restarts.
Fail(p) == End(p, IF p = Unit THEN "failed" ELSE "down")

-----------------------------------------------------------------------------
(* Start-up *)

Start(p) ==
    /\ main[p] = "down"
    /\ Goto(p, "config")
    /\ UNCHANGED <<tasks, listed, ctl, world>>

\* Restart=on-failure.
Restart ==
    /\ main[Unit] = "failed"
    /\ Goto(Unit, "config")
    /\ UNCHANGED <<tasks, listed, ctl, world>>

LoadConfig(p) ==
    /\ main[p] = "config"
    /\ Goto(p, "tls")
    /\ UNCHANGED <<tasks, listed, ctl, world>>

LoadTls(p) ==
    /\ main[p] = "tls"
    /\ IF cert # "missing"
       THEN Goto(p, "hash") /\ UNCHANGED <<tasks, listed, ctl>>
       ELSE Fail(p)
    /\ UNCHANGED world

\* The certificate is read again for its hash.
HashCert(p) ==
    /\ main[p] = "hash"
    /\ IF cert # "missing"
       THEN Goto(p, "bind") /\ UNCHANGED <<tasks, listed, ctl>>
       ELSE Fail(p)
    /\ UNCHANGED world

\* A mutated form: the control server is started before the port is bound.
BindLate(p) ==
    /\ main[p] = "bind"
    /\ IF control[p] = "off"
       THEN control' = [control EXCEPT ![p] = "spawned"]
            /\ UNCHANGED <<main, dtls, context, suites, sock, listed, ctl>>
       ELSE IF ~\E q \in Procs : Listens(q)
       THEN Goto(p, "state") /\ UNCHANGED <<tasks, listed, ctl>>
       ELSE Fail(p)
    /\ UNCHANGED world

\* TcpListener::bind, which fails while another process has the port.
Bind(p) ==
    /\ main[p] = "bind"
    /\ IF ~\E q \in Procs : Listens(q)
       THEN Goto(p, "state") /\ UNCHANGED <<tasks, listed, ctl>>
       ELSE Fail(p)
    /\ UNCHANGED world

\* ServerState::new with empty tables, and the spawns: of the DTLS server only
\* when dtls_port is in the configuration.
Spawn(p) ==
    /\ main[p] = "state"
    /\ Goto(p, "accept")
    /\ dtls' \in {[dtls EXCEPT ![p] = "spawned"], dtls}
    /\ control' = [control EXCEPT ![p] = "spawned"]
    /\ UNCHANGED <<context, suites, sock, listed, ctl, world>>

\* A step of the start fails: a bad file, no usable key, an address that does
\* not parse, a network without room for a pool.
StartFails(p) ==
    /\ main[p] \in Starting /\ Disturb
    /\ Fail(p)
    /\ UNCHANGED <<cert, overlapped>>

-----------------------------------------------------------------------------
(* The end of a process *)

\* An error of accept ends run, and drops the listener.
AcceptFails(p) ==
    /\ main[p] = "accept" /\ Disturb
    /\ Goto(p, "ending") /\ overlapped' = TRUE
    /\ UNCHANGED <<tasks, listed, ctl, cert>>

\* A mutated form: main waits for the tasks it has spawned.
ExitJoining(p) ==
    /\ main[p] = "ending"
    /\ control[p] \in {"failed", "in-use"} /\ dtls[p] \in {"off", "failed", "in-use"}
    /\ Fail(p)
    /\ UNCHANGED world

\* main returns, and the runtime drops the tasks that are left.
Exit(p) ==
    /\ main[p] = "ending"
    /\ Fail(p)
    /\ UNCHANGED world

Kill(p) ==
    /\ Running(p) /\ Disturb
    /\ Fail(p)
    /\ UNCHANGED <<cert, overlapped>>

\* systemctl stop, or SIGTERM, which the unit takes for a clean end.
Stop(p) ==
    /\ Running(p) /\ Disturb
    /\ End(p, "down")
    /\ UNCHANGED <<cert, overlapped>>

\* The operator replaces or removes the certificate.
Renew ==
    /\ Disturb
    /\ cert' \in (Keys \cup {"missing"}) \ {cert}
    /\ UNCHANGED <<main, tasks, listed, ctl, overlapped>>

-----------------------------------------------------------------------------
(* The DTLS and control tasks: errors are logged and end the task alone *)

SetDtls(p, how) == dtls' = [dtls EXCEPT ![p] = how]

\* The UDP port is held from the bind on.
HasUdp(p) == dtls[p] \in {"loading", "serving"}

\* DtlsServer::new up to the certificate: the bind, and the file as it is now.
DtlsNew(p) ==
    /\ dtls[p] = "spawned"
    /\ IF \E q \in Procs : HasUdp(q)
       THEN SetDtls(p, "in-use") /\ UNCHANGED context
       ELSE IF cert = "missing"
       THEN SetDtls(p, "failed") /\ UNCHANGED context
       ELSE SetDtls(p, "loading") /\ context' = [context EXCEPT ![p] = cert]
    /\ UNCHANGED <<main, suites, control, sock, listed, ctl, world>>

\* The file is read again for the ciphers.
DtlsSuites(p) ==
    /\ dtls[p] = "loading"
    /\ IF cert = "missing"
       THEN /\ SetDtls(p, "failed") /\ context' = [context EXCEPT ![p] = None]
            /\ UNCHANGED suites
       ELSE /\ SetDtls(p, "serving") /\ suites' = [suites EXCEPT ![p] = cert]
            /\ UNCHANGED context
    /\ UNCHANGED <<main, control, sock, listed, ctl, world>>

\* A mutated form: the context outlives the task.
DtlsFailsKeeping(p) ==
    /\ (dtls[p] = "spawned" \/ HasUdp(p)) /\ Disturb
    /\ SetDtls(p, "failed")
    /\ UNCHANGED <<main, context, suites, control, sock, listed, ctl, cert, overlapped>>

\* Another error of new, or recv_from fails.
DtlsFails(p) ==
    /\ (dtls[p] = "spawned" \/ HasUdp(p)) /\ Disturb
    /\ SetDtls(p, "failed")
    /\ context' = [context EXCEPT ![p] = None] /\ suites' = [suites EXCEPT ![p] = None]
    /\ UNCHANGED <<main, control, sock, listed, ctl, cert, overlapped>>

SetControl(p, how) == control' = [control EXCEPT ![p] = how]

\* A mutated form: a socket file is left where it is.
ControlKeep(p) ==
    /\ control[p] = "spawned"
    /\ SetControl(p, "bind")
    /\ UNCHANGED <<main, dtls, context, suites, sock, listed, ctl, world>>

\* exists and remove_file, whoever the file belongs to.
ControlUnlink(p) ==
    /\ control[p] = "spawned"
    /\ SetControl(p, "bind") /\ sock' = None
    /\ UNCHANGED <<main, dtls, context, suites, listed, ctl, world>>

\* UnixListener::bind, which fails when the path exists.
ControlBind(p) ==
    /\ control[p] = "bind"
    /\ IF sock = None
       THEN SetControl(p, "listening") /\ sock' = p
       ELSE SetControl(p, "in-use") /\ UNCHANGED sock
    /\ UNCHANGED <<main, dtls, context, suites, listed, ctl, world>>

\* remove_file, create_dir_all or bind fails for another reason.
ControlFails(p) ==
    /\ control[p] \in {"spawned", "bind"} /\ Disturb
    /\ SetControl(p, "failed")
    /\ UNCHANGED <<main, dtls, context, suites, sock, listed, ctl, cert, overlapped>>

-----------------------------------------------------------------------------
(* show_users *)

SetClient(c, r) == ctl' = [ctl EXCEPT ![c] = r]

\* The table of p changes to rows, for the clients too that wait for an answer
\* of p.
SetListed(p, rows) ==
    /\ listed' = [listed EXCEPT ![p] = rows]
    /\ ctl' = [c \in Clients |-> IF ctl[c].seen # {} /\ ctl[c].proc = p
                                 THEN [ctl[c] EXCEPT !.seen = @ \cup {rows}] ELSE ctl[c]]

\* The connection tasks of p register and unregister tunnels.
Register(p, u) ==
    /\ main[p] \in {"accept", "ending"} /\ u \notin listed[p]
    /\ SetListed(p, listed[p] \cup {u})
    /\ UNCHANGED <<main, tasks, world>>

Unregister(p, u) ==
    /\ main[p] \in {"accept", "ending"} /\ u \in listed[p]
    /\ SetListed(p, listed[p] \ {u})
    /\ UNCHANGED <<main, tasks, world>>

\* occtl, once or every second, connects to the path, sends its command and
\* closes its side.  Another client may send no whole command.
Ask(c) ==
    /\ ~InFlight(c)
    /\ IF sock \in Procs
       THEN \E what \in {"command", "part"} :
               SetClient(c, [at |-> "asked", sent |-> what, proc |-> sock, rows |-> {},
                             seen |-> IF what = "command" THEN {listed[sock]} ELSE {}])
       ELSE SetClient(c, NoClient)
    /\ UNCHANGED <<main, tasks, listed, world>>

\* A mutated form: the lock is taken anew for every row.
HandleByRow(c) ==
    /\ ctl[c].at = "asked"
    /\ \/ \E u \in listed[ctl[c].proc] \ ctl[c].rows :
             SetClient(c, [ctl[c] EXCEPT !.rows = @ \cup {u}])
       \/ SetClient(c, [ctl[c] EXCEPT !.at = "reply", !.seen = {}])
    /\ UNCHANGED <<main, tasks, listed, world>>

\* handle_client up to the answer: one read, of a command, and the rows, which
\* are collected under the lock of the table.  A part of a command, which
\* may be empty, is answered with an error or not at all.
HandleClient(c) ==
    /\ ctl[c].at = "asked"
    /\ SetClient(c, IF ctl[c].sent = "command"
                    THEN [ctl[c] EXCEPT !.at = "reply", !.rows = listed[ctl[c].proc], !.seen = {}]
                    ELSE NoClient)
    /\ UNCHANGED <<main, tasks, listed, world>>

\* The answer is written and the stream shut down, or the client is gone.
Reply(c) ==
    /\ ctl[c].at = "reply"
    /\ SetClient(c, NoClient)
    /\ UNCHANGED <<main, tasks, listed, world>>

-----------------------------------------------------------------------------

Steps(p) ==
    \/ LoadConfig(p) \/ LoadTls(p) \/ HashCert(p) \/ Bind(p) \/ Spawn(p) \/ Exit(p)

Next ==
    \/ \E p \in Procs :
          \/ Steps(p)
          \/ Start(p) \/ StartFails(p) \/ AcceptFails(p) \/ Kill(p) \/ Stop(p)
          \/ DtlsNew(p) \/ DtlsSuites(p) \/ DtlsFails(p)
          \/ ControlUnlink(p) \/ ControlBind(p) \/ ControlFails(p)
          \/ \E u \in Users : Register(p, u) \/ Unregister(p, u)
    \/ Restart \/ Renew
    \/ \E c \in Clients : Ask(c) \/ HandleClient(c) \/ Reply(c)

Spec == Init /\ [][Next]_vars

\* The kernel and the runtime run what can run, and systemd starts the unit
\* again.  Nothing is assumed of operators, tunnels and control clients.
Fairness ==
    /\ \A p \in Procs : /\ WF_vars(Steps(p)) /\ WF_vars(DtlsNew(p)) /\ WF_vars(DtlsSuites(p))
                        /\ WF_vars(ControlUnlink(p)) /\ WF_vars(ControlBind(p))
    /\ WF_vars(Restart)

FairSpec == Spec /\ Fairness

-----------------------------------------------------------------------------
(* Properties that hold *)

Rows == SUBSET Users

\* The types, and that tasks, rows and waiting clients belong to a process
\* that runs, and the socket file to a control server that listens.
TypeOK ==
    /\ main \in [Procs -> Starting \cup {"down", "failed", "accept", "ending"}]
    /\ dtls \in [Procs -> {"off", "spawned", "loading", "serving", "failed", "in-use"}]
    /\ context \in [Procs -> Keys \cup {None}] /\ suites \in [Procs -> Keys \cup {None}]
    /\ control \in [Procs -> {"off", "spawned", "bind", "listening", "failed", "in-use"}]
    /\ sock \in Procs \cup {"stale", None}
    /\ sock \in Procs => control[sock] = "listening"
    /\ cert \in Keys \cup {"missing"}
    /\ \A p \in Procs : ~(main[p] \in {"accept", "ending"}) =>
          dtls[p] = "off" /\ control[p] = "off" /\ listed[p] = {}
    /\ \A p \in Procs : /\ HasUdp(p) <=> context[p] # None
                        /\ dtls[p] = "serving" <=> suites[p] # None
    /\ listed \in [Procs -> Rows]
    /\ ctl \in [Clients -> [at : {"idle", "asked", "reply"}, proc : Procs \cup {None},
                            sent : {"none", "command", "part"},
                            rows : Rows, seen : SUBSET Rows]]
    /\ \A c \in Clients : InFlight(c) => ctl[c].proc # None /\ control[ctl[c].proc] = "listening"
    /\ budget \in 0 .. Disturbances /\ overlapped \in BOOLEAN

\* The control socket of a server that serves is taken by no other process: a
\* second server started by hand ends at the TCP port, before it removes the
\* socket file.  Only one whose own accept loop has just failed may do it.
SocketNotStolen ==
    [][\A p \in Procs :
          (sock = p /\ main[p] = "accept" /\ sock' # p /\ main'[p] = "accept")
          => \E q \in Procs \ {p} : main[q] = "ending"]_vars

\* Nothing a process leaves behind, or another process has, keeps the DTLS or
\* the control server of a new one from its port or path: kills leave a socket
\* file, and a slow task may still be starting.  Only a process that is about
\* to exit after an error of accept can be in the way.
NoneInTheWay ==
    (\E p \in Procs : "in-use" \in {dtls[p], control[p]}) => overlapped

\* The answer to show_users is the table as it was at one moment between the
\* command and the answer, however tunnels come and go meanwhile.
ReplyIsSnapshot ==
    [][\A c \in Clients :
          (ctl[c].at = "asked" /\ ctl'[c].at = "reply") => ctl'[c].rows \in ctl[c].seen]_vars

\* After a failure, of the unit's process or of its accept loop, the machine
\* has a server again, unless the operator stops it or the certificate is gone.
ServerBack ==
    main[Unit] \in {"failed", "ending"} ~>
        \/ \E p \in Procs : main[p] = "accept"
        \/ main[Unit] = "down" \/ cert = "missing"

\* The offer of process p to request r, by the certificate file as it is now.
KeyOnDisk == IF cert = "missing" THEN "unknown" ELSE cert
OfferNow(r) == Offer(r, KeyOnDisk)

\* The cipher of an offer is of the list the client sent under the same header;
\* and when the list has one that the key authenticates, the key authenticates
\* the cipher, and its key exchange is among those the ciphers are set for.
\* Whether the rest of its name is among them is not looked at by the code.
FitsKey(r, o, key, set) ==
    LET list == SentUnder(r, CipherHeader(o))
    IN list # NoList =>
          /\ o.cipher \in ToSet(list)
          /\ (\E c \in ToSet(list) : Authenticates(key, c)) =>
                Authenticates(key, o.cipher) /\ o.cipher.kx \in Exchanges(set)

LegacyFits(p) ==
    \A r \in Requests :
        LET o == OfferNow(r) IN o.mode = "legacy" => FitsKey(r, o, context[p], suites[p])

\* As long as the certificate file is the one the DTLS server has loaded, in
\* both of its reads, the cipher CONNECT offers to a legacy client has a key
\* exchange that the server can do with its key, when the list has one: three
\* functions of three modules read the file at different times and agree on
\* the key exchanges of its key.
OfferFitsKey ==
    \A p \in Procs :
        (main[p] = "accept" /\ dtls[p] = "serving" /\ context[p] = cert /\ suites[p] = cert)
        => LegacyFits(p)

-----------------------------------------------------------------------------
(* What the comments say and the code does not do *)

\* The offered cipher is compatible with the certificate of the server, which
\* has its ciphers from that same certificate.
OfferFitsServer ==
    \A p \in Procs :
        (main[p] = "accept" /\ dtls[p] = "serving" /\ suites[p] = context[p]) => LegacyFits(p)
=============================================================================
