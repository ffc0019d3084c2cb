--------------------------- MODULE ConnectHandler ---------------------------
(***************************************************************************)
(* The life of the TLS connections of the server: the request loop and the *)
(* CONNECT handler of src/src/http/server.rs with the address pool         *)
(* (IpPool), the session table (SessionManager), the DTLS session store    *)
(* and the two tasks of a tunnel (src/src/vpn/tunnel.rs).                  *)
(*                                                                         *)
(* Every connection is served by a task of its own; a step below is what   *)
(* such a task does between two points at which another task can observe   *)
(* or change the shared state.  Conns are connection slots: a slot is used *)
(* again once nothing of its last connection is left.                      *)
(***************************************************************************)
EXTENDS Naturals

CONSTANTS NetSize,      \* addresses in the client network
          Conns,        \* connection slots
          SessionIds, Tokens, NoSession, NoAddr, NoConn,  \* see SessionManager
          NoToken,      \* a CONNECT without a session cookie
          AppIds,       \* App-IDs and legacy session ids of DTLS sessions
          NoApp         \* a CONNECT without DTLS

\* IpPool::new fails, and the server does not start, when the network has no
\* address number 1; the markers for "none" are not values.
ASSUME ConnectAssumption ==
    /\ NetSize \in Nat /\ NetSize >= 2
    /\ NoAddr \notin 0 .. NetSize - 1
    /\ NoConn \notin Conns
    /\ NoToken \notin Tokens
    /\ NoApp \notin AppIds
    /\ NoSession \notin [token : Tokens, vpn_ip : 0 .. NetSize - 1 \cup {NoAddr},
                         remote : Conns \cup {NoConn}]

VARIABLES
    pc,          \* where the task of the connection is
    token,       \* session_token: the webvpn cookie of the CONNECT request
    app,         \* dtls_session_id
    ip,          \* assigned_ip, from allocate to release
    dev,         \* peer address of the TUN device the connection still owns
    tasks,       \* the tasks of VpnTunnel::run that have not ended
    assigned,    \* IpPool
    sessions,    \* SessionManager
    issued,      \* every token ever handed to a client
    current,     \* history: those of the running process
    dtlsStore    \* AppState::dtls_sessions

server == <<assigned, sessions, issued, current, dtlsStore>>
vars   == <<pc, token, app, ip, dev, tasks, server>>

Pool == INSTANCE IpPool
Sess == INSTANCE SessionManager

Steps == {"idle", "http", "validate", "allocate", "respond", "tun", "link",
          "register", "run", "unregister", "release"}

\* Task 1 reads the TUN device, task 2 reads the TLS connection.
Tasks == {"t1", "t2"}

Goto(c, step) == pc' = [pc EXCEPT ![c] = step]

Init ==
    /\ pc    = [c \in Conns |-> "idle"]
    /\ token = [c \in Conns |-> NoToken]
    /\ app   = [c \in Conns |-> NoApp]
    /\ ip    = [c \in Conns |-> NoAddr]
    /\ dev   = [c \in Conns |-> NoAddr]
    /\ tasks = [c \in Conns |-> {}]
    /\ Pool!PoolInit
    /\ Sess!SessionsInit
    /\ issued = {} /\ current = {}
    /\ dtlsStore = [d \in AppIds |-> "absent"]

-----------------------------------------------------------------------------
(* The request loop *)

Accept(c) ==
    /\ pc[c] = "idle"
    /\ tasks[c] = {}
    /\ Goto(c, "http")
    /\ token' = [token EXCEPT ![c] = NoToken]
    /\ app'   = [app EXCEPT ![c] = NoApp]
    /\ UNCHANGED <<ip, dev, tasks, server>>

\* A login of any kind that succeeds: it creates a session with a new token.
Login(c) ==
    /\ pc[c] = "http"
    /\ \E t \in Tokens \ issued :
          /\ Sess!CreateSession(t)
          /\ issued' = issued \cup {t} /\ current' = current \cup {t}
    /\ UNCHANGED <<pc, token, app, ip, dev, tasks, assigned, dtlsStore>>

\* The peer closes, a read or a write fails, or keep-alive is off.
CloseHttp(c) ==
    /\ pc[c] = "http"
    /\ Goto(c, "idle")
    /\ UNCHANGED <<token, app, ip, dev, tasks, server>>

\* CONNECT /CSCOSSLC/tunnel.  With PSK-NEGOTIATE or X-DTLS-Master-Secret the
\* handler stores a DTLS session under a new random id; without either, or
\* when the export of the PSK fails, there is none.
Connect(c) ==
    /\ pc[c] = "http"
    /\ Goto(c, "validate")
    /\ \E t \in Tokens \cup {NoToken} : token' = [token EXCEPT ![c] = t]
    /\ \/ \E d \in AppIds :
             /\ dtlsStore[d] = "absent"
             /\ dtlsStore' = [dtlsStore EXCEPT ![d] = "stored"]
             /\ app' = [app EXCEPT ![c] = d]
       \/ /\ app' = [app EXCEPT ![c] = NoApp]
          /\ UNCHANGED dtlsStore
    /\ UNCHANGED <<ip, dev, tasks, assigned, sessions, issued, current>>

-----------------------------------------------------------------------------
(* The CONNECT handler *)

\* A mutated form: any cookie will do.
ValidateAnyCookie(c) ==
    /\ pc[c] = "validate"
    /\ Goto(c, IF token[c] # NoToken THEN "allocate" ELSE "idle")
    /\ UNCHANGED <<token, app, ip, dev, tasks, server>>

\* Without a valid token the answer is 401 and the connection ends.
ValidateSession(c) ==
    /\ pc[c] = "validate"
    /\ Goto(c, IF Sess!ValidToken(token[c]) THEN "allocate" ELSE "idle")
    /\ UNCHANGED <<token, app, ip, dev, tasks, server>>

AllocateIp(c) ==
    /\ pc[c] = "allocate"
    /\ \E a \in Pool!Addresses :
          /\ Pool!Allocate(a)
          /\ ip' = [ip EXCEPT ![c] = a]
    /\ Goto(c, "respond")
    /\ UNCHANGED <<token, app, dev, tasks, sessions, issued, current, dtlsStore>>

AllocateFails(c) ==
    /\ pc[c] = "allocate"
    /\ Pool!Exhausted
    /\ Goto(c, "idle")
    /\ UNCHANGED <<token, app, ip, dev, tasks, server>>

\* release(assigned_ip), after which the handler leaves the loop.
GiveUpAddress(c) ==
    /\ Pool!Release(ip[c])
    /\ ip' = [ip EXCEPT ![c] = NoAddr]
    /\ Goto(c, "idle")

SendResponse(c) ==
    /\ pc[c] = "respond"
    /\ Goto(c, "tun")
    /\ UNCHANGED <<token, app, ip, dev, tasks, server>>

\* A mutated form: the error path forgets the release.
ResponseFailsKeeping(c) ==
    /\ pc[c] = "respond"
    /\ ip' = [ip EXCEPT ![c] = NoAddr]
    /\ Goto(c, "idle")
    /\ UNCHANGED <<token, app, dev, tasks, server>>

\* write_all or flush fails.
ResponseFails(c) ==
    /\ pc[c] = "respond"
    /\ GiveUpAddress(c)
    /\ UNCHANGED <<token, app, dev, tasks, sessions, issued, current, dtlsStore>>

CreateTun(c) ==
    /\ pc[c] = "tun"
    /\ Goto(c, "link")
    /\ dev' = [dev EXCEPT ![c] = ip[c]]
    /\ UNCHANGED <<token, app, ip, tasks, server>>

CreateTunFails(c) ==
    /\ pc[c] = "tun"
    /\ GiveUpAddress(c)
    /\ UNCHANGED <<token, app, dev, tasks, sessions, issued, current, dtlsStore>>

\* The channels of the tunnel are put into the stored DTLS session, if any.
LinkDtls(c) ==
    /\ pc[c] = "link"
    /\ Goto(c, "register")
    /\ dtlsStore' = [d \in AppIds |-> IF d = app[c] THEN "linked" ELSE dtlsStore[d]]
    /\ UNCHANGED <<token, app, ip, dev, tasks, assigned, sessions, issued, current>>

\* register_tunnel, and VpnTunnel::run up to the spawn of its two tasks,
\* which touches nothing another connection sees.
RegisterTunnel(c) ==
    /\ pc[c] = "register"
    /\ Goto(c, "run")
    /\ Sess!RegisterTunnel(token[c], ip[c], c)
    /\ tasks' = [tasks EXCEPT ![c] = Tasks]
    /\ UNCHANGED <<token, app, ip, dev, assigned, issued, current, dtlsStore>>

-----------------------------------------------------------------------------
(* The tunnel *)

\* A task ends by itself; the device goes with the last one that holds a half
\* of it.  Each ends on an I/O error or EOF, task 2 also on DISCONNECT, and
\* task 1 when the control channel closes because task 2 has ended.
TaskEnds(c, k) ==
    /\ k \in tasks[c]
    /\ tasks' = [tasks EXCEPT ![c] = @ \ {k}]
    /\ dev' = IF tasks[c] = {k} THEN [dev EXCEPT ![c] = NoAddr] ELSE dev
    /\ UNCHANGED <<pc, token, app, ip, server>>

\* A mutated form: run waits for both tasks (join! in place of select!).
TunnelReturnsLate(c) ==
    /\ pc[c] = "run"
    /\ tasks[c] = {}
    /\ Goto(c, "unregister")
    /\ UNCHANGED <<token, app, ip, dev, tasks, server>>

\* A mutated form: the address is released and the listing forgotten.
TunnelReturnsListed(c) ==
    /\ pc[c] = "run"
    /\ tasks[c] # Tasks
    /\ Goto(c, "release")
    /\ UNCHANGED <<token, app, ip, dev, tasks, server>>

\* The select! of run returns when one task is done.  It drops the handle of
\* the other task, which detaches it and does not stop it.
TunnelReturns(c) ==
    /\ pc[c] = "run"
    /\ tasks[c] # Tasks
    /\ Goto(c, "unregister")
    /\ UNCHANGED <<token, app, ip, dev, tasks, server>>

Unregister(c) ==
    /\ pc[c] = "unregister"
    /\ Goto(c, "release")
    /\ Sess!UnregisterTunnel(token[c])
    /\ UNCHANGED <<token, app, ip, dev, tasks, assigned, issued, current, dtlsStore>>

ReleaseIp(c) ==
    /\ pc[c] = "release"
    /\ GiveUpAddress(c)
    /\ UNCHANGED <<token, app, dev, tasks, sessions, issued, current, dtlsStore>>

\* The process stops, by a failure or by hand, and is started again.  Nothing
\* is kept on disk; the kernel removes the TUN devices.
Restart ==
    /\ pc'    = [c \in Conns |-> "idle"]
    /\ token' = [c \in Conns |-> NoToken]
    /\ app'   = [c \in Conns |-> NoApp]
    /\ ip'    = [c \in Conns |-> NoAddr]
    /\ dev'   = [c \in Conns |-> NoAddr]
    /\ tasks' = [c \in Conns |-> {}]
    /\ assigned' = Pool!Reserved
    /\ sessions' = [i \in SessionIds |-> NoSession]
    /\ dtlsStore' = [d \in AppIds |-> "absent"]
    /\ current' = {}
    /\ UNCHANGED issued

Handler(c) ==
    \/ Accept(c) \/ Login(c) \/ CloseHttp(c) \/ Connect(c)
    \/ ValidateSession(c)
    \/ AllocateIp(c) \/ AllocateFails(c)
    \/ SendResponse(c) \/ ResponseFails(c)
    \/ CreateTun(c) \/ CreateTunFails(c)
    \/ LinkDtls(c) \/ RegisterTunnel(c)
    \/ TunnelReturns(c) \/ Unregister(c) \/ ReleaseIp(c)

Next ==
    \/ \E c \in Conns : Handler(c) \/ \E k \in Tasks : TaskEnds(c, k)
    \/ Restart

Spec == Init /\ [][Next]_vars

\* The runtime polls a task that can run: the steps of the handler after the
\* tunnel wait for nothing but a mutex.  Nothing is assumed of the peer, nor of
\* the task that is left.
Fairness ==
    \A c \in Conns :
        /\ WF_vars(TunnelReturns(c))
        /\ WF_vars(Unregister(c))
        /\ WF_vars(ReleaseIp(c))

FairSpec == Spec /\ Fairness

-----------------------------------------------------------------------------
(* Properties that hold *)

\* The types, and that a connection has an address exactly on the steps from
\* allocate to release of the CONNECT handler.
Session == [token : Tokens, vpn_ip : Pool!Hosts \cup {NoAddr},
            remote : Conns \cup {NoConn}]

Holding == {"respond", "tun", "link", "register", "run", "unregister", "release"}

TypeOK ==
    /\ pc \in [Conns -> Steps]
    /\ token \in [Conns -> Tokens \cup {NoToken}]
    /\ app \in [Conns -> AppIds \cup {NoApp}]
    /\ ip \in [Conns -> Pool!Hosts \cup {NoAddr}]
    /\ dev \in [Conns -> Pool!Hosts \cup {NoAddr}]
    /\ tasks \in [Conns -> SUBSET Tasks]
    /\ Pool!PoolTypeOK
    /\ sessions \in [SessionIds -> Session \cup {NoSession}]
    /\ issued \subseteq Tokens /\ current \subseteq issued
    /\ dtlsStore \in [AppIds -> {"absent", "stored", "linked"}]
    /\ \A c \in Conns : ip[c] # NoAddr <=> pc[c] \in Holding

\* The pool and the connections agree: an address is out of the pool exactly
\* when it is reserved or one connection of the server holds it.  No path out
\* of the handler loses an address or gives back one of another connection.
Leased == {a \in Pool!Hosts : \E c \in Conns : ip[c] = a}

LeasesMatchPool ==
    /\ assigned = Pool!Reserved \cup Leased
    /\ \A c, d \in Conns : ip[c] = ip[d] /\ ip[c] # NoAddr => c = d

\* show_users never reports a stale row: an address in the answer is held, at
\* that moment, by the connection of the row, for the session of the row.
ListedIsLeased ==
    \A s \in Sess!ShowUsers :
        /\ s.remote \in Conns
        /\ ip[s.remote] = s.vpn_ip
        /\ token[s.remote] = s.token
        /\ pc[s.remote] \in {"run", "unregister"}

\* Only a client that the running process has logged in gets an address: a
\* cookie of an earlier process is worth nothing, although clients keep theirs
\* over a restart, and however logins, CONNECTs and restarts interleave.
LeaseNeedsLogin == \A c \in Conns : ip[c] # NoAddr => token[c] \in current

\* The row of a running tunnel is disturbed by no other user: it changes only
\* when another connection with the same token registers or unregisters, or
\* when a login draws the session id of this session.
RowOf(c) == [token |-> token[c], vpn_ip |-> ip[c], remote |-> c]

ListingLostOnlyToSameSession ==
    [][\A c \in Conns : \A i \in SessionIds :
          (sessions[i] = RowOf(c) /\ pc[c] = "run" /\ pc'[c] = "run"
             /\ sessions'[i] # sessions[i])
          => \/ issued' # issued
             \/ \E d \in Conns \ {c} : /\ token[d] = token[c]
                                       /\ pc[d] \in {"register", "unregister"}
                                       /\ pc'[d] # pc[d]]_vars

\* A client is turned away for want of an address only when every host address
\* is held by a connection: none is lost on an error path or kept by a tunnel
\* that is gone.
RefusedOnlyWhenFull ==
    [][\A c \in Conns : AllocateFails(c) => Leased = Pool!Hosts]_vars

\* Once a task of a tunnel has ended, whichever it is and whatever the other
\* one does, the address of the connection returns to the pool.
FinishedTunnelReleases ==
    \A c \in Conns : (pc[c] = "run" /\ tasks[c] # Tasks) ~> (ip[c] = NoAddr)

\* Seen from outside, the server leases addresses as AddressLease says.
Lease == INSTANCE AddressLease WITH Clients <- Conns, Addrs <- Pool!Hosts,
                                    None <- NoAddr, lease <- ip
ImplementsLease == Lease!Spec

-----------------------------------------------------------------------------
(* What the documentation says and the code does not do *)

\* The session manager keeps, for every connected user, the address in use:
\* a tunnel that runs, and whose session exists, is listed.
RunningIsListed ==
    \A c \in Conns :
        (pc[c] = "run" /\ tasks[c] = Tasks /\ Sess!ValidToken(token[c]))
        => \E s \in Sess!ShowUsers : s.token = token[c]

\* An available address is in use nowhere: no two TUN devices of the server
\* have the same peer address.
OneDevicePerAddress ==
    \A c, d \in Conns : dev[c] = dev[d] /\ dev[c] # NoAddr => c = d
=============================================================================
