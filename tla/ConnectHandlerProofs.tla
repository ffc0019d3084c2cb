------------------------ MODULE ConnectHandlerProofs ------------------------
(***************************************************************************)
(* Proofs about ConnectHandler for every value of its constants: any       *)
(* network size, any set of connections, tokens and session ids.           *)
(***************************************************************************)
EXTENDS ConnectHandler, Induction

\* The inductive invariant of the address pool.  TypeOK alone is not
\* inductive: that allocate returns a host address rests on the reserved
\* addresses being assigned, which is a part of LeasesMatchPool.
Inv == TypeOK /\ LeasesMatchPool

-----------------------------------------------------------------------------

\* A free address is a host address that no connection holds.
LEMMA FreeIsUnleased ==
    ASSUME Inv, NEW a, Pool!Allocate(a)
    PROVE  /\ a \in Pool!Hosts
           /\ \A d \in Conns : ip[d] # a
           /\ assigned' = assigned \cup {a}
BY DEF Inv, LeasesMatchPool, Leased, Pool!Allocate, Pool!Lowest, Pool!Free, Pool!Hosts

\* The addresses of IpPool: hosts and reserved addresses are apart, and no
\* address is mistaken for "none".
LEMMA AddressTypes ==
    /\ Pool!Reserved \subseteq Pool!Addresses
    /\ Pool!Hosts \subseteq Pool!Addresses
    /\ Pool!Hosts \cap Pool!Reserved = {}
    /\ NoAddr \notin Pool!Addresses
BY ConnectAssumption DEF Pool!Reserved, Pool!Hosts, Pool!Addresses, Pool!Gateway

\* ServerState::new and IpPool::new establish the invariant.
LEMMA InitInv == Init => Inv
<1> SUFFICES ASSUME Init PROVE Inv
    OBVIOUS
<1>1. TypeOK
    BY AddressTypes DEF Init, TypeOK, Steps, Holding, Pool!PoolTypeOK, Pool!PoolInit,
        Sess!SessionsInit
<1>2. LeasesMatchPool
    BY AddressTypes DEF Init, LeasesMatchPool, Leased, Pool!PoolInit
<1>3. QED
    BY <1>1, <1>2 DEF Inv

\* The assignments of register_tunnel and unregister_tunnel keep the table a
\* table of sessions, whatever the token is.
LEMMA SetTunnelType ==
    ASSUME sessions \in [SessionIds -> Session \cup {NoSession}],
           NEW t, NEW a \in Pool!Hosts \cup {NoAddr}, NEW c \in Conns \cup {NoConn},
           Sess!SetTunnel(t, a, c)
    PROVE  sessions' \in [SessionIds -> Session \cup {NoSession}]
<1> DEFINE row(i) == IF i \in Sess!WithToken(t)
                     THEN [token |-> t, vpn_ip |-> a, remote |-> c] ELSE sessions[i]
<1>1. \A i \in SessionIds : row(i) \in Session \cup {NoSession}
    BY DEF Session, Sess!WithToken
<1>2. sessions' = [i \in SessionIds |-> row(i)]
    BY DEF Sess!SetTunnel
<1>3. QED
    BY <1>1, <1>2

\* The release at the end of the handler and on its error paths: the address
\* of c, and no other, goes back to the pool.
LEMMA GiveUpInv ==
    ASSUME Inv, NEW c \in Conns, pc[c] \in Holding, GiveUpAddress(c)
    PROVE  /\ ip' \in [Conns -> Pool!Hosts \cup {NoAddr}]
           /\ pc' \in [Conns -> Steps]
           /\ Pool!PoolTypeOK'
           /\ \A d \in Conns : ip'[d] # NoAddr <=> pc'[d] \in Holding
           /\ LeasesMatchPool'
<1>1. ip[c] \in Pool!Hosts /\ ip[c] \notin Pool!Reserved
    BY AddressTypes DEF Inv, TypeOK
<1>2. assigned' = assigned \ {ip[c]}
    BY <1>1 DEF GiveUpAddress, Pool!Release
<1>3. /\ ip' = [ip EXCEPT ![c] = NoAddr]
      /\ pc' = [pc EXCEPT ![c] = "idle"]
    BY DEF GiveUpAddress, Goto
<1>4. ip' \in [Conns -> Pool!Hosts \cup {NoAddr}]
    BY <1>3 DEF Inv, TypeOK
<1>5. pc' \in [Conns -> Steps]
    BY <1>3 DEF Inv, TypeOK, Steps
<1>6. Pool!PoolTypeOK'
    BY <1>2 DEF Inv, TypeOK, Pool!PoolTypeOK, Pool!Addresses
<1>7. \A d \in Conns : ip'[d] # NoAddr <=> pc'[d] \in Holding
    BY <1>3 DEF Inv, TypeOK, Holding
<1>8. LeasesMatchPool'
    <2>1. \A d, e \in Conns : ip'[d] = ip'[e] /\ ip'[d] # NoAddr => d = e
        BY <1>3 DEF Inv, TypeOK, LeasesMatchPool
    <2>2. Leased' = Leased \ {ip[c]}
        <3>1. \A d \in Conns \ {c} : ip[d] # ip[c]
            BY <1>1, AddressTypes DEF Inv, LeasesMatchPool
        <3>2. \A d \in Conns : ip'[d] = IF d = c THEN NoAddr ELSE ip[d]
            BY <1>3 DEF Inv, TypeOK
        <3>3. QED
            BY <3>1, <3>2, AddressTypes DEF Leased, Pool!Hosts, Pool!Addresses, Pool!Reserved, Pool!Gateway
    <2>3. assigned' = Pool!Reserved' \cup Leased'
        BY <1>1, <1>2, <2>2 DEF Inv, LeasesMatchPool, Pool!Reserved, Pool!Gateway
    <2>4. QED
        BY <2>1, <2>3 DEF LeasesMatchPool
<1>9. QED
    BY <1>4, <1>5, <1>6, <1>7, <1>8

\* The allocation: c, which had no address, gets one that nobody has.
LEMMA AllocateInv ==
    ASSUME Inv, NEW c \in Conns, AllocateIp(c)
    PROVE  Inv'
<1>1. PICK a \in Pool!Addresses : Pool!Allocate(a) /\ ip' = [ip EXCEPT ![c] = a]
    BY DEF AllocateIp
<1>2. /\ a \in Pool!Hosts
      /\ \A d \in Conns : ip[d] # a
      /\ assigned' = assigned \cup {a}
    BY <1>1, FreeIsUnleased
<1>3. /\ pc[c] = "allocate"
      /\ pc' = [pc EXCEPT ![c] = "respond"]
      /\ UNCHANGED <<token, app, dev, tasks, sessions, issued, current, dtlsStore>>
    BY DEF AllocateIp, Goto
<1>4. TypeOK'
    <2>1. ip' \in [Conns -> Pool!Hosts \cup {NoAddr}]
        BY <1>1, <1>2 DEF Inv, TypeOK
    <2>2. pc' \in [Conns -> Steps]
        BY <1>3 DEF Inv, TypeOK, Steps
    <2>3. Pool!PoolTypeOK'
        BY <1>1, <1>2 DEF Inv, TypeOK, Pool!PoolTypeOK, Pool!Addresses
    <2>4. \A d \in Conns : ip'[d] # NoAddr <=> pc'[d] \in Holding
        BY <1>1, <1>2, <1>3, AddressTypes DEF Inv, TypeOK, Holding
    <2>5. QED
        BY <1>3, <2>1, <2>2, <2>3, <2>4 DEF Inv, TypeOK, Session, Pool!Hosts, Pool!Addresses,
            Pool!Reserved, Pool!Gateway
<1>5. LeasesMatchPool'
    <2>1. \A d \in Conns : ip'[d] = IF d = c THEN a ELSE ip[d]
        BY <1>1 DEF Inv, TypeOK
    <2>2. ip[c] = NoAddr
        BY <1>3 DEF Inv, TypeOK, Holding
    <2>3. Leased' = Leased \cup {a}
        BY <1>2, <2>1, <2>2, AddressTypes DEF Leased, Pool!Hosts, Pool!Addresses, Pool!Reserved, Pool!Gateway
    <2>4. \A d, e \in Conns : ip'[d] = ip'[e] /\ ip'[d] # NoAddr => d = e
        BY <1>2, <2>1 DEF Inv, LeasesMatchPool
    <2>5. QED
        BY <1>2, <2>3, <2>4 DEF Inv, LeasesMatchPool, Pool!Reserved, Pool!Gateway
<1>6. QED
    BY <1>4, <1>5 DEF Inv

\* A step of c between two points outside the pool and the listing: the pool
\* part of the state stays, and c stays on its side of Holding.
LEMMA MoveInv ==
    ASSUME Inv, NEW c \in Conns, NEW step \in Steps, Goto(c, step),
           pc[c] \in Holding <=> step \in Holding,
           UNCHANGED <<ip, assigned>>
    PROVE  /\ pc' \in [Conns -> Steps]
           /\ ip' \in [Conns -> Pool!Hosts \cup {NoAddr}]
           /\ Pool!PoolTypeOK'
           /\ \A d \in Conns : ip'[d] # NoAddr <=> pc'[d] \in Holding
           /\ LeasesMatchPool'
<1>1. pc' = [pc EXCEPT ![c] = step]
    BY DEF Goto
<1>2. Leased' = Leased
    BY DEF Leased, Pool!Hosts, Pool!Addresses, Pool!Reserved, Pool!Gateway
<1>3. QED
    BY <1>1, <1>2 DEF Inv, TypeOK, LeasesMatchPool, Pool!PoolTypeOK, Pool!Addresses,
        Pool!Reserved, Pool!Gateway

\* Every step of the server keeps the invariant; one case per action.
LEMMA NextInv == Inv /\ [Next]_vars => Inv'
<1> SUFFICES ASSUME Inv, [Next]_vars PROVE Inv'
    OBVIOUS
<1> USE DEF Session, Pool!Hosts, Pool!Addresses, Pool!Reserved, Pool!Gateway, Steps
<1>1. ASSUME NEW c \in Conns, Accept(c) PROVE Inv'
    <2>1. Goto(c, "http") /\ pc[c] = "idle"
        BY <1>1 DEF Accept
    <2>2. QED
        BY <1>1, <2>1, MoveInv DEF Accept, Inv, TypeOK, server, Holding
<1>2. ASSUME NEW c \in Conns, Login(c) PROVE Inv'
    <2>1. PICK t \in Tokens : Sess!CreateSession(t) /\ issued' = issued \cup {t}
                           /\ current' = current \cup {t}
        BY <1>2 DEF Login
    <2>2. sessions' \in [SessionIds -> Session \cup {NoSession}]
        BY <2>1 DEF Sess!CreateSession, Sess!NewSession, Inv, TypeOK
    <2>3. QED
        BY <1>2, <2>1, <2>2 DEF Login, Inv, TypeOK, LeasesMatchPool, Leased, Pool!PoolTypeOK, Holding
<1>3. ASSUME NEW c \in Conns, CloseHttp(c) PROVE Inv'
    BY <1>3, MoveInv DEF CloseHttp, Inv, TypeOK, server, Holding
<1>4. ASSUME NEW c \in Conns, Connect(c) PROVE Inv'
    <2>1. Goto(c, "validate") /\ pc[c] = "http" /\ UNCHANGED <<ip, assigned>>
        BY <1>4 DEF Connect
    <2>2. token' \in [Conns -> Tokens \cup {NoToken}]
        BY <1>4 DEF Connect, Inv, TypeOK
    <2>3. /\ app' \in [Conns -> AppIds \cup {NoApp}]
          /\ dtlsStore' \in [AppIds -> {"absent", "stored", "linked"}]
        BY <1>4 DEF Connect, Inv, TypeOK
    <2>4. QED
        BY <1>4, <2>1, <2>2, <2>3, MoveInv DEF Connect, Inv, TypeOK, Holding
<1>5. ASSUME NEW c \in Conns, ValidateSession(c) PROVE Inv'
    <2>1. PICK step \in {"allocate", "idle"} : Goto(c, step)
        BY <1>5 DEF ValidateSession
    <2>2. QED
        BY <1>5, <2>1, MoveInv DEF ValidateSession, Inv, TypeOK, server, Holding
<1>6. ASSUME NEW c \in Conns, AllocateIp(c) PROVE Inv'
    BY <1>6, AllocateInv
<1>7. ASSUME NEW c \in Conns, AllocateFails(c) PROVE Inv'
    BY <1>7, MoveInv DEF AllocateFails, Inv, TypeOK, server, Holding
<1>8. ASSUME NEW c \in Conns, SendResponse(c) PROVE Inv'
    BY <1>8, MoveInv DEF SendResponse, Inv, TypeOK, server, Holding
<1>9. ASSUME NEW c \in Conns, ResponseFails(c) PROVE Inv'
    BY <1>9, GiveUpInv DEF ResponseFails, Inv, TypeOK, Holding
<1>10. ASSUME NEW c \in Conns, CreateTun(c) PROVE Inv'
    BY <1>10, MoveInv DEF CreateTun, Inv, TypeOK, server, Holding
<1>11. ASSUME NEW c \in Conns, CreateTunFails(c) PROVE Inv'
    BY <1>11, GiveUpInv DEF CreateTunFails, Inv, TypeOK, Holding
<1>12. ASSUME NEW c \in Conns, LinkDtls(c) PROVE Inv'
    <2>1. dtlsStore' \in [AppIds -> {"absent", "stored", "linked"}]
        BY <1>12 DEF LinkDtls, Inv, TypeOK
    <2>2. QED
        BY <1>12, <2>1, MoveInv DEF LinkDtls, Inv, TypeOK, Holding
<1>13. ASSUME NEW c \in Conns, RegisterTunnel(c) PROVE Inv'
    <2>1. sessions' \in [SessionIds -> Session \cup {NoSession}]
        BY <1>13, SetTunnelType DEF RegisterTunnel, Sess!RegisterTunnel, Inv, TypeOK
    <2>2. QED
        BY <1>13, <2>1, MoveInv DEF RegisterTunnel, Inv, TypeOK, Holding
<1>14. ASSUME NEW c \in Conns, TunnelReturns(c) PROVE Inv'
    BY <1>14, MoveInv DEF TunnelReturns, Inv, TypeOK, server, Holding
<1>15. ASSUME NEW c \in Conns, Unregister(c) PROVE Inv'
    <2>1. sessions' \in [SessionIds -> Session \cup {NoSession}]
        BY <1>15, SetTunnelType DEF Unregister, Sess!UnregisterTunnel, Inv, TypeOK
    <2>2. QED
        BY <1>15, <2>1, MoveInv DEF Unregister, Inv, TypeOK, Holding
<1>16. ASSUME NEW c \in Conns, ReleaseIp(c) PROVE Inv'
    BY <1>16, GiveUpInv DEF ReleaseIp, Inv, TypeOK, Holding
<1>17. ASSUME NEW c \in Conns, NEW k \in Tasks, TaskEnds(c, k) PROVE Inv'
    BY <1>17 DEF TaskEnds, server, Inv, TypeOK, LeasesMatchPool, Leased, Pool!PoolTypeOK, Holding
<1>18. ASSUME Restart PROVE Inv'
    <2>1. TypeOK'
        BY <1>18, AddressTypes DEF Restart, Inv, TypeOK, Pool!PoolTypeOK, Holding
    <2>2. LeasesMatchPool'
        BY <1>18, AddressTypes DEF Restart, LeasesMatchPool, Leased
    <2>3. QED
        BY <2>1, <2>2 DEF Inv
<1>19. ASSUME UNCHANGED vars PROVE Inv'
    BY <1>19 DEF vars, server, Inv, TypeOK, LeasesMatchPool, Leased, Pool!PoolTypeOK
<1>20. QED
    BY <1>1, <1>2, <1>3, <1>4, <1>5, <1>6, <1>7, <1>8, <1>9, <1>10, <1>11, <1>12, <1>13,
       <1>14, <1>15, <1>16, <1>17, <1>18, <1>19 DEF Next, Handler

\* The invariant holds of every behaviour of the server.
THEOREM InvHolds == Spec => []Inv
BY InitInv, NextInv, PTL DEF Spec

\* The state is well typed, and a connection holds an address exactly from the
\* allocate to the release of its CONNECT handler.
THEOREM TypeCorrect == Spec => []TypeOK
<1>1. Inv => TypeOK
    BY DEF Inv
<1>2. QED
    BY <1>1, InvHolds, PTL

\* Pool and connections agree at all times: no address is leaked, none is held
\* twice, and the reserved ones are never handed out.
THEOREM PoolCorrect == Spec => []LeasesMatchPool
<1>1. Inv => LeasesMatchPool
    BY DEF Inv
<1>2. QED
    BY <1>1, InvHolds, PTL

-----------------------------------------------------------------------------

\* allocate leaves no case out: in a network of any size it reports exhaustion,
\* or there is exactly one address that it can return, the lowest free one.
THEOREM AllocateTotal ==
    \/ Pool!Exhausted
    \/ \E a \in Pool!Addresses :
          Pool!Lowest(a, Pool!Free) /\ \A b \in Pool!Addresses : Pool!Lowest(b, Pool!Free) => b = a
<1>1. Pool!Free \subseteq Nat
    BY ConnectAssumption DEF ConnectAssumption, Pool!Free, Pool!Addresses
<1>2. CASE Pool!Free # {}
    <2> DEFINE a == Min(Pool!Free)
    <2>1. a \in Pool!Free /\ \A y \in Pool!Free : a <= y
        BY <1>1, <1>2, LeastNat
    <2> HIDE DEF a
    <2>2. Pool!Lowest(a, Pool!Free) /\ a \in Pool!Addresses
        BY <2>1 DEF Pool!Lowest, Pool!Free
    <2>3. ASSUME NEW b \in Pool!Addresses, Pool!Lowest(b, Pool!Free)
          PROVE  b = a
        <3>1. b \in Pool!Free /\ b <= a /\ a <= b
            BY <2>1, <2>3 DEF Pool!Lowest
        <3>2. a \in Nat /\ b \in Nat
            BY <1>1, <2>1, <3>1
        <3>3. QED
            BY <3>1, <3>2
    <2>4. QED
        BY <2>2, <2>3
<1>3. QED
    BY <1>2 DEF Pool!Exhausted

\* allocate reports exhaustion only when every host address is held by a
\* connection: the set of assigned addresses has no room for a lost one.
THEOREM RefusalsJustified == Spec => RefusedOnlyWhenFull
<1>1. Inv => \A c \in Conns : AllocateFails(c) => Leased = Pool!Hosts
    BY DEF Inv, LeasesMatchPool, AllocateFails, Pool!Exhausted, Pool!Free, Pool!Hosts, Leased
<1>2. QED
    BY <1>1, InvHolds, PTL DEF RefusedOnlyWhenFull

\* Every step of the server leaves the leases alone, takes one, gives one
\* back, or is a restart: the server implements AddressLease.
THEOREM LeasesImplemented == Spec => ImplementsLease
<1>1. Init => Lease!Init
    BY DEF Init, Lease!Init
<1>2. Inv /\ [Next]_vars => [Lease!Next]_ip
    <2> SUFFICES ASSUME Inv, [Next]_vars PROVE [Lease!Next]_ip
        OBVIOUS
    <2>1. ASSUME NEW c \in Conns, AllocateIp(c) PROVE Lease!Take(c)
        <3>1. PICK a \in Pool!Addresses : Pool!Allocate(a) /\ ip' = [ip EXCEPT ![c] = a]
            BY <2>1 DEF AllocateIp
        <3>2. a \in Pool!Hosts /\ \A d \in Conns : ip[d] # a
            BY <3>1, FreeIsUnleased
        <3>3. ip[c] = NoAddr
            BY <2>1 DEF AllocateIp, Inv, TypeOK, Holding
        <3>4. QED
            BY <3>1, <3>2, <3>3 DEF Lease!Take
    <2>2. ASSUME NEW c \in Conns, pc[c] \in Holding, GiveUpAddress(c) PROVE Lease!GiveBack(c)
        BY <2>2 DEF GiveUpAddress, Lease!GiveBack, Inv, TypeOK
    <2>3. ASSUME NEW c \in Conns, ResponseFails(c) \/ CreateTunFails(c) \/ ReleaseIp(c)
          PROVE  Lease!GiveBack(c)
        BY <2>2, <2>3 DEF ResponseFails, CreateTunFails, ReleaseIp, Holding
    <2>4. ASSUME Restart PROVE Lease!TakeAllBack
        BY <2>4 DEF Restart, Lease!TakeAllBack
    <2>5. ASSUME NEW c \in Conns, NEW k \in Tasks,
                 \/ Accept(c) \/ Login(c) \/ CloseHttp(c) \/ Connect(c)
                 \/ ValidateSession(c) \/ AllocateFails(c) \/ SendResponse(c)
                 \/ CreateTun(c) \/ LinkDtls(c) \/ RegisterTunnel(c)
                 \/ TunnelReturns(c) \/ Unregister(c) \/ TaskEnds(c, k)
          PROVE  UNCHANGED ip
        BY <2>5 DEF Accept, Login, CloseHttp, Connect, ValidateSession, AllocateFails,
            SendResponse, CreateTun, LinkDtls, RegisterTunnel, TunnelReturns, Unregister,
            TaskEnds
    <2>6. QED
        BY <2>1, <2>3, <2>4, <2>5 DEF Next, Handler, vars, Tasks, Lease!Next
<1>3. QED
    BY <1>1, <1>2, InvHolds, PTL DEF Spec, ImplementsLease, Lease!Spec

-----------------------------------------------------------------------------

\* The inductive form of LeaseNeedsLogin: every token in the table is one of the
\* running process, and a handler past the validation has presented one.
LoginInv ==
    /\ \A i \in SessionIds : sessions[i] # NoSession => sessions[i].token \in current
    /\ \A c \in Conns : pc[c] \in Holding \cup {"allocate"} => token[c] \in current

\* SetTunnel keeps the token of every session.
LEMMA SetTunnelKeepsTokens ==
    ASSUME sessions \in [SessionIds -> Session \cup {NoSession}],
           NEW t, NEW a \in Pool!Hosts \cup {NoAddr}, NEW c \in Conns \cup {NoConn},
           Sess!SetTunnel(t, a, c)
    PROVE  \A i \in SessionIds : sessions'[i] # NoSession =>
               sessions[i] # NoSession /\ sessions'[i].token = sessions[i].token
BY DEF Sess!SetTunnel, Sess!WithToken

\* Every step keeps LoginInv: tokens enter the table when they are issued, and
\* a connection gets past the validation only with a token of the table.
LEMMA LoginInvNext == Inv /\ LoginInv /\ [Next]_vars => LoginInv'
<1> SUFFICES ASSUME Inv, LoginInv, [Next]_vars PROVE LoginInv'
    OBVIOUS
<1>1. ASSUME NEW c \in Conns, Login(c) PROVE LoginInv'
    <2>1. PICK t \in Tokens : Sess!CreateSession(t) /\ issued' = issued \cup {t}
                           /\ current' = current \cup {t}
        BY <1>1 DEF Login
    <2>2. \A i \in SessionIds : sessions'[i] # NoSession => sessions'[i].token \in current'
        BY <2>1 DEF Sess!CreateSession, Sess!NewSession, LoginInv, Inv, TypeOK
    <2>3. QED
        BY <1>1, <2>1, <2>2 DEF Login, LoginInv
<1>2. ASSUME NEW c \in Conns, Accept(c) \/ Connect(c) PROVE LoginInv'
    <2>1. PICK step \in {"http", "validate"} : pc' = [pc EXCEPT ![c] = step]
        BY <1>2 DEF Accept, Connect, Goto
    <2>2. \A d \in Conns \ {c} : token'[d] = token[d]
        BY <1>2 DEF Accept, Connect, Inv, TypeOK
    <2>3. QED
        BY <1>2, <2>1, <2>2 DEF Accept, Connect, LoginInv, Inv, TypeOK, Holding, server
<1>3. ASSUME NEW c \in Conns, ValidateSession(c) PROVE LoginInv'
    <2>1. Sess!ValidToken(token[c]) => token[c] \in current
        BY DEF Sess!ValidToken, Sess!WithToken, LoginInv
    <2>2. QED
        BY <1>3, <2>1 DEF ValidateSession, Goto, LoginInv, Inv, TypeOK, Holding, server
<1>4. ASSUME NEW c \in Conns, AllocateIp(c) \/ LinkDtls(c) PROVE LoginInv'
    BY <1>4 DEF AllocateIp, LinkDtls, Goto, LoginInv, Inv, TypeOK, Holding
<1>5. ASSUME NEW c \in Conns, RegisterTunnel(c) PROVE LoginInv'
    <2>1. \A i \in SessionIds : sessions'[i] # NoSession =>
              sessions[i] # NoSession /\ sessions'[i].token = sessions[i].token
        BY <1>5, SetTunnelKeepsTokens DEF RegisterTunnel, Sess!RegisterTunnel, Inv, TypeOK, Holding
    <2>2. QED
        BY <1>5, <2>1 DEF RegisterTunnel, Goto, LoginInv, Inv, TypeOK, Holding
<1>6. ASSUME NEW c \in Conns, Unregister(c) PROVE LoginInv'
    <2>1. \A i \in SessionIds : sessions'[i] # NoSession =>
              sessions[i] # NoSession /\ sessions'[i].token = sessions[i].token
        BY <1>6, SetTunnelKeepsTokens DEF Unregister, Sess!UnregisterTunnel, Inv, TypeOK
    <2>2. QED
        BY <1>6, <2>1 DEF Unregister, Goto, LoginInv, Inv, TypeOK, Holding
<1>7. ASSUME NEW c \in Conns,
             \/ CloseHttp(c) \/ AllocateFails(c) \/ SendResponse(c) \/ CreateTun(c)
             \/ TunnelReturns(c)
      PROVE  LoginInv'
    BY <1>7 DEF CloseHttp, AllocateFails, SendResponse, CreateTun, TunnelReturns, Goto,
        LoginInv, Inv, TypeOK, Holding, server
<1>8. ASSUME NEW c \in Conns, ResponseFails(c) \/ CreateTunFails(c) \/ ReleaseIp(c)
      PROVE  LoginInv'
    BY <1>8 DEF ResponseFails, CreateTunFails, ReleaseIp, GiveUpAddress, Goto, LoginInv,
        Inv, TypeOK, Holding
<1>9. ASSUME NEW c \in Conns, NEW k \in Tasks, TaskEnds(c, k) PROVE LoginInv'
    BY <1>9 DEF TaskEnds, LoginInv, server
<1>10. ASSUME Restart PROVE LoginInv'
    BY <1>10 DEF Restart, LoginInv, Holding
<1>11. ASSUME UNCHANGED vars PROVE LoginInv'
    BY <1>11 DEF vars, server, LoginInv
<1>12. QED
    BY <1>1, <1>2, <1>3, <1>4, <1>5, <1>6, <1>7, <1>8, <1>9, <1>10, <1>11 DEF Next, Handler

\* An address is held only for a token of a login to the running process.
THEOREM LoginRequired == Spec => []LeaseNeedsLogin
<1>1. Init => LoginInv
    BY DEF Init, LoginInv, Holding, Sess!SessionsInit
<1>2. Inv /\ LoginInv => LeaseNeedsLogin
    BY DEF Inv, TypeOK, LoginInv, LeaseNeedsLogin
<1>3. QED
    BY <1>1, <1>2, LoginInvNext, InvHolds, PTL DEF Spec

-----------------------------------------------------------------------------

\* ListedIsLeased row by row, in the form the provers use.
RowsLeased ==
    \A i \in SessionIds :
        (sessions[i] # NoSession /\ sessions[i].vpn_ip # NoAddr) =>
            \E c \in Conns : /\ sessions[i] = RowOf(c)
                             /\ pc[c] \in {"run", "unregister"}

\* Every step keeps RowsLeased: a row is written by a connection that runs,
\* and is gone before that connection gives its address back.
LEMMA RowsLeasedNext == Inv /\ RowsLeased /\ [Next]_vars => RowsLeased'
<1> SUFFICES ASSUME Inv, RowsLeased, [Next]_vars,
                    NEW i \in SessionIds,
                    sessions'[i] # NoSession, sessions'[i].vpn_ip # NoAddr
             PROVE  \E c \in Conns : /\ sessions'[i] = RowOf(c)'
                                     /\ pc'[c] \in {"run", "unregister"}
    BY DEF RowsLeased
<1> DEFINE Live(c) == pc[c] \in {"run", "unregister"}
\* A step that leaves the row, and the connection of the row, as they are.
<1>1. ASSUME sessions'[i] = sessions[i],
             \A c \in Conns : Live(c) => /\ Live(c)'
                                         /\ token'[c] = token[c]
                                         /\ ip'[c] = ip[c]
      PROVE  \E c \in Conns : sessions'[i] = RowOf(c)' /\ Live(c)'
    BY <1>1, ZenonT(60) DEF RowsLeased, RowOf
<1>2. ASSUME NEW c \in Conns, Login(c)
      PROVE  \E d \in Conns : sessions'[i] = RowOf(d)' /\ Live(d)'
    <2>1. sessions'[i] = sessions[i]
        BY <1>2 DEF Login, Sess!CreateSession, Sess!NewSession, Inv, TypeOK
    <2>2. QED
        BY <1>1, <1>2, <2>1 DEF Login
<1>3. ASSUME NEW c \in Conns, ~Live(c), UNCHANGED sessions,
             \A d \in Conns \ {c} : pc'[d] = pc[d] /\ token'[d] = token[d] /\ ip'[d] = ip[d]
      PROVE  \E d \in Conns : sessions'[i] = RowOf(d)' /\ Live(d)'
    BY <1>1, <1>3
<1>4. ASSUME NEW c \in Conns,
             \/ Accept(c) \/ CloseHttp(c) \/ Connect(c) \/ ValidateSession(c)
             \/ AllocateIp(c) \/ AllocateFails(c) \/ SendResponse(c) \/ ResponseFails(c)
             \/ CreateTun(c) \/ CreateTunFails(c) \/ LinkDtls(c) \/ ReleaseIp(c)
      PROVE  \E d \in Conns : sessions'[i] = RowOf(d)' /\ Live(d)'
    <2>1. ~Live(c) /\ UNCHANGED sessions
        BY <1>4 DEF Accept, CloseHttp, Connect, ValidateSession, AllocateIp, AllocateFails,
            SendResponse, ResponseFails, CreateTun, CreateTunFails, LinkDtls, ReleaseIp, server
    <2>2. \A d \in Conns \ {c} : pc'[d] = pc[d] /\ token'[d] = token[d] /\ ip'[d] = ip[d]
        BY <1>4 DEF Accept, CloseHttp, Connect, ValidateSession, AllocateIp, AllocateFails,
            SendResponse, ResponseFails, CreateTun, CreateTunFails, LinkDtls, ReleaseIp,
            GiveUpAddress, Goto, Inv, TypeOK
    <2>3. QED
        BY <1>3, <2>1, <2>2
<1>5. ASSUME NEW c \in Conns, RegisterTunnel(c)
      PROVE  \E d \in Conns : sessions'[i] = RowOf(d)' /\ Live(d)'
    <2>1. pc' = [pc EXCEPT ![c] = "run"] /\ UNCHANGED <<token, ip>>
        BY <1>5 DEF RegisterTunnel, Goto
    <2>2. CASE i \in Sess!WithToken(token[c])
        <3>1. sessions'[i] = [token |-> token[c], vpn_ip |-> ip[c], remote |-> c]
            BY <1>5, <2>2 DEF RegisterTunnel, Sess!RegisterTunnel, Sess!SetTunnel
        <3>2. QED
            BY <2>1, <3>1 DEF RowOf, Inv, TypeOK
    <2>3. CASE i \notin Sess!WithToken(token[c])
        <3>1. sessions'[i] = sessions[i]
            BY <1>5, <2>3 DEF RegisterTunnel, Sess!RegisterTunnel, Sess!SetTunnel
        <3>2. QED
            BY <1>1, <2>1, <3>1 DEF Inv, TypeOK
    <2>4. QED
        BY <2>2, <2>3
<1>6. ASSUME NEW c \in Conns, TunnelReturns(c)
      PROVE  \E d \in Conns : sessions'[i] = RowOf(d)' /\ Live(d)'
    BY <1>1, <1>6 DEF TunnelReturns, Goto, server, Inv, TypeOK
<1>7. ASSUME NEW c \in Conns, Unregister(c)
      PROVE  \E d \in Conns : sessions'[i] = RowOf(d)' /\ Live(d)'
    <2>1. sessions'[i] = sessions[i] /\ i \notin Sess!WithToken(token[c])
        BY <1>7 DEF Unregister, Sess!UnregisterTunnel, Sess!SetTunnel
    <2>2. PICK d \in Conns : sessions[i] = RowOf(d) /\ Live(d)
        BY <2>1 DEF RowsLeased
    <2>3. d # c
        BY <2>1, <2>2 DEF RowOf, Sess!WithToken
    <2>4. QED
        BY <1>7, <2>1, <2>2, <2>3 DEF Unregister, Goto, RowOf, Inv, TypeOK
<1>8. ASSUME NEW c \in Conns, NEW k \in Tasks, TaskEnds(c, k)
      PROVE  \E d \in Conns : sessions'[i] = RowOf(d)' /\ Live(d)'
    BY <1>1, <1>8 DEF TaskEnds, server
<1>9. ~Restart
    BY DEF Restart
<1>10. CASE UNCHANGED vars
    BY <1>1, <1>10 DEF vars, server
<1>11. QED
    BY <1>2, <1>4, <1>5, <1>6, <1>7, <1>8, <1>9, <1>10 DEF Next, Handler

\* What show_users reports is held by a running connection, at all times.
THEOREM ListingCorrect == Spec => []ListedIsLeased
<1>1. Init => RowsLeased
    BY DEF Init, RowsLeased, Sess!SessionsInit
<1>2. RowsLeased => ListedIsLeased
    <2> SUFFICES ASSUME RowsLeased, NEW s \in Sess!ShowUsers
                 PROVE  /\ s.remote \in Conns
                        /\ ip[s.remote] = s.vpn_ip
                        /\ token[s.remote] = s.token
                        /\ pc[s.remote] \in {"run", "unregister"}
        BY DEF ListedIsLeased
    <2>1. PICK i \in SessionIds : /\ s = sessions[i]
                                  /\ sessions[i] # NoSession
                                  /\ sessions[i].vpn_ip # NoAddr
        BY DEF Sess!ShowUsers
    <2>2. PICK c \in Conns : s = RowOf(c) /\ pc[c] \in {"run", "unregister"}
        BY <2>1 DEF RowsLeased
    <2>3. s.remote = c /\ s.vpn_ip = ip[c] /\ s.token = token[c]
        BY <2>2 DEF RowOf
    <2>4. QED
        BY <2>2, <2>3
<1>3. QED
    BY <1>1, <1>2, RowsLeasedNext, InvHolds, PTL DEF Spec

-----------------------------------------------------------------------------

\* A row is changed by a login or by a connection with the token of the row.
LEMMA RowChanged ==
    ASSUME TypeOK, Next, NEW i \in SessionIds, sessions[i] # NoSession,
           sessions'[i] # sessions[i]
    PROVE  \/ issued' # issued
           \/ Restart
           \/ \E d \in Conns : /\ token[d] = sessions[i].token
                               /\ pc[d] \in {"register", "unregister"}
                               /\ pc'[d] # pc[d]
<1>1. CASE \E d \in Conns : Login(d)
    <2>1. PICK d \in Conns : Login(d)
        BY <1>1
    <2>2. PICK t \in Tokens \ issued : issued' = issued \cup {t}
        BY <2>1 DEF Login
    <2>3. QED
        BY <2>2
<1>2. ASSUME NEW d \in Conns, NEW a, NEW c, Sess!SetTunnel(token[d], a, c)
      PROVE  token[d] = sessions[i].token
    BY <1>2 DEF Sess!SetTunnel, Sess!WithToken
<1>3. CASE \E d \in Conns : RegisterTunnel(d)
    <2>1. PICK d \in Conns : RegisterTunnel(d)
        BY <1>3
    <2>2. Sess!SetTunnel(token[d], ip[d], d)
        BY <2>1 DEF RegisterTunnel, Sess!RegisterTunnel
    <2>3. pc[d] = "register" /\ pc'[d] = "run"
        BY <2>1 DEF RegisterTunnel, Goto, TypeOK
    <2>4. QED
        BY <1>2, <2>2, <2>3
<1>4. CASE \E d \in Conns : Unregister(d)
    <2>1. PICK d \in Conns : Unregister(d)
        BY <1>4
    <2>2. Sess!SetTunnel(token[d], NoAddr, NoConn)
        BY <2>1 DEF Unregister, Sess!UnregisterTunnel
    <2>3. pc[d] = "unregister" /\ pc'[d] = "release"
        BY <2>1 DEF Unregister, Goto, TypeOK
    <2>4. QED
        BY <1>2, <2>2, <2>3
<1>5. ASSUME NEW d \in Conns,
             \/ Accept(d) \/ CloseHttp(d) \/ Connect(d) \/ ValidateSession(d)
             \/ AllocateIp(d) \/ AllocateFails(d) \/ SendResponse(d) \/ ResponseFails(d)
             \/ CreateTun(d) \/ CreateTunFails(d) \/ LinkDtls(d) \/ TunnelReturns(d)
             \/ ReleaseIp(d) \/ (\E k \in Tasks : TaskEnds(d, k))
      PROVE  UNCHANGED sessions
    BY <1>5 DEF Accept, CloseHttp, Connect, ValidateSession, AllocateIp, AllocateFails,
        SendResponse, ResponseFails, CreateTun, CreateTunFails, LinkDtls, TunnelReturns,
        ReleaseIp, TaskEnds, server
<1>6. QED
    BY <1>1, <1>3, <1>4, <1>5 DEF Next, Handler

\* The row of a running tunnel is lost only to a connection of the same session
\* or to a login that draws the session id.
THEOREM ListingKept == Spec => ListingLostOnlyToSameSession
<1> DEFINE Kept ==
        \A c \in Conns : \A i \in SessionIds :
            (sessions[i] = RowOf(c) /\ pc[c] = "run" /\ pc'[c] = "run"
               /\ sessions'[i] # sessions[i])
            => \/ issued' # issued
               \/ \E d \in Conns \ {c} : /\ token[d] = token[c]
                                         /\ pc[d] \in {"register", "unregister"}
                                         /\ pc'[d] # pc[d]
<1>1. ASSUME TypeOK, LeaseNeedsLogin, Next PROVE Kept
    <2> SUFFICES ASSUME NEW c \in Conns, NEW i \in SessionIds, sessions[i] = RowOf(c),
                        pc[c] = "run", pc'[c] = "run", sessions'[i] # sessions[i],
                        issued' = issued
                 PROVE  \E d \in Conns \ {c} : /\ token[d] = token[c]
                                               /\ pc[d] \in {"register", "unregister"}
                                               /\ pc'[d] # pc[d]
        OBVIOUS
    <2>1. ~Restart
        BY DEF Restart
    <2>2. sessions[i].token = token[c] /\ sessions[i] # NoSession
        <3>1. token[c] \in Tokens
            BY <1>1 DEF TypeOK, LeaseNeedsLogin, Holding
        <3>2. ip[c] \in 0 .. NetSize - 1 \cup {NoAddr}
            BY <1>1, AddressTypes DEF TypeOK, Pool!Addresses
        <3>3. RowOf(c) # NoSession
            BY <3>1, <3>2, ConnectAssumption DEF ConnectAssumption, RowOf
        <3>4. QED
            BY <3>3 DEF RowOf
    <2>3. PICK d \in Conns : /\ token[d] = sessions[i].token
                             /\ pc[d] \in {"register", "unregister"}
                             /\ pc'[d] # pc[d]
        BY <1>1, <2>1, <2>2, RowChanged
    <2>4. d # c
        BY <2>3
    <2>5. QED
        BY <2>2, <2>3, <2>4
<1>2. TypeOK /\ LeaseNeedsLogin /\ [Next]_vars => [Kept]_vars
    BY <1>1
<1>3. QED
    BY <1>2, TypeCorrect, LoginRequired, PTL DEF Spec, ListingLostOnlyToSameSession

=============================================================================
