--------------------------- MODULE SessionManager ---------------------------
(***************************************************************************)
(* The table of authenticated sessions (src/src/auth/session.rs) and the   *)
(* view of it that the control socket reports (src/src/control/mod.rs).    *)
(*                                                                         *)
(* The table maps a random 32-bit session id to a session; callers look a  *)
(* session up by its token.  Every operation runs under one mutex and is   *)
(* one step.  Of a session the model keeps the token and the three fields  *)
(* that say where its tunnel is; user_agent and connected_at are set and   *)
(* cleared with them.                                                      *)
(***************************************************************************)
CONSTANTS SessionIds,   \* the values rand::random::<u32>() may take
          Tokens,       \* 256-bit random tokens: never drawn twice
          NoSession,    \* an unused key of the table
          NoAddr,       \* vpn_ip: None
          NoConn        \* remote_ip: None

VARIABLE sessions       \* SessionManager::sessions

-----------------------------------------------------------------------------

NewSession(t) == [token |-> t, vpn_ip |-> NoAddr, remote |-> NoConn]

SessionsInit == sessions = [i \in SessionIds |-> NoSession]

\* The session ids whose session carries token t.
WithToken(t) ==
    {i \in SessionIds : sessions[i] # NoSession /\ sessions[i].token = t}

\* create_session: the id is drawn without looking at the ids in use, so the
\* insert may replace a session.
CreateSession(t) ==
    \E i \in SessionIds : sessions' = [sessions EXCEPT ![i] = NewSession(t)]

\* get_session_by_token finds a session.
ValidToken(t) == WithToken(t) # {}

\* values_mut().find(token) followed by the assignments to that session.
SetTunnel(t, addr, conn) ==
    sessions' = [i \in SessionIds |->
                    IF i \in WithToken(t)
                    THEN [token |-> t, vpn_ip |-> addr, remote |-> conn]
                    ELSE sessions[i]]

RegisterTunnel(t, addr, conn) == SetTunnel(t, addr, conn)

\* A mutated form: the token is not looked at, every session is cleared.
UnregisterEvery(t) ==
    sessions' = [i \in SessionIds |->
                    IF sessions[i] = NoSession THEN NoSession
                    ELSE NewSession(sessions[i].token)]

UnregisterTunnel(t) == SetTunnel(t, NoAddr, NoConn)

\* The rows handle_client answers to show_users: the sessions with a vpn_ip.
ShowUsers ==
    {sessions[i] : i \in {j \in SessionIds : /\ sessions[j] # NoSession
                                             /\ sessions[j].vpn_ip # NoAddr}}
=============================================================================
