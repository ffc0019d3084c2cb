------------------------------ MODULE SsoLogin ------------------------------
(***************************************************************************)
(* Logging in (src/src/http/handlers/auth.rs, src/src/auth/sso/): the form *)
(* of the VPN client, the browser that goes through the identity provider, *)
(* the page that hands the session token back to the client, encrypted for *)
(* the key the client sent first (src/src/crypto/hpke.rs), and the token   *)
(* the client then presents.  Password logins and restarts come between.   *)
(*                                                                         *)
(* A client has a key and a browser of its own, named by the client.  Its  *)
(* requests arrive one by one; requests of different clients interleave,   *)
(* and a client may begin again, or repeat a step, at any time.  What a    *)
(* page or a form belongs to may be gone when it is used: the server may   *)
(* have been restarted, with another configuration.                        *)
(* A request that is answered with an error and changes nothing (a page of *)
(* a provider that is not configured, a callback without a code) is a step *)
(* that is not taken, unless the client's next steps depend on the answer. *)
(***************************************************************************)
EXTENDS Naturals, FiniteSets

CONSTANTS Configs,    \* the configurations the server may be started with
          Clients,
          Ctxs,       \* random ids of HPKE contexts: never drawn twice
          Tokens,     \* random session tokens: never drawn twice
          None

ASSUME SsoAssumption ==
    /\ Configs \subseteq [saml : BOOLEAN, oauth2 : BOOLEAN, password : BOOLEAN,
                          idp : {"none", "dev", "other"}]
    /\ None \notin Clients \cup Ctxs \cup Tokens

\* A login: the client, the context id it came with, and the way it was made.
Logins == [client : Clients, ctx : Ctxs \cup {None}, how : {"saml", "oauth2", "password"}]

ASSUME NoneIsNoLogin == None \notin Logins

VARIABLES
    config,     \* the configuration of the running server
    hpke,       \* hpke_contexts: whose key the context holds
    drawn,      \* every context id drawn so far
    sessions,   \* SessionManager::sessions: records [token, ctx]
    logins,     \* history: the login a token was made by
    relay,      \* RelayState or state, on its way to the provider or back
    jar,        \* cookie acSamlv2Token of the browser
    page,       \* the success page the client last saw: [token, for]
    webvpn,     \* cookie webvpn of the client
    form        \* the SSO form the client was last shown, if it was one: the
                \* provider and the context id of its login URL

server  == <<config, hpke, drawn, sessions, logins>>
browser == <<relay, jar, page>>
vars    == <<server, browser, webvpn, form>>

NoForm == [via |-> "none", ctx |-> None]
Absent == [at |-> "nowhere", via |-> "none", in |-> "bare", ctx |-> None]

Init ==
    /\ config \in Configs
    /\ hpke = [x \in Ctxs |-> None] /\ drawn = {}
    /\ sessions = {} /\ logins = [t \in Tokens |-> None]
    /\ relay = [f \in Clients |-> Absent]
    /\ jar = [f \in Clients |-> None] /\ page = [f \in Clients |-> None]
    /\ webvpn = [f \in Clients |-> None] /\ form = [f \in Clients |-> NoForm]

-----------------------------------------------------------------------------
(* Configuration and sessions *)

\* AuthManager::from_config: SAML comes first, and one provider is made.
Provider == IF config.saml THEN "saml" ELSE IF config.oauth2 THEN "oauth2" ELSE "none"

ValidToken(t) == \E s \in sessions : s.token = t

\* create_session for client f with context id x: the new session may take
\* the id of another one and replace it (SessionManager!CreateSession).  The
\* login came with context id y.
CreateSession(f, t, x, y, how) ==
    /\ logins[t] = None
    /\ logins' = [logins EXCEPT ![t] = [client |-> f, ctx |-> y, how |-> how]]
    /\ \E old \in SUBSET sessions :
          /\ Cardinality(old) <= 1
          /\ sessions' = (sessions \ old) \cup {[token |-> t, ctx |-> x]}

\* Answers to the client's own requests: the SSO form, with the context id x
\* in its login URL, and every other one.
AnswerForm(f, x) == form' = [form EXCEPT ![f] = [via |-> Provider, ctx |-> x]]
Answer(f)        == form' = [form EXCEPT ![f] = NoForm]

-----------------------------------------------------------------------------
(* The form: handle_auth_init *)

\* HTTP/1.0 with Connection: close and no cookie is answered 204.
AuthProbe(f) ==
    /\ webvpn[f] = None
    /\ Answer(f)
    /\ UNCHANGED <<server, browser, webvpn>>

\* extract_webvpn_token finds the token of a living session: no form.  (What
\* is answered is an error: auth_complete.xml is rendered without the session
\* it names.)
AuthWithCookie(f) ==
    /\ webvpn[f] # None /\ ValidToken(webvpn[f])
    /\ Answer(f)
    /\ UNCHANGED <<server, browser, webvpn>>

NoLivingCookie(f) == webvpn[f] = None \/ ~ValidToken(webvpn[f])

\* Without a provider the form asks for a password.
PasswordForm(f) ==
    /\ Provider = "none" /\ NoLivingCookie(f)
    /\ Answer(f)
    /\ UNCHANGED <<server, browser, webvpn>>

\* A mutated form: the context is stored under the first id there is.
SsoFormFixedId(f) ==
    /\ Provider # "none" /\ NoLivingCookie(f)
    /\ \E x \in Ctxs :
          /\ \A y \in drawn : x = y
          /\ drawn' = drawn \cup {x}
          /\ hpke' = [hpke EXCEPT ![x] = f]
          /\ AnswerForm(f, x)
    /\ UNCHANGED <<config, sessions, logins, browser, webvpn>>

\* The SSO form.  A usable STRAP key is kept under a new id, which goes into
\* the login URL; without a key, or with a malformed one, the URL has none.
SsoForm(f) ==
    /\ Provider # "none" /\ NoLivingCookie(f)
    /\ \/ \E x \in Ctxs \ drawn :
             /\ drawn' = drawn \cup {x}
             /\ hpke' = [hpke EXCEPT ![x] = f]
             /\ AnswerForm(f, x)
       \/ AnswerForm(f, None) /\ UNCHANGED <<hpke, drawn>>
    /\ UNCHANGED <<config, sessions, logins, browser, webvpn>>

AuthInit(f) == AuthProbe(f) \/ AuthWithCookie(f) \/ PasswordForm(f) \/ SsoForm(f)

-----------------------------------------------------------------------------
(* The browser: login, callback and success page of the provider *)

\* What handle_login puts into the redirect: RelayState "ctx=<id>" for SAML,
\* state "<id>" for OAuth2; nothing that parses as a ctx without an id.
Redirect(via, x) ==
    [at |-> IF via = "saml" /\ config.idp = "dev" THEN "dev" ELSE "provider",
     via |-> via, ctx |-> x,
     in |-> IF via = "saml" /\ x # None THEN "ctx=" ELSE "bare"]

\* A mutated form: what came back is taken for the id.
FindCtxRaw(r) == r

\* handle_acs and handle_callback look for a key "ctx" in what came back.
FindCtx(r) == IF r.in = "ctx=" THEN r.ctx ELSE None

\* handle_login: the URL is one of the running provider, and SAML has a URL
\* of its identity provider.
SsoLogin(f) ==
    /\ form[f] # NoForm /\ form[f].via = Provider
    /\ Provider = "saml" => config.idp # "none"
    /\ relay' = [relay EXCEPT ![f] = Redirect(Provider, form[f].ctx)]
    /\ UNCHANGED <<server, jar, page, webvpn, form>>

\* The user logs in at the identity provider, which returns what it was given.
\* The one for development is a page of this server: handle_mock_idp_get takes
\* RelayState from the query and puts it, decoded, into its form,
\* handle_mock_idp_post takes it from there into the form for the ACS, and
\* leaves it out when it is empty, which FindCtx reads alike.
IdpLogin(f) ==
    /\ relay[f].at = "provider" \/ (relay[f].at = "dev" /\ config.idp = "dev")
    /\ relay' = [relay EXCEPT ![f].at = "back"]
    /\ UNCHANGED <<server, jar, page, webvpn, form>>

\* What comes to the callback path: a code, which the provider has to accept
\* before there is a session, so that the browser is back from it; or a
\* SAMLResponse, which is not validated yet (a TODO of handle_acs), so that
\* the step is not tied to where the browser is.
Accepted(r) ==
    \/ Provider = "saml"
    \/ Provider = "oauth2" /\ r.via = "oauth2" /\ r.at = "back"

\* What the browser carries, if it is of a login with the running provider.
Carried(r) == IF r.via = Provider THEN r ELSE Absent

\* A mutated form: RelayState is not looked at.
SsoCallbackPlain(f) ==
    /\ Accepted(relay[f])
    /\ \E t \in Tokens :
          /\ CreateSession(f, t, None, Carried(relay[f]).ctx, Provider)
          /\ jar' = [jar EXCEPT ![f] = t]
    /\ UNCHANGED <<config, hpke, drawn, relay, page, webvpn, form>>

\* A mutated form: the callback of any provider is served.
SsoCallbackAny(f) ==
    /\ relay[f].at = "back"
    /\ \E t \in Tokens :
          /\ CreateSession(f, t, FindCtx(relay[f]), relay[f].ctx, relay[f].via)
          /\ jar' = [jar EXCEPT ![f] = t]
    /\ UNCHANGED <<config, hpke, drawn, relay, page, webvpn, form>>

\* The callback of the running provider makes a session.  One that fails (no
\* code, no SAMLResponse, no token from the provider) changes nothing.
SsoCallback(f) ==
    /\ Accepted(relay[f])
    /\ LET r == Carried(relay[f])
       IN \E t \in Tokens :
             /\ CreateSession(f, t, FindCtx(r), r.ctx, Provider)
             /\ jar' = [jar EXCEPT ![f] = t]
    /\ UNCHANGED <<config, hpke, drawn, relay, page, webvpn, form>>

\* The key the success page encrypts token t for, if any.
KeyFor(t) ==
    LET known == {s \in sessions : s.token = t /\ s.ctx # None}
    IN IF known = {} THEN None ELSE hpke[(CHOOSE s \in known : TRUE).ctx]

\* A browser without the cookie gets a page with an empty token, which the
\* client cannot use.
SsoSuccess(f) ==
    /\ Provider # "none" /\ jar[f] # None
    /\ page' = [page EXCEPT ![f] = [token |-> jar[f], for |-> KeyFor(jar[f])]]
    /\ UNCHANGED <<server, relay, jar, webvpn, form>>

-----------------------------------------------------------------------------
(* Submissions: handle_xml_auth and handle_form_auth *)

\* What a posted config-auth document or form comes to, by its type and its
\* fields: the login form again, the token, which goes before a password, user
\* name and password, or an error.
Ways == {"init", "token", "password", "refuse"}

\* create_auth_success_response_for_session sets the cookie to the token.
Success(f, t) ==
    /\ webvpn' = [webvpn EXCEPT ![f] = t]
    /\ Answer(f)

\* sso-token: the client sends what it reads on the page, which it can when
\* the token is plain or encrypted for its own key.
SubmitToken(f) ==
    /\ page[f] # None /\ page[f].for \in {None, f}
    /\ IF ValidToken(page[f].token)
       THEN Success(f, page[f].token)
       ELSE Answer(f) /\ UNCHANGED webvpn
    /\ UNCHANGED <<server, browser>>

\* authenticate accepts a right user name and password only when there is a
\* password provider.
PasswordEnabled == config.password

\* User name and password: a new session without a context.
PasswordAuth(f) ==
    /\ PasswordEnabled
    /\ \E t \in Tokens :
          /\ CreateSession(f, t, None, None, "password")
          /\ Success(f, t)
    /\ UNCHANGED <<config, hpke, drawn, browser>>

\* 400 or 401.
Refuse(f) == Answer(f) /\ UNCHANGED <<server, browser, webvpn>>

Submit(f, way) ==
    \/ way = "init" /\ AuthInit(f)
    \/ way = "token" /\ SubmitToken(f)
    \/ way = "password" /\ PasswordAuth(f)
    \/ way \in {"password", "refuse"} /\ Refuse(f)

\* GET /logout is answered "success" and leaves the session as it is; the
\* client drops its cookie.
Logout(f) ==
    /\ webvpn[f] # None
    /\ webvpn' = [webvpn EXCEPT ![f] = None]
    /\ Answer(f)
    /\ UNCHANGED <<server, browser>>

\* A restart of the server, which reads its configuration again: both tables
\* are empty.
Restart ==
    /\ config' \in Configs
    /\ hpke' = [x \in Ctxs |-> None] /\ sessions' = {}
    /\ UNCHANGED <<drawn, logins, browser, webvpn, form>>

Next ==
    \/ \E f \in Clients :
          \/ \E way \in Ways : Submit(f, way)
          \/ SsoLogin(f) \/ IdpLogin(f) \/ SsoCallback(f) \/ SsoSuccess(f)
          \/ Logout(f)
    \/ Restart

Spec == Init /\ [][Next]_vars

-----------------------------------------------------------------------------
(* Properties that hold *)

TypeOK ==
    /\ config \in Configs
    /\ hpke \in [Ctxs -> Clients \cup {None}] /\ drawn \subseteq Ctxs
    /\ sessions \subseteq [token : Tokens, ctx : Ctxs \cup {None}]
    /\ logins \in [Tokens -> Logins \cup {None}]
    /\ relay \in [Clients -> [at : {"nowhere", "dev", "provider", "back"}, in : {"ctx=", "bare"},
                             via : {"none", "saml", "oauth2"}, ctx : Ctxs \cup {None}]]
    /\ jar \in [Clients -> Tokens \cup {None}] /\ webvpn \in [Clients -> Tokens \cup {None}]
    /\ page \in [Clients -> [token : Tokens, for : Clients \cup {None}] \cup {None}]
    /\ form \in [Clients -> [via : {"none", "saml", "oauth2"}, ctx : Ctxs \cup {None}]]

\* The page a client sees carries a token of a login of its own, and when it
\* is encrypted the client has the key: contexts of logins that run at the
\* same time, or that were begun twice, are never mixed up.
PageForOwner ==
    \A f \in Clients : page[f] # None =>
        /\ logins[page[f].token].client = f
        /\ page[f].for \in {None, f}

\* Whatever the server was started with before, and whichever logins are under
\* way: a living session was made by a way of logging in that the running
\* configuration has switched on.
OnlyConfiguredLogins ==
    \A s \in sessions :
        LET how == logins[s.token].how
        IN how = Provider \/ (how = "password" /\ config.password)

\* A token leaves in the clear only when the login brought no key, or when a
\* restart has lost the key: the key outlives the trip to the provider.  With
\* OAuth2 it does not (ContextIdFound).
ClearOnlyWithoutKey ==
    [][\A f \in Clients :
          (page'[f] # page[f] /\ ValidToken(page'[f].token) /\ page'[f].for = None)
          => LET l == logins[page'[f].token]
             IN l.how = "oauth2" \/ l.ctx = None \/ hpke[l.ctx] = None]_vars

-----------------------------------------------------------------------------
(* What the comments say and the code does not do *)

\* The context id is found in what the provider returns: a session refers to
\* the context its login came with.
ContextIdFound == \A s \in sessions : s.ctx = logins[s.token].ctx
=============================================================================
