---------------------------- MODULE SsoLoginProofs ----------------------------
(***************************************************************************)
(* Proofs about SsoLogin for any number of clients, context ids, tokens    *)
(* and restarts, and every set of configurations.                          *)
(***************************************************************************)
EXTENDS SsoLogin, TLAPS

\* Context id x, which client f carries, was drawn, and its context holds the
\* key of f or has been lost.
OwnCtx(f, x) == x # None => x \in drawn /\ hpke[x] \in {f, None}

\* Token t was made by a login of client f.
OwnToken(f, t) == t # None => logins[t] # None /\ logins[t].client = f

\* A context that is kept has been drawn.
KeptDrawn == \A x \in Ctxs : hpke[x] # None => x \in drawn

\* What a client carries is its own: the id in its form, the one on its way to
\* the provider and back, its cookie and its page.
CarriedOwn ==
    \A f \in Clients :
        /\ OwnCtx(f, form[f].ctx) /\ OwnCtx(f, relay[f].ctx) /\ OwnToken(f, jar[f])
        /\ page[f] # None => OwnToken(f, page[f].token) /\ page[f].for \in {None, f}

\* A form or a redirect without a provider is none; and RelayState of a SAML
\* login is read back as it was written.
Providers ==
    \A f \in Clients :
        /\ form[f].via = "none" => form[f] = NoForm
        /\ relay[f].via = "none" => relay[f].at = "nowhere"
        /\ relay[f].via = "saml" => FindCtx(relay[f]) = relay[f].ctx

\* A login came with a context id of its client; one with a password had none.
LoginsOwn ==
    \A t \in Tokens : logins[t] # None =>
        /\ OwnCtx(logins[t].client, logins[t].ctx)
        /\ logins[t].how = "password" => logins[t].ctx = None

\* A session is the one of a login, by a token of its own.  It refers to the
\* context of the login, always after SAML, or to none.
SessionsOwn ==
    \A s \in sessions :
        /\ logins[s.token] # None
        /\ s.ctx \in {logins[s.token].ctx, None}
        /\ logins[s.token].how = "saml" => s.ctx = logins[s.token].ctx
        /\ \A r \in sessions : r.token = s.token => r = s

\* The inductive invariant.  PageForOwner is about the end of a login; that the
\* page is for the right key is decided by every id on the way there.
Inv ==
    /\ TypeOK /\ KeptDrawn /\ CarriedOwn /\ Providers /\ LoginsOwn /\ SessionsOwn
    /\ OnlyConfiguredLogins

-----------------------------------------------------------------------------

\* What create_session does to the tables: the token is new, so no session and
\* no login is mistaken for the new one, whichever session it replaces.
LEMMA CreateSessionInv ==
    ASSUME Inv, NEW f \in Clients, NEW t \in Tokens,
           NEW x \in Ctxs \cup {None}, NEW y \in Ctxs \cup {None},
           NEW way \in {"saml", "oauth2", "password"},
           CreateSession(f, t, x, y, way), UNCHANGED <<config, hpke, drawn>>,
           OwnCtx(f, y), x \in {y, None}, way = "saml" => x = y,
           way = "password" => y = None,
           way = Provider \/ (way = "password" /\ config.password)
    PROVE  /\ logins' \in [Tokens -> Logins \cup {None}]
           /\ sessions' \subseteq [token : Tokens, ctx : Ctxs \cup {None}]
           /\ LoginsOwn' /\ SessionsOwn' /\ OnlyConfiguredLogins'
           /\ logins'[t] # None /\ logins'[t].client = f
           /\ \A u \in Tokens : logins[u] # None => logins'[u] = logins[u]
<1> DEFINE l == [client |-> f, ctx |-> y, how |-> way]
           made == [token |-> t, ctx |-> x]
<1>1. l \in Logins /\ l # None
    BY NoneIsNoLogin DEF Logins
<1>2. l.client = f /\ l.ctx = y /\ l.how = way /\ made.token = t /\ made.ctx = x
    OBVIOUS
<1>3. made \in [token : Tokens, ctx : Ctxs \cup {None}]
    OBVIOUS
<1>4. logins[t] = None /\ logins' = [logins EXCEPT ![t] = l]
    BY DEF CreateSession
<1>5. sessions' \subseteq sessions \cup {made}
    BY DEF CreateSession
<1> HIDE DEF l, made
<1>6. /\ logins'[t] = l
      /\ \A u \in Tokens \ {t} : logins'[u] = logins[u]
    BY <1>4 DEF Inv, TypeOK
<1>7. \A r \in sessions : r.token \in Tokens /\ r.token # t /\ logins'[r.token] = logins[r.token]
    BY <1>4, <1>6 DEF Inv, TypeOK, SessionsOwn
<1>8. logins' \in [Tokens -> Logins \cup {None}]
    BY <1>1, <1>4 DEF Inv, TypeOK
<1>9. sessions' \subseteq [token : Tokens, ctx : Ctxs \cup {None}]
    BY <1>3, <1>5 DEF Inv, TypeOK
<1>10. LoginsOwn'
    BY <1>2, <1>6 DEF Inv, LoginsOwn, OwnCtx
<1>11. SessionsOwn'
    <2>1. \A r \in sessions :
             /\ logins'[r.token] # None
             /\ r.ctx \in {logins'[r.token].ctx, None}
             /\ logins'[r.token].how = "saml" => r.ctx = logins'[r.token].ctx
        BY <1>7 DEF Inv, SessionsOwn
    <2>2. /\ logins'[made.token] # None /\ made.ctx \in {logins'[made.token].ctx, None}
          /\ logins'[made.token].how = "saml" => made.ctx = logins'[made.token].ctx
        BY <1>1, <1>2, <1>6
    <2>3. \A q, r \in sessions' : q.token = r.token => q = r
        BY <1>2, <1>5, <1>7 DEF Inv, SessionsOwn
    <2>4. \A r \in sessions' :
             /\ logins'[r.token] # None
             /\ r.ctx \in {logins'[r.token].ctx, None}
             /\ logins'[r.token].how = "saml" => r.ctx = logins'[r.token].ctx
        BY <1>5, <2>1, <2>2
    <2>5. QED
        BY <2>3, <2>4 DEF SessionsOwn
<1>12. OnlyConfiguredLogins'
    <2>1. Provider' = Provider /\ config' = config
        BY DEF Provider
    <2>2. \A r \in sessions :
             \/ logins'[r.token].how = Provider
             \/ logins'[r.token].how = "password" /\ config.password
        BY <1>7 DEF Inv, OnlyConfiguredLogins
    <2>3. logins'[made.token].how = Provider \/ (logins'[made.token].how = "password" /\ config.password)
        BY <1>2, <1>6
    <2>4. QED
        BY <1>5, <2>1, <2>2, <2>3 DEF OnlyConfiguredLogins
<1>13. \A u \in Tokens : logins[u] # None => logins'[u] = logins[u]
    BY <1>4, <1>6
<1>14. QED
    BY <1>1, <1>2, <1>6, <1>8, <1>9, <1>10, <1>11, <1>12, <1>13

\* The key of the success page is the one of the client whose token it is, or
\* none.
LEMMA KeyForOwner ==
    ASSUME Inv, NEW t \in Tokens, logins[t] # None
    PROVE  KeyFor(t) \in {logins[t].client, None} /\ KeyFor(t) \in Clients \cup {None}
<1> DEFINE known == {s \in sessions : s.token = t /\ s.ctx # None}
<1>1. CASE known = {}
    BY <1>1 DEF KeyFor
<1>2. CASE known # {}
    <2> DEFINE s == CHOOSE r \in known : TRUE
    <2>1. s \in known
        BY <1>2
    <2>2. KeyFor(t) = hpke[s.ctx]
        BY <1>2 DEF KeyFor
    <2> HIDE DEF s
    <2>3. s \in sessions /\ s.token = t /\ s.ctx # None
        BY <2>1
    <2>4. s.ctx = logins[t].ctx /\ logins[t].ctx # None
        BY <2>3 DEF Inv, SessionsOwn
    <2>5. hpke[s.ctx] \in {logins[t].client, None}
        BY <2>4 DEF Inv, LoginsOwn, OwnCtx
    <2>6. hpke[s.ctx] \in Clients \cup {None}
        BY <2>3 DEF Inv, TypeOK
    <2>7. QED
        BY <2>2, <2>5, <2>6
<1>3. QED
    BY <1>1, <1>2

\* An answer that is not the SSO form takes nothing but the client's form.
LEMMA AnswerInv ==
    ASSUME Inv, NEW f \in Clients, Answer(f), UNCHANGED <<server, browser>>,
           webvpn' \in [Clients -> Tokens \cup {None}]
    PROVE  Inv'
<1>1. /\ form'[f] = NoForm
      /\ \A g \in Clients \ {f} : form'[g] = form[g]
    BY DEF Answer, Inv, TypeOK
<1>2. NoForm.ctx = None /\ NoForm \in [via : {"none", "saml", "oauth2"}, ctx : Ctxs \cup {None}]
    BY DEF NoForm
<1>3. UNCHANGED <<config, hpke, drawn, sessions, logins, relay, jar, page>>
    BY DEF server, browser
<1>4. form' \in [Clients -> [via : {"none", "saml", "oauth2"}, ctx : Ctxs \cup {None}]]
    BY <1>2 DEF Answer, Inv, TypeOK
<1>5. TypeOK'
    BY <1>3, <1>4 DEF Inv, TypeOK
<1>6. CarriedOwn'
    BY <1>1, <1>2, <1>3 DEF Inv, CarriedOwn, OwnCtx, OwnToken
<1>7. Providers'
    BY <1>1, <1>3 DEF Inv, Providers, FindCtx
<1>8. KeptDrawn' /\ LoginsOwn' /\ SessionsOwn' /\ OnlyConfiguredLogins'
    BY <1>3 DEF Inv, KeptDrawn, LoginsOwn, SessionsOwn, OnlyConfiguredLogins, OwnCtx, Provider
<1>9. QED
    BY <1>5, <1>6, <1>7, <1>8 DEF Inv

\* The SSO form: the new id is nobody's yet, so no other client's id changes
\* its key.
LEMMA SsoFormInv ==
    ASSUME Inv, NEW f \in Clients, SsoForm(f)
    PROVE  Inv'
<1>1. PICK x \in Ctxs \cup {None} :
         /\ AnswerForm(f, x)
         /\ \/ x \in Ctxs \ drawn /\ drawn' = drawn \cup {x} /\ hpke' = [hpke EXCEPT ![x] = f]
            \/ x = None /\ UNCHANGED <<hpke, drawn>>
    BY DEF SsoForm
<1>2. UNCHANGED <<config, sessions, logins, relay, jar, page, webvpn>> /\ Provider # "none"
    BY DEF SsoForm, browser
<1>3. /\ hpke' \in [Ctxs -> Clients \cup {None}] /\ drawn' \subseteq Ctxs /\ drawn \subseteq drawn'
      /\ \A y \in drawn : hpke'[y] = hpke[y]
      /\ OwnCtx(f, x)'
    BY <1>1 DEF Inv, TypeOK, OwnCtx
<1>4. \A g \in Clients, y \in Ctxs \cup {None} : OwnCtx(g, y) => OwnCtx(g, y)'
    BY <1>3 DEF OwnCtx
<1>5. Provider \in {"saml", "oauth2"}
    BY <1>2 DEF Provider
<1>6. /\ form'[f].via = Provider /\ form'[f].ctx = x
      /\ \A g \in Clients \ {f} : form'[g] = form[g]
      /\ form' \in [Clients -> [via : {"none", "saml", "oauth2"}, ctx : Ctxs \cup {None}]]
    BY <1>1, <1>5 DEF AnswerForm, Inv, TypeOK
<1>7. TypeOK'
    BY <1>2, <1>3, <1>6 DEF Inv, TypeOK
<1>8. KeptDrawn'
    BY <1>1 DEF Inv, KeptDrawn, TypeOK
<1>9. CarriedOwn'
    <2>1. \A g \in Clients : OwnCtx(g, form[g].ctx) /\ OwnCtx(g, relay[g].ctx)
        BY DEF Inv, CarriedOwn
    <2>2. \A g \in Clients : form[g].ctx \in Ctxs \cup {None} /\ relay[g].ctx \in Ctxs \cup {None}
        BY DEF Inv, TypeOK
    <2>3. \A g \in Clients : OwnCtx(g, form[g].ctx)' /\ OwnCtx(g, relay[g].ctx)'
        BY <1>2, <1>3, <1>4, <1>6, <2>1, <2>2 DEF OwnCtx
    <2>4. \A g \in Clients :
             /\ OwnToken(g, jar[g])'
             /\ page'[g] # None => (OwnToken(g, page[g].token)' /\ page'[g].for \in {None, g})
        BY <1>2 DEF Inv, CarriedOwn, OwnToken
    <2>5. QED
        BY <2>3, <2>4 DEF CarriedOwn
<1>10. Providers'
    BY <1>2, <1>5, <1>6 DEF Inv, Providers, FindCtx
<1>11. LoginsOwn'
    <2>1. \A t \in Tokens : logins[t] # None =>
             logins[t].client \in Clients /\ logins[t].ctx \in Ctxs \cup {None}
        BY DEF Inv, TypeOK, Logins
    <2>2. QED
        BY <1>2, <1>3, <2>1 DEF Inv, LoginsOwn, OwnCtx
<1>12. SessionsOwn' /\ OnlyConfiguredLogins'
    BY <1>2 DEF Inv, SessionsOwn, OnlyConfiguredLogins, Provider
<1>13. QED
    BY <1>7, <1>8, <1>9, <1>10, <1>11, <1>12 DEF Inv

\* The redirect to the provider, and the way back.
LEMMA RelayInv ==
    ASSUME Inv, NEW f \in Clients, SsoLogin(f) \/ IdpLogin(f)
    PROVE  Inv'
<1>1. UNCHANGED <<config, hpke, drawn, sessions, logins, jar, page, webvpn, form>>
    BY DEF SsoLogin, IdpLogin, server
<1>2. /\ relay'[f] \in [at : {"nowhere", "dev", "provider", "back"}, in : {"ctx=", "bare"},
                        via : {"none", "saml", "oauth2"}, ctx : Ctxs \cup {None}]
      /\ relay'[f].via # "none" /\ OwnCtx(f, relay'[f].ctx)
      /\ relay'[f].via = "saml" => FindCtx(relay'[f]) = relay'[f].ctx
      /\ \A g \in Clients \ {f} : relay'[g] = relay[g]
      /\ relay' \in [Clients -> [at : {"nowhere", "dev", "provider", "back"}, in : {"ctx=", "bare"},
                                 via : {"none", "saml", "oauth2"}, ctx : Ctxs \cup {None}]]
    <2>1. CASE SsoLogin(f)
        <3>1. Provider \in {"saml", "oauth2"} /\ form[f].ctx \in Ctxs \cup {None}
            BY <2>1 DEF SsoLogin, Inv, TypeOK, Providers, Provider
        <3>2. relay'[f] = Redirect(Provider, form[f].ctx)
            BY <2>1 DEF SsoLogin, Inv, TypeOK
        <3>3. /\ relay'[f].via = Provider /\ relay'[f].ctx = form[f].ctx
              /\ relay'[f].at \in {"dev", "provider"}
              /\ relay'[f].in = IF Provider = "saml" /\ form[f].ctx # None THEN "ctx=" ELSE "bare"
              /\ relay'[f] \in [at : {"nowhere", "dev", "provider", "back"}, in : {"ctx=", "bare"},
                                via : {"none", "saml", "oauth2"}, ctx : Ctxs \cup {None}]
            BY <3>1, <3>2 DEF Redirect
        <3>4. QED
            BY <2>1, <3>1, <3>3 DEF SsoLogin, Inv, TypeOK, CarriedOwn, FindCtx
    <2>2. CASE IdpLogin(f)
        <3>1. /\ relay' = [relay EXCEPT ![f] = [relay[f] EXCEPT !.at = "back"]]
              /\ relay[f].via # "none"
            BY <2>2 DEF IdpLogin, Inv, Providers
        <3>2. /\ relay'[f].via = relay[f].via /\ relay'[f].ctx = relay[f].ctx
              /\ relay'[f].in = relay[f].in
              /\ relay'[f] \in [at : {"nowhere", "dev", "provider", "back"}, in : {"ctx=", "bare"},
                                via : {"none", "saml", "oauth2"}, ctx : Ctxs \cup {None}]
            BY <3>1 DEF Inv, TypeOK
        <3>3. QED
            BY <3>1, <3>2 DEF Inv, TypeOK, CarriedOwn, Providers, FindCtx
    <2>3. QED
        BY <2>1, <2>2
<1>3. TypeOK'
    BY <1>1, <1>2 DEF Inv, TypeOK
<1>4. CarriedOwn'
    BY <1>1, <1>2 DEF Inv, CarriedOwn, OwnCtx, OwnToken
<1>5. Providers'
    BY <1>1, <1>2 DEF Inv, Providers, FindCtx
<1>6. KeptDrawn' /\ LoginsOwn' /\ SessionsOwn' /\ OnlyConfiguredLogins'
    BY <1>1 DEF Inv, KeptDrawn, LoginsOwn, SessionsOwn, OnlyConfiguredLogins, OwnCtx, Provider
<1>7. QED
    BY <1>3, <1>4, <1>5, <1>6 DEF Inv

\* The callback: the token is drawn for the client that carries the RelayState,
\* so every token of before keeps its login.
LEMMA SsoCallbackInv ==
    ASSUME Inv, NEW f \in Clients, SsoCallback(f)
    PROVE  Inv'
<1>1. PICK t \in Tokens :
         /\ CreateSession(f, t, FindCtx(Carried(relay[f])), Carried(relay[f]).ctx, Provider)
         /\ jar' = [jar EXCEPT ![f] = t]
    BY DEF SsoCallback
<1>2. UNCHANGED <<config, hpke, drawn, relay, page, webvpn, form>>
    BY DEF SsoCallback
<1> DEFINE r == Carried(relay[f])
<1>3. Provider \in {"saml", "oauth2"}
    BY DEF SsoCallback, Accepted
<1>4. /\ r.ctx \in Ctxs \cup {None} /\ FindCtx(r) \in {r.ctx, None}
      /\ Provider = "saml" => FindCtx(r) = r.ctx
      /\ OwnCtx(f, r.ctx)
    <2>1. CASE relay[f].via = Provider
        <3>1. r = relay[f]
            BY <2>1 DEF Carried
        <3>2. QED
            BY <1>3, <2>1, <3>1 DEF Inv, TypeOK, Providers, CarriedOwn, FindCtx
    <2>2. CASE relay[f].via # Provider
        <3>1. r.ctx = None /\ FindCtx(r) = None
            BY <2>2 DEF Carried, Absent, FindCtx
        <3>2. QED
            BY <3>1 DEF OwnCtx
    <2>3. QED
        BY <2>1, <2>2
<1>5. /\ logins' \in [Tokens -> Logins \cup {None}]
      /\ sessions' \subseteq [token : Tokens, ctx : Ctxs \cup {None}]
      /\ LoginsOwn' /\ SessionsOwn' /\ OnlyConfiguredLogins'
      /\ logins'[t] # None /\ logins'[t].client = f
      /\ \A u \in Tokens : logins[u] # None => logins'[u] = logins[u]
    BY <1>1, <1>2, <1>3, <1>4, CreateSessionInv
<1>6. /\ jar' \in [Clients -> Tokens \cup {None}]
      /\ jar'[f] = t
      /\ \A g \in Clients \ {f} : jar'[g] = jar[g]
    BY <1>1 DEF Inv, TypeOK
<1>7. TypeOK'
    BY <1>2, <1>5, <1>6 DEF Inv, TypeOK
<1>8. CarriedOwn'
    <2>1. \A g \in Clients : OwnCtx(g, form[g].ctx)' /\ OwnCtx(g, relay[g].ctx)'
        BY <1>2 DEF Inv, CarriedOwn, OwnCtx
    <2>2. \A g \in Clients, u \in Tokens \cup {None} : OwnToken(g, u) => OwnToken(g, u)'
        BY <1>5 DEF OwnToken
    <2>3. \A g \in Clients \ {f} : OwnToken(g, jar[g])'
        BY <1>6, <2>2 DEF Inv, CarriedOwn, TypeOK, OwnToken
    <2>4. OwnToken(f, jar[f])'
        BY <1>5, <1>6 DEF OwnToken
    <2>5. \A g \in Clients : page[g] # None =>
             (page[g].token \in Tokens /\ OwnToken(g, page[g].token) /\ page[g].for \in {None, g})
        BY DEF Inv, CarriedOwn, TypeOK
    <2>6. \A g \in Clients : page'[g] # None =>
             (OwnToken(g, page[g].token)' /\ page'[g].for \in {None, g})
        BY <1>2, <2>2, <2>5 DEF OwnToken
    <2>7. QED
        BY <2>1, <2>3, <2>4, <2>6 DEF CarriedOwn
<1>9. Providers' /\ KeptDrawn'
    BY <1>2 DEF Inv, Providers, KeptDrawn, FindCtx
<1>10. QED
    BY <1>5, <1>7, <1>8, <1>9 DEF Inv

\* The success page: token and key are the client's own.
LEMMA SsoSuccessInv ==
    ASSUME Inv, NEW f \in Clients, SsoSuccess(f)
    PROVE  Inv'
<1>1. UNCHANGED <<config, hpke, drawn, sessions, logins, relay, jar, webvpn, form>>
    BY DEF SsoSuccess, server
<1>2. jar[f] \in Tokens /\ logins[jar[f]] # None /\ logins[jar[f]].client = f
    BY DEF SsoSuccess, Inv, TypeOK, CarriedOwn, OwnToken
<1>3. KeyFor(jar[f]) \in {f, None} /\ KeyFor(jar[f]) \in Clients \cup {None}
    BY <1>2, KeyForOwner
<1>4. /\ page'[f].token = jar[f] /\ page'[f].for = KeyFor(jar[f])
      /\ \A g \in Clients \ {f} : page'[g] = page[g]
      /\ page' \in [Clients -> [token : Tokens, for : Clients \cup {None}] \cup {None}]
    BY <1>2, <1>3 DEF SsoSuccess, Inv, TypeOK
<1>5. TypeOK'
    BY <1>1, <1>4 DEF Inv, TypeOK
<1>6. CarriedOwn'
    BY <1>1, <1>2, <1>3, <1>4 DEF Inv, CarriedOwn, OwnCtx, OwnToken
<1>7. KeptDrawn' /\ Providers' /\ LoginsOwn' /\ SessionsOwn' /\ OnlyConfiguredLogins'
    BY <1>1 DEF Inv, KeptDrawn, Providers, LoginsOwn, SessionsOwn, OnlyConfiguredLogins, OwnCtx,
                Provider, FindCtx
<1>8. QED
    BY <1>5, <1>6, <1>7 DEF Inv

\* A password login: a session without a context.
LEMMA PasswordAuthInv ==
    ASSUME Inv, NEW f \in Clients, PasswordAuth(f)
    PROVE  Inv'
<1>1. PICK t \in Tokens : CreateSession(f, t, None, None, "password") /\ Success(f, t)
    BY DEF PasswordAuth
<1>2. UNCHANGED <<config, hpke, drawn, relay, jar, page>>
    BY DEF PasswordAuth, browser
<1>3. OwnCtx(f, None) /\ config.password
    BY DEF OwnCtx, PasswordAuth, PasswordEnabled
<1>4. /\ logins' \in [Tokens -> Logins \cup {None}]
      /\ sessions' \subseteq [token : Tokens, ctx : Ctxs \cup {None}]
      /\ LoginsOwn' /\ SessionsOwn' /\ OnlyConfiguredLogins'
      /\ \A u \in Tokens : logins[u] # None => logins'[u] = logins[u]
    BY <1>1, <1>2, <1>3, CreateSessionInv
<1>5. /\ form'[f] = NoForm
      /\ \A g \in Clients \ {f} : form'[g] = form[g]
      /\ form' \in [Clients -> [via : {"none", "saml", "oauth2"}, ctx : Ctxs \cup {None}]]
      /\ webvpn' \in [Clients -> Tokens \cup {None}]
    BY <1>1 DEF Success, Answer, NoForm, Inv, TypeOK
<1>6. NoForm.ctx = None
    BY DEF NoForm
<1>7. TypeOK'
    BY <1>2, <1>4, <1>5 DEF Inv, TypeOK
<1>8. CarriedOwn'
    <2>1. \A g \in Clients : OwnCtx(g, form[g].ctx)' /\ OwnCtx(g, relay[g].ctx)'
        BY <1>2, <1>5, <1>6 DEF Inv, CarriedOwn, OwnCtx
    <2>2. \A g \in Clients, u \in Tokens \cup {None} : OwnToken(g, u) => OwnToken(g, u)'
        BY <1>4 DEF OwnToken
    <2>3. \A g \in Clients :
             /\ OwnToken(g, jar[g])'
             /\ page'[g] # None => (OwnToken(g, page[g].token)' /\ page'[g].for \in {None, g})
        BY <1>2, <2>2 DEF Inv, CarriedOwn, TypeOK, OwnToken
    <2>4. QED
        BY <2>1, <2>3 DEF CarriedOwn
<1>9. Providers' /\ KeptDrawn'
    BY <1>2, <1>5 DEF Inv, Providers, KeptDrawn, FindCtx
<1>10. QED
    BY <1>4, <1>7, <1>8, <1>9 DEF Inv

\* A restart takes every session and every key, and nothing of the clients.
LEMMA RestartInv ==
    ASSUME Inv, Restart
    PROVE  Inv'
<1>1. /\ config' \in Configs /\ hpke' = [x \in Ctxs |-> None] /\ sessions' = {}
      /\ UNCHANGED <<drawn, logins, relay, jar, page, webvpn, form>>
    BY DEF Restart, browser
<1>2. TypeOK'
    BY <1>1 DEF Inv, TypeOK
<1>3. \A g \in Clients, x \in Ctxs \cup {None} : OwnCtx(g, x) => OwnCtx(g, x)'
    BY <1>1 DEF OwnCtx
<1>4. CarriedOwn'
    <2>1. \A g \in Clients : form[g].ctx \in Ctxs \cup {None} /\ relay[g].ctx \in Ctxs \cup {None}
        BY DEF Inv, TypeOK
    <2>2. QED
        BY <1>1, <1>3, <2>1 DEF Inv, CarriedOwn, OwnToken, OwnCtx
<1>5. LoginsOwn'
    <2>1. \A t \in Tokens : logins[t] # None =>
             logins[t].client \in Clients /\ logins[t].ctx \in Ctxs \cup {None}
        BY DEF Inv, TypeOK, Logins
    <2>2. QED
        BY <1>1, <1>3, <2>1 DEF Inv, LoginsOwn, OwnCtx
<1>6. KeptDrawn' /\ Providers' /\ SessionsOwn' /\ OnlyConfiguredLogins'
    BY <1>1 DEF Inv, KeptDrawn, Providers, SessionsOwn, OnlyConfiguredLogins, FindCtx
<1>7. QED
    BY <1>2, <1>4, <1>5, <1>6 DEF Inv

-----------------------------------------------------------------------------

\* A server that has just started knows nobody, and nobody carries anything.
LEMMA InitInv == Init => Inv
<1> SUFFICES ASSUME Init PROVE Inv
    OBVIOUS
<1>1. NoForm.via = "none" /\ NoForm.ctx = None /\ Absent.via = "none" /\ Absent.ctx = None
      /\ Absent.at = "nowhere" /\ Absent.in = "bare"
    BY DEF NoForm, Absent
<1>2. TypeOK
    BY DEF Init, TypeOK, NoForm, Absent
<1>3. \A f \in Clients : form[f] = NoForm /\ relay[f] = Absent /\ jar[f] = None /\ page[f] = None
    BY DEF Init
<1>4. CarriedOwn /\ Providers
    BY <1>1, <1>3 DEF CarriedOwn, Providers, OwnCtx, OwnToken
<1>5. KeptDrawn /\ LoginsOwn /\ SessionsOwn /\ OnlyConfiguredLogins
    BY DEF Init, KeptDrawn, LoginsOwn, SessionsOwn, OnlyConfiguredLogins
<1>6. QED
    BY <1>2, <1>4, <1>5 DEF Inv

\* The invariant is inductive: a case for every action.
LEMMA StepInv == Inv /\ [Next]_vars => Inv'
<1> SUFFICES ASSUME Inv, [Next]_vars PROVE Inv'
    OBVIOUS
<1>1. ASSUME NEW f \in Clients, NEW way \in Ways, Submit(f, way) PROVE Inv'
    <2>1. CASE SsoForm(f)
        BY <2>1, SsoFormInv
    <2>2. CASE PasswordAuth(f)
        BY <2>2, PasswordAuthInv
    <2>3. CASE AuthProbe(f) \/ AuthWithCookie(f) \/ PasswordForm(f) \/ Refuse(f)
        <3>1. Answer(f) /\ UNCHANGED <<server, browser, webvpn>>
            BY <2>3 DEF AuthProbe, AuthWithCookie, PasswordForm, Refuse
        <3>2. webvpn' \in [Clients -> Tokens \cup {None}]
            BY <3>1 DEF Inv, TypeOK
        <3>3. QED
            BY <3>1, <3>2, AnswerInv
    <2>4. CASE SubmitToken(f)
        <3>1. Answer(f) /\ UNCHANGED <<server, browser>>
            BY <2>4 DEF SubmitToken, Success
        <3>2. page[f].token \in Tokens
            BY <2>4 DEF SubmitToken, Inv, TypeOK
        <3>3. webvpn' \in [Clients -> Tokens \cup {None}]
            BY <2>4, <3>2 DEF SubmitToken, Success, Inv, TypeOK
        <3>4. QED
            BY <3>1, <3>3, AnswerInv
    <2>5. QED
        BY <1>1, <2>1, <2>2, <2>3, <2>4 DEF Submit, AuthInit
<1>2. ASSUME NEW f \in Clients, SsoLogin(f) \/ IdpLogin(f) PROVE Inv'
    BY <1>2, RelayInv
<1>3. ASSUME NEW f \in Clients, SsoCallback(f) PROVE Inv'
    BY <1>3, SsoCallbackInv
<1>4. ASSUME NEW f \in Clients, SsoSuccess(f) PROVE Inv'
    BY <1>4, SsoSuccessInv
<1>5. ASSUME NEW f \in Clients, Logout(f) PROVE Inv'
    <2>1. webvpn' \in [Clients -> Tokens \cup {None}]
        BY <1>5 DEF Logout, Inv, TypeOK
    <2>2. QED
        BY <1>5, <2>1, AnswerInv DEF Logout
<1>6. CASE Restart
    BY <1>6, RestartInv
<1>7. CASE UNCHANGED vars
    BY <1>7 DEF vars, server, browser, Inv, TypeOK, KeptDrawn, CarriedOwn, Providers, LoginsOwn,
                SessionsOwn, OnlyConfiguredLogins, OwnCtx, OwnToken, Provider, FindCtx
<1>8. QED
    BY <1>1, <1>2, <1>3, <1>4, <1>5, <1>6, <1>7 DEF Next

\* Every reachable state satisfies the inductive invariant.
THEOREM Invariant == Spec => []Inv
<1>1. QED
    BY InitInv, StepInv, PTL DEF Spec

\* The variables keep their types, whoever logs in and however often the server
\* is restarted (SsoLogin's type invariant).
THEOREM TypeCorrect == Spec => []TypeOK
<1>1. Inv => TypeOK
    BY DEF Inv
<1>2. QED
    BY <1>1, Invariant, PTL

\* handle_success shows a client a token of its own login, in the clear or
\* encrypted for its own key, however many logins run at the same time.
THEOREM PagesForOwner == Spec => []PageForOwner
<1>1. ASSUME Inv, NEW f \in Clients, page[f] # None
      PROVE  logins[page[f].token].client = f /\ page[f].for \in {None, f}
    <2>1. page[f].token \in Tokens
        BY <1>1 DEF Inv, TypeOK
    <2>2. page[f].token # None
        BY <2>1, SsoAssumption DEF SsoAssumption
    <2>3. QED
        BY <1>1, <2>2 DEF Inv, CarriedOwn, OwnToken
<1>2. Inv => PageForOwner
    BY <1>1 DEF PageForOwner
<1>3. QED
    BY <1>2, Invariant, PTL

\* A living session was made by a way of logging in that the configuration of
\* the running server has switched on, after any number of restarts.
THEOREM LoginsConfigured == Spec => []OnlyConfiguredLogins
<1>1. Inv => OnlyConfiguredLogins
    BY DEF Inv
<1>2. QED
    BY <1>1, Invariant, PTL

\* What the success page encrypts for: without a key, the login brought none,
\* was made with OAuth2, or its key is lost.
LEMMA KeyForKnown ==
    ASSUME Inv, NEW t \in Tokens, ValidToken(t), KeyFor(t) = None
    PROVE  \/ logins[t].how = "oauth2"
           \/ logins[t].ctx = None
           \/ hpke[logins[t].ctx] = None
<1>1. PICK s \in sessions : s.token = t
    BY DEF ValidToken
<1>2. logins[t].how \in {"saml", "oauth2", "password"}
    BY <1>1 DEF Inv, TypeOK, SessionsOwn, Logins
<1>3. CASE s.ctx = None
    BY <1>1, <1>2, <1>3 DEF Inv, SessionsOwn, LoginsOwn
<1>4. CASE s.ctx # None
    <2> DEFINE known == {r \in sessions : r.token = t /\ r.ctx # None}
               r == CHOOSE q \in known : TRUE
    <2>1. s \in known
        BY <1>1, <1>4
    <2>2. r \in known
        BY <2>1
    <2>3. KeyFor(t) = hpke[r.ctx]
        BY <2>1 DEF KeyFor
    <2> HIDE DEF r
    <2>4. r.ctx = logins[t].ctx
        BY <2>2 DEF Inv, SessionsOwn
    <2>5. QED
        BY <2>3, <2>4
<1>5. QED
    BY <1>3, <1>4

\* A step shows a client a token in the clear only when the login brought no
\* key, when a restart has lost the key, or after OAuth2.
THEOREM ClearWithoutKey == Spec => ClearOnlyWithoutKey
<1>1. ASSUME Inv, [Next]_vars, NEW f \in Clients, page'[f] # page[f],
             ValidToken(page'[f].token), page'[f].for = None
      PROVE  LET l == logins[page'[f].token]
             IN l.how = "oauth2" \/ l.ctx = None \/ hpke[l.ctx] = None
    <2>1. PICK g \in Clients : SsoSuccess(g)
        BY <1>1 DEF Next, vars, server, browser, Submit, AuthInit, AuthProbe, AuthWithCookie,
                    PasswordForm, SsoForm, SubmitToken, PasswordAuth, Refuse, SsoLogin, IdpLogin,
                    SsoCallback, Logout, Restart
    <2>2. g = f
        BY <1>1, <2>1 DEF SsoSuccess, Inv, TypeOK
    <2>3. jar[f] \in Tokens
        BY <1>1, <2>1, <2>2 DEF SsoSuccess, Inv, TypeOK
    <2>4. page'[f].token = jar[f] /\ page'[f].for = KeyFor(jar[f])
        BY <1>1, <2>1, <2>2 DEF SsoSuccess, Inv, TypeOK
    <2>5. QED
        BY <1>1, <2>3, <2>4, KeyForKnown
<1>2. Inv /\ [Next]_vars =>
      [\A f \in Clients :
          (page'[f] # page[f] /\ ValidToken(page'[f].token) /\ page'[f].for = None)
          => LET l == logins[page'[f].token]
             IN l.how = "oauth2" \/ l.ctx = None \/ hpke[l.ctx] = None]_vars
    BY <1>1
<1>3. QED
    BY <1>2, Invariant, PTL DEF Spec, ClearOnlyWithoutKey
=============================================================================
