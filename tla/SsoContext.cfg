CONSTANTS
    Configs <- OAuth2Alone
    Clients = {f1, f2}
    Ctxs = {x1, x2}
    Tokens = {t1, t2}
    None = None
SPECIFICATION Spec
INVARIANT ContextIdFound
