CONSTANTS
    Configs <- AllConfigs
    Clients = {f1, f2}
    Ctxs = {x1, x2}
    Tokens = {t1, t2}
    None = None
SPECIFICATION Spec
SYMMETRY Symmetry
INVARIANTS TypeOK PageForOwner OnlyConfiguredLogins
PROPERTIES ClearOnlyWithoutKey
