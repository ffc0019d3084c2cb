----------------------------- MODULE MCSsoLogin -----------------------------
(* SsoLogin for TLC: configurations and symmetry sets. *)
EXTENDS SsoLogin, TLC

\* SAML, which goes before OAuth2, with the provider for development.
Saml == [saml |-> TRUE, oauth2 |-> TRUE, password |-> FALSE, idp |-> "dev"]
OAuth2 == [saml |-> FALSE, oauth2 |-> TRUE, password |-> TRUE, idp |-> "none"]
Passwords == [saml |-> FALSE, oauth2 |-> FALSE, password |-> TRUE, idp |-> "none"]

AllConfigs  == {Saml, OAuth2, Passwords}
OAuth2Alone == {OAuth2}

Symmetry == Permutations(Clients) \cup Permutations(Ctxs) \cup Permutations(Tokens)
=============================================================================
