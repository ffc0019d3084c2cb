------------------------------ MODULE DtlsOffer ------------------------------
(***************************************************************************)
(* What the answer to a CONNECT offers for DTLS: the choice of the mode    *)
(* (src/src/http/server.rs), the cipher picked for a legacy client         *)
(* (src/src/utils/cert.rs), the headers that name it                       *)
(* (src/src/http/raw_connect.rs), and the ciphers the DTLS server accepts  *)
(* with its certificate (src/src/vpn/dtls.rs).                             *)
(*                                                                         *)
(* A cipher is its key exchange, the part of the name that the prefixes    *)
(* tell apart, and the rest of its name.  The operators have no state.     *)
(***************************************************************************)
EXTENDS Naturals, Sequences, SequencesExt

CONSTANTS Lists,    \* lists of ciphers that clients send
          NoList    \* a header that is not in the request

\* split(':') yields one element at least.
ASSUME ListsAssumption ==
    \A list \in Lists :
        /\ DOMAIN list = 1 .. Len(list) /\ Len(list) \in Nat \ {0}
        /\ list # NoList

Cipher(kx, rest) == [kx |-> kx, rest |-> rest]

\* The one element of "".split(':').
Blank == Cipher("", "")

\* The key types of certificates: CertKeyType.
KeyTypes == {"ec", "rsa", "unknown"}

\* A mutated form: DHE is not thought of.
PreferredWithoutDhe(key) ==
    CASE key = "ec"      -> <<"ECDHE-ECDSA">>
      [] key = "rsa"     -> <<"ECDHE-RSA">>
      [] key = "unknown" -> <<"ECDHE-ECDSA", "ECDHE-RSA", "AES">>

\* preferred_prefixes: the key exchanges for a key type, best first.
Preferred(key) ==
    CASE key = "ec"      -> <<"ECDHE-ECDSA">>
      [] key = "rsa"     -> <<"ECDHE-RSA", "DHE-RSA">>
      [] key = "unknown" -> <<"ECDHE-ECDSA", "ECDHE-RSA", "DHE-RSA", "AES">>

\* Where in the list the ciphers with this key exchange are.
Places(list, kx) == {j \in DOMAIN list : list[j].kx = kx}

\* The first cipher of the list with the first prefix that has one; without
\* any, the first of the list.
SelectCompatible(list, key) ==
    LET prefixes == Preferred(key)
        found    == {i \in DOMAIN prefixes : Places(list, prefixes[i]) # {}}
    IN list[IF found = {} THEN 1 ELSE Min(Places(list, prefixes[Min(found)]))]

-----------------------------------------------------------------------------

\* Whether a key of this type authenticates the key exchange; of the types the
\* code does not know, those that OpenSSL has (Ed25519) take the place of ECDSA.
Authenticates(key, c) ==
    CASE key = "ec"      -> c.kx = "ECDHE-ECDSA"
      [] key = "rsa"     -> c.kx \in {"ECDHE-RSA", "DHE-RSA"}
      [] key = "unknown" -> c.kx = "ECDHE-ECDSA"

Gcm == {"AES256-GCM-SHA384", "AES128-GCM-SHA256"}
Cbc == {"AES256-SHA384", "AES128-SHA256"}

\* detect_cipher_suite_for_cert: the certificate ciphers of the DTLS server;
\* the PSK ciphers are the same for every certificate.
Suites(key) ==
    LET Of(kxs, rests) == {Cipher(kx, rest) : kx \in kxs, rest \in rests}
    IN CASE key = "ec"  -> Of({"ECDHE-ECDSA"}, Gcm \cup Cbc)
         [] key = "rsa" -> Of({"ECDHE-RSA"}, Gcm \cup Cbc) \cup Of({"DHE-RSA"}, Gcm)
         [] key = "unknown" -> Of({"ECDHE-ECDSA", "ECDHE-RSA", "DHE-RSA"}, Gcm)

\* The key exchanges that the DTLS server accepts.
Exchanges(key) == {c.kx : c \in Suites(key)}

-----------------------------------------------------------------------------

\* A request: PSK-NEGOTIATE in X-DTLS-CipherSuite, whether the TLS session
\* exports a key for it, a master secret, and the lists of X-DTLS-CipherSuite
\* and X-DTLS12-CipherSuite.
Requests == [psk : BOOLEAN, export : BOOLEAN, secret : BOOLEAN,
             dtls : Lists \cup {NoList}, dtls12 : Lists \cup {NoList}]

Values(header) == IF header = NoList THEN <<Blank>> ELSE header

NoOffer == [mode |-> "none"]

\* PSK first, and nothing else when its export fails; else, for a client with a
\* master secret, a cipher of its list for DTLS 1.2, or of the other list when
\* that one is not sent.
Offer(r, key) ==
    IF r.psk THEN IF r.export THEN [mode |-> "psk"] ELSE NoOffer
    ELSE IF ~r.secret THEN NoOffer
    ELSE IF r.dtls12 # NoList
         THEN [mode |-> "legacy", cipher |-> SelectCompatible(r.dtls12, key), dtls12 |-> TRUE]
         ELSE [mode |-> "legacy", cipher |-> SelectCompatible(Values(r.dtls), key),
               dtls12 |-> FALSE]

\* The header of the answer that names the cipher.
CipherHeader(offer) ==
    CASE offer.mode = "psk"    -> "X-DTLS-CipherSuite"
      [] offer.mode = "legacy" -> IF offer.dtls12 THEN "X-DTLS12-CipherSuite"
                                  ELSE "X-DTLS-CipherSuite"

\* The list the client sent under a header.
SentUnder(r, header) == IF header = "X-DTLS12-CipherSuite" THEN r.dtls12 ELSE r.dtls
=============================================================================
