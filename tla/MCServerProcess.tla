--------------------------- MODULE MCServerProcess ---------------------------
(* ServerProcess for TLC: the lists of ciphers that AnyConnect sends, for     *)
(* DTLS 1.2 and before, shortened, lists in other orders, and one that begins *)
(* with a cipher the DTLS server does not have.                               *)
EXTENDS ServerProcess

AES256 == "AES256-GCM-SHA384"
AES128 == "AES128-GCM-SHA256"

CipherLists ==
    { <<Cipher("ECDHE-ECDSA", AES256), Cipher("ECDHE-RSA", AES256), Cipher("DHE-RSA", AES256),
        Cipher("AES", "256-GCM-SHA384")>>,
      <<Cipher("DHE-RSA", AES128), Cipher("ECDHE-RSA", AES128), Cipher("ECDHE-ECDSA", AES128)>>,
      <<Cipher("AES", "128-SHA"), Cipher("DHE-RSA", AES256)>>,
      <<Cipher("ECDHE-RSA", "AES256-SHA"), Cipher("ECDHE-RSA", AES256)>>,
      <<Cipher("DHE-RSA", "AES256-SHA"), Cipher("AES", "256-SHA")>> }
=============================================================================
