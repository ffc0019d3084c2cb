---------------------------- MODULE MCVpnTunnel ----------------------------
(* The frames a client sends, for model checking. *)
EXTENDS VpnTunnel

\* One frame of data, requests with and without a body, and the end.
MCSorts == {[type |-> "Data", body |-> 1], [type |-> "Disconnect", body |-> 0]}
           \cup [type : {"DpdReq"}, body : {0, 1}]
=============================================================================
