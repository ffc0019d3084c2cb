---------------------------- MODULE AddressLease ----------------------------
(***************************************************************************)
(* What the server promises about client addresses, seen from outside: a   *)
(* client holds at most one address, no address is held by two clients,    *)
(* and a restart of the server takes every address back.                   *)
(***************************************************************************)
CONSTANTS Clients,   \* the parties that may hold an address
          Addrs,     \* the addresses that may be held
          None       \* no address

VARIABLE lease       \* lease[c]: the address c holds, or None

Init == lease = [c \in Clients |-> None]

Take(c) ==
    /\ lease[c] = None
    /\ \E a \in Addrs :
          /\ \A d \in Clients : lease[d] # a
          /\ lease' = [lease EXCEPT ![c] = a]

GiveBack(c) ==
    /\ lease[c] # None
    /\ lease' = [lease EXCEPT ![c] = None]

TakeAllBack == lease' = [c \in Clients |-> None]

Next == TakeAllBack \/ \E c \in Clients : Take(c) \/ GiveBack(c)

Spec == Init /\ [][Next]_lease
=============================================================================
