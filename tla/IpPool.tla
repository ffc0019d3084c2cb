------------------------------- MODULE IpPool -------------------------------
(***************************************************************************)
(* The pool of client addresses (src/src/vpn/ip_pool.rs).                  *)
(*                                                                         *)
(* An address is its offset in the configured network: 0 is the network    *)
(* address, 1 the gateway, NetSize - 1 the broadcast address.  The whole   *)
(* state is the set of assigned addresses; every operation runs under the  *)
(* mutex of SharedIpPool and is one step.                                  *)
(***************************************************************************)
EXTENDS Naturals

CONSTANT NetSize    \* number of addresses of the network, 2^(32 - prefix)

VARIABLE assigned   \* assigned_ips

-----------------------------------------------------------------------------

Addresses == 0 .. NetSize - 1
Gateway   == 1
Reserved  == {0, Gateway, NetSize - 1}
Hosts     == Addresses \ Reserved
Free      == Addresses \ assigned

PoolTypeOK == assigned \subseteq Addresses

\* A mutated form: nothing is reserved.
PoolInitEmpty == assigned = {}

PoolInit == assigned = Reserved

\* allocate hands out the first address of the network, in the order of its
\* iterator, that is not assigned.
Lowest(a, S) == a \in S /\ \A b \in S : a <= b

\* A mutated form: the search ignores what is already assigned.
AllocateAny(a) ==
    /\ a \in Hosts
    /\ assigned' = assigned \cup {a}

Allocate(a) ==
    /\ Lowest(a, Free)
    /\ assigned' = assigned \cup {a}

\* allocate returns Err: the iterator found no free address.
Exhausted == Free = {}

\* release is a no-op on a reserved address and on one that is not assigned.
Release(a) == assigned' = IF a \in Reserved THEN assigned ELSE assigned \ {a}
=============================================================================
