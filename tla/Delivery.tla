------------------------------ MODULE Delivery ------------------------------
(***************************************************************************)
(* What a tunnel promises its client, seen from outside.  Requests (DPD    *)
(* and keepalive) are answered in the order they were taken, with none     *)
(* left out: what a failure loses is at the end.  A packet of the network  *)
(* reaches the client at most once, as a datagram or on the stream, and    *)
(* those on the stream keep their order.                                   *)
(***************************************************************************)
EXTENDS Naturals, Sequences

CONSTANT Requests   \* the numbers of the requests

VARIABLES
    asked,     \* the numbers of the requests that were taken, in order
    answers,   \* the numbers of the answers the client has received
    network,   \* packets the network has delivered, in number
    stream,    \* the packets the client received on the stream, in order
    datagrams  \* the packets sent to it as datagrams

Init ==
    /\ asked = <<>> /\ answers = <<>>
    /\ network = 0 /\ stream = <<>> /\ datagrams = {}

Ask ==
    /\ \E n \in Requests : asked' = Append(asked, n)
    /\ UNCHANGED <<answers, network, stream, datagrams>>

Answer ==
    /\ Len(answers) < Len(asked)
    /\ answers' = Append(answers, asked[Len(answers) + 1])
    /\ UNCHANGED <<asked, network, stream, datagrams>>

Packet ==
    /\ network' = network + 1
    /\ UNCHANGED <<asked, answers, stream, datagrams>>

\* One of the packets that have not reached the client.
Datagram ==
    /\ \E n \in 1 .. network :
          /\ n \notin datagrams /\ \A i \in 1 .. Len(stream) : stream[i] # n
          /\ datagrams' = datagrams \cup {n}
    /\ UNCHANGED <<asked, answers, network, stream>>

\* One of the packets that are not datagrams, later than the last one.
Stream ==
    /\ \E n \in 1 .. network :
          /\ n \notin datagrams
          /\ stream # <<>> => n > stream[Len(stream)]
          /\ stream' = Append(stream, n)
    /\ UNCHANGED <<asked, answers, network, datagrams>>

Next == Ask \/ Answer \/ Packet \/ Datagram \/ Stream

Spec == Init /\ [][Next]_<<asked, answers, network, stream, datagrams>>
=============================================================================
