# A TLA+ verification of ocserv-rs

ocserv-rs is an AnyConnect-compatible VPN server: one asynchronous Rust process
that terminates TLS, authenticates users, gives each of them an address and a
TUN device, and moves packets over TLS (CSTP) or DTLS. These modules model its
control: who owns an address, a session, an SSL object, a queued packet, and
what happens when tasks, clients and restarts interleave. Paths below are
relative to the repository; `src/src/` is its crate.

## 1. Inventory

| Component | State | Operations | Talks to | What makes it correct |
|---|---|---|---|---|
| Address pool `vpn/ip_pool.rs` | set of assigned addresses | `allocate`, `release`, `gateway` under one mutex | CONNECT handler | reserved addresses never leave; no address lost or given twice |
| Session table `auth/session.rs` | random 32-bit id -> session (token, context id, tunnel) | create, find by token, register, unregister (`remove_session` has no caller) | login handlers, CONNECT handler, control server | a row describes a tunnel that exists; one user never disturbs another's row |
| Control server `control/mod.rs`, client `bin/occtl.rs` | a socket file | bind (removes an old file), `show_users` | session table | the file is its own; the answer is the table of one moment |
| Connection tasks `http/server.rs` | one task per TLS connection: request loop, then CONNECT handler | accept, serve, CONNECT: store DTLS session, validate, allocate, answer, create TUN, link, register, run, unregister, release | everything | every path gives back what it took, in the right order |
| HTTP reader `http/manual_http.rs` | a buffer of 8192 bytes, a body | `read_request`, `write_response` | connection task | requests are read whole however they are cut; what fits is not refused |
| Login handlers `http/handlers/auth.rs` | HPKE contexts, sessions | form, SSO token, password, cookie | SSO providers, session table | a client gets the token of its own login |
| SSO providers `auth/sso/` | none of their own; cookies and URLs outside | login, callback or ACS, success page | browser, identity provider, session table, HPKE contexts | the token travels encrypted for the client that began the login |
| DTLS server `vpn/dtls.rs` | address -> tunnel, SSL pointer -> session id, session store | receive loop, PSK callback | tunnels, by two channels each | keys and packets reach the tunnel they belong to; one client never stops the others |
| DTLS engine `vpn/dtls_engine.rs` | SSL object, user data | feed, extract, drop | DTLS server (makes), monitor (owns), tasks 1 and 2 (use) | no engine is used with the key of another |
| Tunnel `vpn/tunnel.rs` | frame buffer, control channel (64), engine, `use_dtls` | task 1 (TUN -> client), task 2 (client -> TUN), signal monitor | TLS stream, TUN device, DTLS server | no packet lost or sent twice inside the server, requests answered in order, both tasks end together |
| TUN device `vpn/tun_device.rs` | a kernel device, routes, NAT rules | create, configure, drop | connection task, tunnel | one device per address |
| DTLS offer `http/server.rs` 134-259, `utils/cert.rs`, `http/raw_connect.rs` | none; reads the certificate file | mode, cipher, header | DTLS server, by what both think of the certificate | a client is offered what the server accepts |
| Start-up `main.rs`, `config.rs`, `tls_config.rs`, `ocserv-rs.service` | port, sockets, loaded certificate | load, bind, spawn, end, restart | every server task; a second process | after a failure there is a server again, and none harms another |
| CSTP frames `vpn/cstp.rs`, XML types, templates | none | encode, parse | tunnel; login handlers | a header is read as it was written; the rest is text, see section 7 |

Hard behaviours, all listed with their lines under `hazards` in PROJECT.json:
the end of a tunnel (which task ends first, what is detached, in which order
things are given back); reconnection with the same token; a restart with
clients connected; two channels and three tasks between the DTLS server and a
tunnel; SSL objects that are named by their memory address; two tasks of a
tunnel that wait for each other through bounded channels; byte streams cut
anywhere; a context id that is written and parsed at four places; a login that
began under another configuration; two processes that share a port, a socket
path and a certificate file; a certificate that is read again and again while it
may be replaced.

## 2. Modules

| Module | Models | Extends / instantiates |
|---|---|---|
| `IpPool` | `vpn/ip_pool.rs`; an address is its offset in the network | - |
| `SessionManager` | `auth/session.rs`, and the selection of `show_users` | - |
| `AddressLease` | abstract: clients take and give back addresses, no two have one | - |
| `ConnectHandler` | the life of every connection, `http/server.rs` 91-446 | `IpPool` as `Pool`, `SessionManager` as `Sess`, `AddressLease` as `Lease` |
| `ConnectHandlerProofs` | proofs about `ConnectHandler` | `ConnectHandler`, `Induction` |
| `DtlsServer` | the UDP loop, signal monitors, task 2's DTLS branch, SSL objects | - |
| `DtlsServerProofs` | proofs about `DtlsServer` | `DtlsServer` |
| `Cstp` | the header of a CSTP frame and what task 2 reads of it | - |
| `CstpProofs` | proofs about `Cstp` | `Cstp` |
| `Delivery` | abstract: what a tunnel promises its client | - |
| `VpnTunnel` | the two tasks of one tunnel with its buffers and channels | `Cstp`, `Delivery` as `Promise` |
| `VpnTunnelProofs` | proofs about `VpnTunnel`, and that it implements `Delivery` | `VpnTunnel`, `CstpProofs`, `Induction` |
| `SsoLogin` | logins of several clients, by SAML, OAuth2 or password, over restarts with other configurations; HPKE contexts | - |
| `SsoLoginProofs` | proofs about `SsoLogin` | `SsoLogin` |
| `HttpConnection` | the bytes of requests on one connection, the end of answers, keep-alive | - |
| `HttpConnectionProofs` | proofs about `HttpConnection` | `HttpConnection` |
| `DtlsOffer` | the DTLS mode and cipher of a CONNECT, the suites of the DTLS server; no state | - |
| `ServerProcess` | the life of server processes: start, tasks, sockets, certificate, failure, restart; the control server and its clients | `DtlsOffer` |
| `ServerProcessProofs` | proofs about `ServerProcess` and `DtlsOffer` | `ServerProcess`, `Induction` |
| `Induction` | the least-number principle the proofs by induction use | - |
| `MC*` | symmetry sets, configurations, frames and cipher lists for TLC | the module they are named after |

**ConnectHandler.** `pc[c]` is where the task of connection `c` is. A step is
what the task does between two points at which another task can see or change
shared state: every lock of a table or of the pool is one step, every `await`
that can fail is one step with a failing twin. `ip` is the local variable
`assigned_ip` until its release, `dev` the TUN device, which lives until the
*last* of the two tunnel tasks ends, `tasks` the tasks that have not ended.
`TunnelReturns` is the `select!` of `run`: it returns when one task is done and
leaves the other. `Restart` is `Restart=on-failure` of the service unit: all
memory is gone, the tokens that clients hold are not (`issued`; `current` are
those of the running process). A connection slot is used again once nothing of its last connection is left.

**DtlsServer.** `srv` is the loop with the engine it holds in its hands;
`dataQ` and `signalQ` are the two channels of a tunnel; `engine` is
`dtls_state`. Replacing an engine takes two steps, because Rust drops
`stream` (which frees the SSL object) before `user_data` (whose guard removes
the pointer), and the pointer may be used again in between. A datagram of any
client may come from any address at any time, so loss, repetition and reordering
need no actions of their own.

**VpnTunnel.** Frames from the client are numbered; `buffered` counts the bytes
of them in `tls_in_buf`, and a read adds any number of bytes up to `Bytes(wire)`,
the bytes that were sent. Length and kind of a frame are what task 2 finds in the header that `Cstp!Encode` makes. Requests
(DPD, keep-alive) go from task 2 through the control channel to task 1.
`T2Ends` covers EOF, read errors and TUN write errors. The TUN device delivers
without end: packets are numbered up to `MaxPackets`, and `More` is any after
them. Task 1 looks at the engine, seals and looks at `use_dtls` in steps of
their own (`T1ReadTun`, `T1Seal`, `T1SendTo`), between which task 2 and the
monitor change them. `Queue` is everything
on its way to the client, oldest first, and `got` what has arrived, for answers
and packets apart: the ordering invariants relate the two. `ImplementsDelivery` looks from outside: under the mapping of `Promise`
every step is a step of `Delivery` (a request is taken, an answer or a packet
arrives, a packet leaves as a datagram) or changes nothing a client can see,
failures of either task included.

**SsoLogin.** A context id is followed from the STRAP key of the client through
the login URL, the redirect, the identity provider (external, or the pages of
this server for development; both return what they were given) and the callback
into the session, and from there to the key the success page encrypts for.
`logins` is history. A client has a browser of its own; it may begin again,
repeat steps, or log in by password meanwhile. `config` says which providers are
on; a restart empties the tables and may choose another configuration, while
browsers and clients go on with what they hold. `Ways` is what the two submission
handlers come to, for every document and form a client may post. The SAML
callback makes a session for whoever posts a response (its validation is a TODO,
`auth/sso/saml.rs:142`), wherever the browser has been; the one of OAuth2 needs
a code that the provider takes (`Accepted`).

**HttpConnection.** `read_request` and the loop around it for one client that
sends its next request after the last answer. Texts are lengths. A head may have
empty lines in front of it: `FirstEnd` is where `find_header_end` sees an end,
`OnlyEmptyLines` when `httparse` takes what is there for a part of a head. `answer` is how
the client will find the end of what it reads: by a length, after the head, by
the end of the stream, or not at all.

**ServerProcess.** `main[p]` is where `main` of process `p` is; `unit` is the
process of the service unit, `hand` one an operator starts beside it. `dtls` and
`control` are the spawned tasks, whose errors end them alone. `context` is the
key type of the certificate the DTLS task has loaded, `suites` what it found when
it read the file once more for its ciphers, `cert` that of the file now.
`sock` says whose socket the control path names. `End` is what the end of a
process takes with it, and what it leaves. `ctl` follows a control client from
its command to its answer, with the history `seen` of the table meanwhile.

**DtlsOffer.** A cipher is its key exchange (what the prefixes of
`select_compatible_cipher` tell apart) and the rest of its name. `Offer` is the
choice of CONNECT, with the failure of the PSK export, `Suites` what
`detect_cipher_suite_for_cert` configures.

## 3. Runs

| Run | Bounds | What it shows |
|---|---|---|
| `connect_safety` | 3 connections, 2 session ids, 2 tokens, a /29 | type invariant; pool = reserved + leased; listing is exact in one direction; a login to the running process needed; rows disturbed only by the same session; implements `AddressLease` |
| `connect_live` | 2 connections, 1 session id, 2 tokens, a /30 (one host), DTLS sessions, fair handler | refusal only when every host address is held; an ended task means a released address |
| `dtls` | 2 tunnels, 2 addresses, 3 pointers, packet channel 2, signal channel 1, stalls, fair tasks | keys, pointers and mappings stay with their tunnel; with peers that read in the end, the loop returns to its socket |
| `tunnel` | 3 frames of 3 types, 2 numbered packets and more without end, header 2, bodies 0 and 1, stream 2, other channels 1, fair tasks | answers once and in order; one path per packet; no whole frame left in the buffer; a client that reads gets its answers; task 1 follows task 2 although packets keep coming; implements `Delivery` |
| `sso_safety` | 2 clients, 2 contexts, 2 tokens, restarts between SAML with the development provider, OAuth2 with passwords, and passwords alone | pages for their owner; only ways of logging in that are switched on; clear text only without a key |
| `http_connection` | buffer 10, heads 6, 8, 11, bodies 0, 1, 3, 0 to 2 empty lines in front, both versions, three values of Connection | whole bodies; which requests are refused as too large; which are answered; every answer with a body has an end the client sees |
| `server_process` | 2 processes, 2 key types, 2 rows, 1 control client, 5 cipher lists, 2 disturbances, fair tasks | ports and sockets are free for a new process and not taken from a living one; the server comes back; `show_users` is one moment; the offered key exchange fits the certificate |

Five further runs expect a violation; each is a difference between a comment of
the source and what the code does, described under `findings`:

* `running_is_listed`: `unregister_tunnel` finds a row by token, so the end of an
  old connection clears the row of the one that has replaced it.
* `one_device_per_address`: the task that `select!` leaves behind is detached, not
  stopped, and keeps its TUN device while the address goes to the next client.
* `dtls_pending`: the guard of a freed engine removes the pointer of a new engine
  that got the same memory address in between.
* `sso_context`: OAuth2 sends the context id bare and looks for `ctx=` in it.
* `offered_cipher`: CONNECT reads the key type from the certificate file, the DTLS
  server has loaded the one that was there at its start; after a renewal with
  another type of key the offer does not fit the server.

More disagreements were seen while modelling and are in the models, without a
run of their own:

* Task 2 goes on reading the connection after the handler has left the tunnel
  (`http/server.rs:413`; the same cause as `one_device_per_address`).
* The DTLS session of a refused CONNECT stays in the store (`Connect`).
* The UDP loop waits for room in the channels of one tunnel (`vpn/dtls.rs:281`),
  so one stalled tunnel, `T2Stall`, stops every client: `LoopReturns` has to
  suppose that no tunnel is stalled for good.
* A client that begins a login with the cookie of a living session gets an error
  (`AuthWithCookie`: `auth_complete.xml` names variables the handler does not give).
* The engine and the ClientHello of a new session reach a tunnel through two
  channels: task 2 may take the hello first and drops it then (`T2Receive`).
* `select!` without `biased` begins at a random branch, so task 1 may read a
  packet while a control packet waits, which the comments "Priority 1" and
  "Priority 2" (`vpn/tunnel.rs:107`, `:137`) deny.
* An answer without a body on a connection that is kept open has no end a client
  could find (`Ends`, "unknown").
* A legacy client that sends no cipher list is offered the empty cipher (`Blank`),
  never the default at `utils/cert.rs:81`; and without `dtls_port` no DTLS server
  is started while CONNECT offers port 8443 (`Spawn`).
* A request behind two empty lines is never parsed: `find_header_end` sees the
  end of its head in front of it, and `httparse` asks for more
  (`http/manual_http.rs:242`, "Need more data, continue reading"), until the
  buffer is full (`OnlyEmptyLines`).
* `select_compatible_cipher` compares key exchanges alone, so an old cipher that
  comes first is offered where the server has only the next one
  (`OldCipherOffered`).
* A control command that comes in two pieces is answered with an error (`Ask`).

Why the bounds suffice. Two connections with one token and a third one show
every conflict on a row and on an address; a /30 makes the pool run full, a /29
leaves a choice. Three pointers are one more than two live engines of a tunnel
need, so a freed one is used again while another is in use; a fourth would only
name the same roles again. Capacities of 1 and 2 make every channel full, which
the real ones (10, 64, 1024) are rarely. Header 2 and bodies 0 and 1 give frames
whose header, body or both are cut. With an empty line of 2 in front the heads
end before, at and behind the end of the buffer, and two empty lines are found
before all of them. Two numbered packets have an order; those after them only
have to keep coming. Two
processes are what a conflict needs. Two disturbances give a kill during a
restart, a renewal before a failure, and a second server that fails half way.
Five lists hold every key exchange, in both orders, lists without one that
a key fits, and one that begins with a cipher the server lacks.

`CHECK_DEADLOCK FALSE` stands where the system ends: a tunnel whose tasks have
ended (`Tunnel.cfg`), a connection that is closed
(`HttpConnection`).

## 4. Fairness

* `ConnectHandler`: the steps after the tunnel (`TunnelReturns`, `Unregister`,
  `ReleaseIp`) wait for a mutex at most, so the runtime takes them. Nothing else:
  the other task of a tunnel may wait for its peer for ever.
* `DtlsServer`: the loop, the monitors and task 2 are polled. Nothing is assumed
  of clients, and not that a stalled peer reads again: `LoopReturns` names that
  case itself.
* `VpnTunnel`: weak fairness for steps that stay enabled until taken; strong
  fairness for the control branch of task 1, because `select!` begins at a random
  branch, so a branch that is ready again and again is taken; the TUN branch
  needs none. Nothing is assumed of the client: `RequestsAnswered` has its reading
  (`ClientReads`) as a premise, and `Task1Follows` excepts a write to a client that
  has stopped reading (`WriteStuck`).
* `HttpConnection`: the task is polled, and the client reads what it is sent
  (`AnswerRead`); it need not send anything.
* `ServerProcess`: the kernel and the runtime run `main` and the tasks that start
  servers, and systemd takes `Restart`. Nothing is assumed of operators, tunnels
  and control clients.

## 5. Proofs

Every safety invariant, every action property and both refinements that the
passing runs check on small instances are theorems, for all values of the
constants. Each `*Proofs` module states one inductive invariant `Inv`, proves
`Init => Inv` and `Inv /\ [Next]_vars => Inv'` with one case for every action,
and derives the properties from it. TLC checked every `Inv` before it was
proved.

What is assumed of the constants: a network has two addresses at least;
capacities and lengths are naturals, where the code needs it positive ones; a
frame body fits the 16 bits of its header; a list of ciphers has an element
(`split` yields one); and a marker for "none" is not one of the values. TLC
evaluates these assumptions in the runs.

**ConnectHandlerProofs**, for every network size and any connections, tokens,
session ids and DTLS ids.

* `TypeCorrect`, `PoolCorrect`. `TypeOK` is not inductive: that `allocate`
  returns a host address rests on the reserved addresses being assigned, which
  is `LeasesMatchPool`; and that `release` gives back nobody else's address
  rests on `TypeOK` (an address exactly on the steps in `Holding`). Their
  conjunction `Inv` is inductive. Three lemmas carry the proof: `AllocateInv`
  (an address nobody has), `GiveUpInv` (every release, on the error paths and at
  the end), `MoveInv` (every step that leaves the pool alone).
* `AllocateTotal`: the guards of the model leave no case of `allocate` out.
  `RefusalsJustified` and `LeasesImplemented` (a refinement: every step is
  `Take`, `GiveBack`, `TakeAllBack` or a stutter) follow from `Inv`.
* `LoginRequired` adds `LoginInv`: every token in the table was issued by the
  running process, and a connection past the validation presented one. Rows may be replaced and
  overwritten, but never change their token (`SetTunnelKeepsTokens`).
* `ListingCorrect` adds `RowsLeased`: a row with an address equals `RowOf(c)` for
  a connection `c` that is in `run` or `unregister`. The interesting case is
  `Unregister`: it clears every row of its token, so a row that remains belongs
  to another connection.
* `ListingKept` needs `LoginRequired`: a login that draws the id of a session
  is told from the other causes because it issues a new token (`RowChanged`).

**DtlsServerProofs**, for any tunnels, UDP addresses, addresses of SSL objects
and capacities. `KeyIsOwn` speaks of engines in use, and is not inductive: a new
engine may get the address of an old one. `Inv` says where an SSL object can be
(in the loop's hands, in a signal channel, in use), that it is alive there
(`PtrsLive`), in one place only (`PtrsApart`), at the tunnel of its session
(`EnginesHome`) and registered for that session or for none (`KeysOwn`). From it
follow `KeysNotSwapped` and `PendingBounded`, also while a guard is late, and
`HandshakesOwnKey`. `QueuedStayMapped` rests on `Mapped`: the loop takes an
address only from a tunnel that has ended, and whose channel is empty then.

**VpnTunnelProofs**, for any number of frames and packets, bodies up to 65535
bytes and channels of any capacity.

* `TypeCorrect` contains that `tls_in_buf` never holds more than was sent.
  `Bytes` is a recursive function over the stream; `BytesLaws` (what appending a
  frame and splitting one off does to it) is proved by induction. With
  `FrameReadBack` of `CstpProofs`, task 2 cuts the stream where the client put
  the frames together: `WholeFramesTaken`.
* `AnswersInOrder` and `PacketsOnePath` relate what the client has received to
  `Queue`. `EveryStep` reduces the actions to seven things a step can do to
  messages: leave `Queue` as it is (`Keep`, the steps from one place to the next
  included), lose the part task 1 holds (`Drop`), put an answer in at the end
  (`Asked`), take the head (`ReadOut`), take a packet from the TUN device
  (`Taken`), send it as a datagram (`Sent`), or concern only packets after the
  numbered ones (`Quiet`). `Answers` and `Paths` are then proved for these forms. `Answers`
  says more than `RepliesInOrder`, because answers on the TLS stream go on
  arriving after task 1 has failed: they are the oldest that are owed.
* `DeliversAsPromised`: every step is a step of `Delivery` or changes nothing
  a client can see (`DeliveryStep`).

**SsoLoginProofs**, for any clients, contexts, tokens, configurations and
restarts. `PageForOwner` is about the last step of a login; `Inv` follows the
context id to it: what a client carries in form, redirect, cookie and page is
its own (`CarriedOwn`), a redirect that is on its way names its provider
(`Providers`), a login came with an id of its client (`LoginsOwn`) and a session
refers to it or to none (`SessionsOwn`). A context id is never drawn twice, so
one that a restart has lost stays lost. `PagesForOwner`, `LoginsConfigured` and
`ClearWithoutKey` follow.

**HttpConnectionProofs**, for every size of the buffer and all lengths.
`HandledWhole` counts bytes at the handler; `Inv` counts them while they come
(`HeadPart`, `BodyPart`), and says how the body loop is left (`LoopPart`).
`BodiesWhole` and `RefusalsExact` follow; a refusal may be due to empty lines.

**ServerProcessProofs**, for any processes, control clients, rows and
disturbances. `NoneInTheWay` rests on the TCP port, which keeps two processes
from serving (`PortHeld`), and on nobody else binding the socket path between
the removal of the file and the bind (`PathFree`), as long as no accept loop has
failed. `WayIsClear` and `SocketKept` follow; `Snapshots` from `TableSeen`.
`OffersFitKey` is about `DtlsOffer` for lists of any length: `Selected` shows
what the search over prefixes and ciphers returns. It speaks of key exchanges;
`OldCipherOffered` shows that the rest of the name may still not be one the
server has.

**CstpProofs**, for every type of frame and every length. `FrameReadBack`:
what task 2 reads of a header is the type and the length that were encoded, up
to 65535 bytes; `LongFrameCut`: a longer payload would be announced modulo
65536. Both rest on `TypeReadBack` (no two types share a byte) and on the
division of a number into two bytes.

**Induction.** An induction theorem with an operator as its parameter cannot be
used with the provers at hand. `LeastNat` (a set of naturals that is not empty
has a least element, from the well-foundedness of `<`) takes its place: the
least counterexample is refuted.

Model-checked only: liveness (`FinishedTunnelReleases`, `LoopReturns`,
`RequestsAnswered`, `Task1Follows`, `Served`, `AnswerEnds`, `ServerBack`), because
fairness and ENABLED are beyond the prover. The five violations are
counterexamples of TLC.

## 6. Conventions

A definition keeps the name of the code where it can. Operators introduced as
"a mutated form" are plausible errors of the code; PROJECT.json lists, for each
property of a passing run, the one that breaks it.

## 7. Not modelled, and why

* Cryptography, TLS and DTLS records: libraries. A key is its owner, a
  ciphertext the key it is for, a handshake two flights.
* Legacy DTLS with certificates: for the maps and channels it behaves as PSK.
* Answers to DPD inside DTLS: written into the engine under its lock, no
  state of the server depends on them.
* Routes, `sysctl`, `iptables` (`TunDevice::configure_routing`): commands whose
  errors are ignored. (Every tunnel appends a NAT rule that nothing removes.)
* The fields of a configuration that steer nothing here, command lines, logging,
  the table `occtl` prints, the XML fields and templates, and the headers of
  `build_connect_response` apart from those for DTLS: text and layout.
* `SessionManager::remove_session`, `auth/password.rs` and `CstpPacket::parse_header`:
  no caller outside the tests.
* Threads of the runtime: the token exchange of OAuth2 blocks one
  (`auth/sso/oauth2.rs:104`).
* Session ids drawn twice are modelled (a row is replaced); tokens, App-IDs and
  context ids (256 and 122 bits) are taken to be fresh.
* Pipelined HTTP requests: AnyConnect does not send them; `read_request` drops
  or misreads bytes behind a request.
* A browser shared by several clients, and a party that alters what the
  browser carries.
* What `GET /logout` promises: the code answers success and keeps the session.

## 8. Plan

1. Address pool, sessions, CONNECT handler, abstract leases - done, proved.
2. DTLS server, tunnel, what a tunnel promises (`Delivery`) - done, proved.
3. Login with configurations, HTTP connection with its answers, CSTP headers -
   done, proved.
4. Server process, control server, DTLS offer - done, proved.
5. Modules still worth writing: a composition of `DtlsServer` with the session
   store of `ConnectHandler`, so that stale entries and reuse meet, and
   `extract_session_id_from_client_hello` as a function against a reference
   definition. Then proofs about what they add.
