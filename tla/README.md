# A TLA+ model of cftun

cftun tunnels TCP and UDP through Cloudflare. A *server* keeps QUIC connections
to Cloudflare's edge and dials the destinations that clients ask for; a *client*
forwards local ports, or a whole TUN device, over websockets to the edge. This
directory models the parts of it that keep state and run concurrently, checks
them with TLC and proves their invariants, and two refinements, with TLAPS.

`PROJECT.json` relates every definition to the lines it models. In the modules,
operators whose comment begins with *Faulty variant* are not part of the
specifications: they are plausible mistakes that the properties must, and do,
detect.

## 1. Inventory

| Component | State | Operations | Hard behaviour | Correct when |
|---|---|---|---|---|
| UDP forwarder, `client/udp.go` | `udpConns`, per connector: queue, `closed`, mutex, websocket, last receive time; buffer pool, outbound queue | listen, create, read, write, health check, outbound workers | five goroutines per connector, one lock that not all of them take, a channel that is closed; buffers handed from goroutine to goroutine | no send on a closed channel; every connector ends; no dead entry in the map; no buffer used twice, each datagram where it belongs |
| TCP forwarder, `client/tcp.go` | `closed`, two connections | copy up, copy down | each goroutine wakes the other by closing a connection; message boundaries | data intact; both goroutines end |
| TUN tunnel, `client/tun/tunnel/` | fan-in queues, two connections each | dispatch, dial, pipe | as above; half-close | as above |
| Argo pool, `client/tun/transport/argo/dialer.go` | channel, counter, mutex, stop channel | `Dial`, `preDial`, `Close` | the counter lags behind the channel; a stop races refills | never more than the pool size; empty after the stop |
| Argo header, `client/tun/proxy/argo.go` | header, flag | first and later `Write` | offsets, lengths, once only | the server dials what the client meant |
| Argo websocket, `.../argo/connection.go` | left-over bytes | `Read`, `Write` | messages longer than the buffer | no byte lost |
| Server session, `server/cfd/connection.go`, `stream.go`, `websocket.go` | destination, websocket lock and flag, contexts | accept, dial with retries, copy both ways, ping, close | three goroutines, two locks, deferred calls; a read that writes | no message after close; every session ends |
| Packet decoding, `server/cfd/packet.go` | none | `Decode` | length checks | accepts exactly what the client sends |
| Edge tunnel, `server/config.go`, `server/cfd/tunnel.go`, `quic.go`, `register.go` | preferred addresses, DNS results, port of each index, sockets | choose address, bind, dial, register, accept | failure at each step, reconnection | addresses distinct as far as the lists allow; sockets accounted for; connections replaced |
| WARP, `server/warp.go` | `.warp.json`, the identity | load, verify, register, save, device | a crash between registration and save; a file torn in half | an identity is registered once and kept |
| Quick tunnel, `server/quick.go`, `main.go` | `.quick.json`, `quickData` | load, apply, save | signal or crash at any step | a domain survives a short restart and no longer |
| Token, TLS, keys | none | encode, parse | library calls | - |
| TUN device and engine, `client/tun/core/`, `engine/` | device, outbound queue, context of the loops | start, dispatch, send, stop | two loops that end each other; a stop while connections start | stop returns with both loops ended; no connection waits for another |
| Dialer, routes | none | system calls | - | - |
| Buffers, `client/tun/buffer/` | size classes | get, put | sizes between and beyond the powers of two | a slice long enough, filed where it came from |
| Log | subscribers nobody can reach | - | - | - |

Interaction. `Config.Run` of the server loads or applies for a token and finds its
WARP identity (**QuickTunnel**), then starts one loop per connection
(**EdgeTunnel**). Every QUIC stream accepted there is a session
(**ServerStream**). The client opens a session per local TCP connection
(**Relay**), per UDP source address (**UdpForward**, **UdpBuffers**), or per
connection of the TUN device (**TunTunnel**), for which it may take a websocket
from the pool (**ArgoPool**); on a pooled websocket the destination travels in
front of the first message (**HeaderCodec**). **TunSession** composes the last of
these from end to end: pool, header, relay, server's handler.

`PROJECT.json` lists the hazards met while reading, each at its line.

## 2. Modules

### UdpForward (`client/udp.go`)
One listener; every connector `c` has a creator (`cpc`), reader (`rpc`), health
check (`hpc`) and writer (`wpc`). `udpConns`, `closed`, `qlen`/`qclosed` (the
channel), `mu` and `remote` are the shared state; `idle` stands for "the idle
timeout has passed since `lastRecvTime`". A send on a closed channel sets
`panicked`; what follows such a send is left to the process's death.

### UdpBuffers (`client/udp.go`)
The data of the same component: every buffer of `udpBufPool`, what it holds (`mem`)
and who refers to it, from the listener through a connector's queue to its
websocket, and from the websocket through `outboundQueue` and its workers to the
local client. Locks and shutdown, which `UdpForward` has step by step, are taken
together here. Content is read when it is written out, so a buffer that was given
back too early shows.

### ArgoPool (`argo/dialer.go`)
Request `r` is a `Dial` (`dpc`), the `preDial` it starts (`ppc`) and the
connection that makes (`cst`). Channel operation and counter update are separate
steps, as in the code. `BoundedPool` is what the pool promises (at most `Capacity`
idle connections, each used once, none discarded before the stop); `PoolImplemented`
is the refinement. It maps `idle` to the connections of requests whose `cst` is
"dialled" or "pooled": a connection is idle from the end of its handshake, with the
mutex held and the push still to come, to its pop. That is why the abstract bound
needs the mutex across handshake and push, and why a push that found the channel
full would discard an idle connection, which `BoundedPool` forbids.

### ServerStream (`server/cfd/connection.go`, `websocket.go`, `stream.go`)
Handler (`hpc`), destination reader (`rpc`) and pinger (`ppc`) of one session,
with the websocket's `writeLock` and `done`, its context, the destination and
the stream. Deferred calls are steps in the order in which they run. The handler's
read is a writer too: `wsutil.ReadClientBinary` (`websocket.go:90`) answers a ping or
a close frame from the goroutine that reads, without `writeLock` and without a look at
`done` (`ReadPing` to `ByeReturns`).

`ClosableWriter` is what the websocket promises to the goroutines that share it: its
`Writers` write one message at a time and none after `Close`; its `Repliers` answer
control frames at any time until the connection underneath is closed.
`WriterImplemented` is the refinement.

### HeaderCodec (`proxy/argo.go`, `server/cfd/packet.go`)
`parseHeader`, `addHeader` and `Decode` as operators on sequences of bytes.

### TunSession (`argo/dialer.go`, `proxy/argo.go`, `server/cfd/connection.go`)
One session of the TUN client and its server. `Dial` takes a pooled connection,
which may be dead, or makes one; `hdr` says whether the header is due; the server
reads the first message, decodes it, dials directly or through WARP, and forwards.
A read takes what fits `ServerBuf` and drops the rest of the message (`ConnRead`). Either
side may fail at any point. The destination ends in two steps: it sends no more
(`DestEnds`), and then `handleRemoteConn` closes it (`DestCloses`); a write of the handler
in between succeeds, or fails if the destination has gone altogether.

### EdgeTunnel (`server/config.go`, `tunnel.go`, `quic.go`, `register.go`)
One loop per index. `getEdgeIP` and `createUDPConnForConnIndex` are critical
sections and therefore single actions; lookups, binds, dials, `OpenStream` and
registrations may each fail. `owner` says who has bound a port, `portFor` is
`portForConnIndex`, `leaked` has the sockets that a failed `OpenStream` leaves without
a `Close`; Go's finalizer of an unreachable `UDPConn` may close one at any time
(`Finalize`) or never. The three sources of addresses are any lists: `edge-ips` is not
compared with the DNS results, and both may contain the fallbacks 198.41.192.*index*,
so `DistinctEdges` compares an address's connections with the places it has. The RPC
library is external: what is modelled of it is that every
`RegisterConnection` starts one more reader on the same stream, so that the
answer to a second attempt may be taken by the reader of the first.

### QuickTunnel (`server/quick.go`, `warp.go`, `config.go`, `main.go`)
`Config.Run` (`run`) and the signal handler (`main`) run concurrently; each of the
two files is truncated, then written; `Kill` may come at any moment. The WARP mode
is chosen from `Modes` at each start, as an edited configuration may. `served` and
`kept` are history variables for the properties. Two simplifications: `Load` reads the
file, parses it and looks at the time in one step (the save that could come between
is that of the signal, after which the process ends), and a `.warp.json` that exists can
be read, where the code registers anew on every error of `ReadFile`.

### Relay (`client/tcp.go`, `client/tun/tunnel/tcp.go`, `argo/connection.go`)
Two goroutines and the data of both directions, as numbered units in messages.
`mtu`, chosen in the initial state, is the variant: with 0 it is the forwarder, which
sets a flag and closes one side, otherwise the tunnel, which closes both and whose
buffer the engine makes as long as the MTU. `Allocator` gives that buffer: the size
classes of `buffer/allocator`, in units. `header` follows the header that the tunnel's
first message has on a pooled connection: it is no unit, but takes `HeaderLen` of the
server's buffer (`ServerRoom`), and the server dials only when it has it. The general names (`RelayInit`, `RelaySpec`,
`RelayTypeOK` ...) carry the module's name, because its proofs are in one module with
those of TunTunnel.

### TunTunnel (`client/tun/tunnel/`, `engine/`, `core/`)
The device's two loops (`dpc`, `opc`), the handlers of new TCP and UDP requests
(`fpc`), the dispatcher, a handler per connection (`hpc`) with its two copies, and
`stop` (`mpc`) step by step. The endpoint's `once` and `wg` are variables: `Attach` is
called when the NIC is made and again, with nil, when the stack is taken down, and it
is `wg` that `stop` waits for. gVisor is external: it runs a TCP handler in a
goroutine and a UDP handler in the goroutine that injects the packet, and its
`Stack.Close` ends the connections that exist at that moment. The device is the
one with loops of its own (all systems but Linux).

Each `MC...` module instantiates its namesake for TLC, and each `...Proofs` module
holds the theorems about its namesake; `TunTunnelProofs` those about Relay and
Allocator too.

## 3. Runs

| Run | Shows |
|---|---|
| `udp_safety` | no listener send on a closed queue, no dead entry, two connectors on one address |
| `udp_live` | a connector whose reader or health check ended ends entirely; the listener gets free of a closed one |
| `udp_buffers` | no buffer in two hands or in use and in the pool; datagrams at most once and only to their own peer; buffers come back |
| `pool` | the counter's meaning; the abstract pool is implemented; empty after the stop |
| `stream` | the abstract writer is implemented, the answers to control frames beside it; all goroutines of a session end and release the destination |
| `stream_close_stall` (violated) | the handler waits for a writer before it sets the deadline that frees it |
| `session` | the right destination by the right way, payload intact but for what exceeds the server's buffer, from client to server; client and server never both wait; the write after the destination's close ends the session |
| `edge` | sockets and ports accounted for; no address used more often than it is listed; a registered connection is replaced |
| `quick` | domain and URL survive a restart; a WARP identity is kept; a start ends |
| `quick_expiry` (violated) | a signal during the application saves the expired domain as fresh, and the next start serves it |
| `relay` | data intact, nothing stays in a buffer, both goroutines end, in both variants, with and without a header, and for MTUs on both sides of the limits |
| `tun` | the TUN client: requests completed once, handlers release, none waits for another, stop returns, and not before the loops |

The violated runs are explained under `findings` in `PROJECT.json`, with the line
of documentation or comment each one contradicts.

### Known deviations without a run of their own
The modules follow the code here too; the properties leave these cases out, and
say so in their hypotheses.
* `client/udp.go:105` sends a connector's first datagram without the mutex: a
  creator that is slower than the idle timeout meets a queue that `healthCheck` has
  closed, and the process panics (`FirstSend` sets `panicked`).
* `client/udp.go:86-88` drops a datagram without giving its buffer back to the pool;
  the garbage collector takes it (`ReadDrop`).
* `client/udp.go:54` starts several workers on one queue: datagrams of one session
  may be delivered in another order.
* `client/udp.go:90` waits for room in a full queue with the mutex that
  `healthCheck` needs at line 178: while the writer is stuck, the connection does
  not time out and no source address is served.
* `client/udp.go:150-152` uses 30 seconds where `README.md:155` says 60.
* `server/cfd/connection.go:107-111` calls `err.Error()` on a nil error after a
  first read of fewer than six bytes (`PreambleShort`).
* `server/cfd/packet.go:70` asks for two bytes more than the port has: a first
  payload of one byte is refused with "missing port fields".
* `server/cfd/connection.go:63-79` repeats the registration on a connection that
  is dead and never gives it up, so it is not replaced.
* `server/cfd/tunnel.go:30` takes a preferred address off its channel for good: a
  second connection of the same index uses DNS.
* `server/config.go:69-77` takes `edge-ips` as they are. An address that is listed twice,
  that DNS gives as well, or that is the fallback of an index (`README.md:44-51`
  recommends 198.41.192.0/20, which has them all) may serve two connections at once.
* `server/cfd/connection.go:55-58` returns without closing the QUIC connection: its UDP
  socket is left to the garbage collector.
* `server/cfd/websocket.go:90` answers ping and close frames without `writeLock`: an
  answer may come between the header and the payload of a frame that another goroutine
  is writing, and may follow `Close`.
* `server/cfd/websocket.go:94` copies what fits a 32 KiB buffer and drops the rest
  of a message without an error; the forwarder sends up to 64 KiB in one
  (`client/tcp.go:9`), the tunnel as much as its MTU (`engine.go:56`), so `gotUp` may
  have gaps unless `FitsServer`. With an MTU above 64 KiB the allocator has no
  buffer and `io.CopyBuffer` makes its own of 32 KiB: its messages fit, but for the
  first one on a pooled connection, of which the 8 or 20 bytes of the header push the
  last ones out (`proxy/argo.go:76`), as they do with an MTU of 32 KiB.
* `server/cfd/connection.go:140`: on a pooled connection the server waits for the
  client's first message before it dials; a protocol in which the destination
  speaks first never starts.
* `server/cfd/connection.go:155`: when the first payload cannot be written the
  handler returns and nobody closes `remoteConn`.
* `server/cfd/connection.go:182`: the destination's end closes the websocket's write
  side only; a client that writes no more is not told.
* `client/tun/tunnel/tunnel.go:31` keeps a UDP session timeout that nobody reads.
* `client/tun/tunnel/tcp.go:33` leaves the application's connection open when the
  dial fails.
* `main.go:142` saves an empty token when the signal comes during the first
  application; the next start within ten minutes serves it. A signal between the two
  assignments at `server/config.go:51` saves a token and the URL of another domain.
* `server/warp.go:56`: after a crash in the middle of the write `.warp.json` is no
  JSON; the error is ignored, the identity stays empty, and this and every later
  start panics in `MustParseAddr` until the file is removed.
* `server/warp.go:92`: the registration has no timeout.
* `client/tun/tunnel/tcp.go:63` closes both connections when one direction ends;
  `tcpWaitTimeout` (`tunnel.go:17`), a half-close timeout, is not used.

### Bounds
* `udp_*`: one address (addresses share nothing but the listener), two
  connectors, so that a new one replaces an old one or races it, a queue of one,
  so that it is full and empty. Liveness with one connector: the goroutines of
  two only meet in the map.
* `pool`: four requests on a pool of two fill it, try to overfill it and refill it.
* `stream*`: `MaxRetries = 3` as in the code; nothing else is bounded.
* `udp_buffers`: two sources, two connectors, three buffers, so that each queue, the
  worker and a reader compete for the last one; two datagrams in, one out.
* `session`: three writes (first, second, later); both address lengths, ports
  with equal and different bytes, payloads of one, two, 22 and 31 bytes that
  resemble headers; one IP version is proxied. The server's buffer has 30 bytes: 22 is
  what is left of it after an IPv4 header and too much after an IPv6 header, 31 is too
  much without any. The proofs ask for no more than 22, which the longest header and
  the two bytes of `Decode`'s check need.
* `edge`: two connections, one preferred address, one DNS address in each of two
  regions, so that preferred, cached, and computed addresses all occur; one of the
  regions gives the preferred address, which is a fallback as well, so that one
  address has up to three places; three ports, so that sockets leaked by `OpenStream`
  use them up.
* `quick*`: the ten minutes are two ticks of a clock of four (seven in
  `quick_expiry`); two domains (three) and two WARP registrations (one). That is
  enough for stop, expiry, interrupted application or save, and another restart.
  `quick_expiry` has no WARP (`Modes`), since a start may wait for a registration between
  loading a domain and serving it.
* `relay`: units of 16 KiB; three of them each way, buffers of four (forwarder) and
  two (`io.Copy`, server), MTUs of one, three and five, where the allocator's largest
  class is four: messages are longer and shorter than the buffer that receives
  them, the tunnel's buffer comes from an exact class, from the next larger one and
  from none. The header takes one unit: after it the server has room for the buffer of
  MTU one and for half of that of MTU five. One message under way.
* `tun`: one TCP and one UDP connection, which meet in the dispatch loop and in
  the dispatcher, and an outbound queue of one. `maxConnAttempts` is left out:
  beyond it gVisor ignores a SYN, which is sent again.

Symmetry is used for the connectors of `udp_safety` only. Deadlock is checked
where the system runs for ever (`edge`, `quick`); a connector, a pool, a session
and a relay end.

### Fairness
Weak fairness for the steps a goroutine can take by itself, strong fairness for
taking a mutex and for sends on a channel (Go's mutex turns to its longest
waiter after a millisecond, and channels serve senders in order). Nothing is
assumed of peers: messages need not come, a client or a TCP destination need not
read, a write to an open connection may block for ever, the registration at WARP
need not be answered. The exceptions are calls with a timeout (UDP read deadline,
websocket and QUIC handshakes, the HTTP request for a domain), a write to a UDP
socket (it returns), the relay's notice of a connection that broke (in
`TunSession`), and, in `Relay`, a server and an application that read.

## 4. Proofs

`UdpForwardProofs` proves, for every set of connectors and addresses and every
queue capacity, `TypeCorrect`, `ListenerNeverPanics` and `TombstonesNeverStay`.
None of the three is inductive alone. The invariant `IInv` adds
* `LockInv`: who holds a connector's mutex is exactly whose program counter is
  inside a critical section;
* `QueueInv`: the queue is closed exactly when the health check is past its
  critical section, and `closed` was set before;
* `MapInv`: an entry of `udpConns` is a connector that has been created for that
  address.

With the lock invariant, the listener's check of `closed` under the mutex
carries over to its send: the health check, which alone closes the queue, must
wait. The proof has one step per action.

`ArgoPoolProofs` proves, for every pool size and finite set of requests,
`CountIsAccurate`, `TypeCorrect` (the counter never leaves -1..`PoolSize`),
`PushNeverOverflows` and `PoolIsBounded`. The invariant is the exact meaning of the counter:
`connCount` + pushed and uncounted = pooled + popped and not uncounted + drained.
With the mutex (at most one `preDial` past its check) it gives room for the one
connection that is being dialled. The lemmas on cardinality rest on
`FiniteSetTheorems`.

It also proves `ImplementsBoundedPool`: every step is a step of the abstract pool or
leaves its state alone. A push is a `Make` because `PushNeverOverflows`.

`ServerStreamProofs` proves, for every number of retries, `TypeCorrect`,
`QuietAfterClose` (nobody is in the middle of a message or a ping once the websocket is
closed, and nobody writes at all, the handler's answers included, once the stream is)
and `ImplementsClosableWriter`. The invariant adds to the
types
* `LockInv`: `writeLock` is held exactly while a goroutine writes, and one only;
* `StartInv`: from which point of the handler on the pinger and the reader exist;
* `CloseInv`: the stream is closed last, and with the websocket closed nobody
  writes.

`QuickTunnelProofs` proves, for every expiry time and every bound, `TypeCorrect`,
`DomainSurvives` and `WarpIdentityKept`. For the domain the invariant follows it
around a restart:
* `StopInv`: from the signal on, `Config.Run` serves and holds the kept pair, the
  time of the stop is the one recorded, and what is marshalled is that pair with
  that time;
* `RestartInv`: from the end of the process to the next signal the file holds it,
  and a start has either loaded it or is too late;
* `GivenOut`: nobody holds a domain not yet given out, so that an application, which
  sets the time of a new domain, does not touch the kept one's;
* `UsesItsToken`: from `server.Token = quickData.Token` on, also while WARP starts,
  the two agree.

For the identity, `WarpInv` says what each label of `Warp.Run` knows of file and
memory; that a registration begins only when there is no file is what makes
the file's identity the one that serves.

`EdgeTunnelProofs` proves, for every number of connections up to 256, every finite
set of ports and any three lists of addresses, `TypeCorrect`, `SocketsAreAccounted` and
`EdgesAreDistinct`. `SocketInv` says at which labels `Serve` has a socket, that it owns
it, and that everything else it owns was left by a failed `OpenStream`. `AddressInv`
gives each index one place its address came from (itself, for a computed address, one
of the preferred ones already gone, or the index's own place in the DNS results), and
no two indexes the same. An address may be at several places; the connections that use
it map into them one to one, so they are no more than the places (`FS_Injection`, with
`PlacesFinite`). Nothing is assumed of the lists but that they are lists.

`TunTunnelProofs` proves, for every finite set of connections, `TypeCorrect`,
`RequestsCompletedOnce`, `HandlersRelease` and `LoopsEndBeforeStop`. `PacketInv` says
that a packet which starts a connection is with the loop that read it or with its
handler, and that a UDP handler occupies the loop: therefore the loop does not
come back to life after it has ended, and no request is started twice.
`CompleteInv` is the exact count of completions, `HandlerInv` what is open at each
label of a handler. `LoopsInv` says that the loops begin with the first attachment and
that from then on `wg` is the number of those that have not ended, whatever `Attach` is
called with later; `stop` waits for `wg` to be zero, so both have ended.

It then proves, about the relay that copies such a connection and for all sizes of
buffers, messages and streams, `RelayTypeCorrect` and `StreamsArriveIntact`. The invariant
says where the stream is. Downstream, what the application has got, what is held,
what is left in `readBuf` and what the messages under way carry follow each other
without a gap up to `nsent`, as long as the goroutine copies; once it has given up,
what it held may be lost and only what has arrived matters. Upstream the same holds of
`gotUp`, the messages under way and `upHeld`, if `FitsServer`: every message is at most
as long as the relay's buffer, and the header, if there is one, leaves room for that, so
the server's read takes all of it. `Carries` says
what a sequence of messages carries; `CarriesMore` and `CarriesLess` what a send
and a receive do to it, `Split` what a read with a short buffer does to a message.

`SlicesFit` is `AllocatorFits` for the 17 pools of `allocator.go:21` and every MTU. The
number of pools is a hypothesis because the provers know powers of two only as
numbers: a table of them gives that each is twice the one before, and from there on
the argument is by the least exponent with a property (`Least`, from the
well-foundedness of the naturals): it exists, so each size has a most
significant bit (`MsbExists`), and one only (`MsbIs`).

`UdpBuffersProofs` proves, for every set of addresses, connectors, workers and
buffers and every capacity, `TypeCorrect`, `BuffersExclusive` and `DatagramsOnce`. That no
buffer has two users says nothing about where it goes next, so the invariant
accounts for each one:
* `OwnerInv`: there are functions that give every buffer its one place (the pool, the
  listener, a creator, a queue, a writer, a reader, a worker), and every variable that
  refers to a buffer agrees with them; each action moves one buffer;
* `ConnInv`: at which labels the goroutines of a connector have a buffer, and that
  `udpConns` leads to connectors of that address;
* `QueueInv`: a queue holds a buffer once;
* `ContentInv`: a buffer that is somewhere between a read and a write holds a datagram
  of the session it is with;
* `NumberInv`, `UpInv`, `DownInv`: the datagrams in buffers have numbers that were given
  out and are all different, and what has been delivered is none of them.

A delivery then takes a number that nobody else holds and has not been delivered.
The assumptions are that addresses and connectors are different things and that
`None` is neither these nor a buffer, a datagram or an item of a queue.

`TunSessionProofs` proves, for every set of destinations (four or sixteen bytes, any
port) and of payloads that are not empty, `TypeCorrect`, `ServerDialsDestination` and
`PayloadArrivesIntact`, for every size of the server's buffer from 22 bytes on. They rest
on `DecodeInvertsHeader`: for every destination and payload the server's `Decode` finds
in the client's first message the address, the port and the payload, and refuses it
exactly when the payload is shorter than two bytes; and on `ReadCutsPayload`: a first
message that the buffer cuts decodes to the same destination and to as much of the
payload as the header has left room for. In the invariant, `WireInv` says that what is
under way follows what the server has taken without a gap, `GotInv` that what has
arrived is what was written, up to that cut, and
`TargetInv` that what the server has been told and has dialled is the session's
destination; `PhaseInv` makes client and server agree on whether the first message has
a header, `IdleInv` says what there is before a session, `RefusedInv` why one was
refused.

The assumptions are the named `ASSUME`s of the modules, which TLC evaluates.

Only model-checked: the liveness properties (`~>`, under fairness, which the prover
does not have) and the two violated runs. `AllocatorFits` is proved for the code's number
of pools only; the run checks it with three.

## 5. Not modelled

* Keys and TLS, dialer options, routes, options of the network stack: calls of
  libraries and of the system, without state in this repository.
* WireGuard, the userspace stack behind WARP, gVisor, QUIC, the websocket and RPC
  libraries: external; modelled as the code uses them.
* The capnp encoding of requests and registrations, tokens and configuration files:
  abstracted to their outcome (accepted or refused).
* The client's configuration: defaults and strings, no state after the start.
* The log's observable: `log/log.go` builds it and keeps no reference that anybody
  could subscribe through, so its code is not reached.
* `SetDialer`, `SetUDPTimeout` and `Close` of the tunnel, and the type `Conn` of
  `argo/connection.go`: no caller.
* More than 256 connections, whose indexes `server/cfd/tunnel.go:85` cuts to a byte
  (`HaConnAssumption`).
* A QUIC connection's sessions are independent and modelled one at a time.

## 6. Plan

The invariants that the runs check are proved, and both refinements. What could
follow are action properties of the data paths (what has been delivered is never taken
back, a number is never given out twice) and, from the invariants there are,
refinements of the UDP data path and of the relay to lossy channels per session.
