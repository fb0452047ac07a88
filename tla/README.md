# A verification model of shadowsocks-rust

TLA+ modules that model the concurrent parts of shadowsocks-rust, the TLC
instances that check them, and TLAPS proofs of the most important safety
properties for every value of the constants. Paths below are relative to the
repository.

## The system

A *local* server (`src/relay/local.rs`: SOCKS5, HTTP, tunnel, redir) accepts
clients, picks a remote server and relays TCP streams and UDP datagrams to it,
encrypted. A *remote* server (`src/relay/server.rs`) decrypts and relays to the
target. A *manager* (`src/relay/manager.rs`) starts and stops remote servers on
request. Everything is tokio tasks in one runtime that talk through channels,
oneshot watchers (dropping the sender tells a task to end), mutexes, barriers
and sockets.

| part | state | operations | what makes it hard |
|---|---|---|---|
| UDP server `relay/udprelay/server.rs` | association map with expiry, one queue and two tasks per association, response channel, two halves of the listening socket | receive, associate, send, relay both ways, reply, expire, stop | handles cloned out of a map that evicts, full queues, ends by dropped channels |
| manager `relay/manager.rs`, `relay/server.rs` | table of instances, their tasks and sockets | boot, add, remove, bind, quit, fail | old and new tasks race for a port |
| replay filter `context.rs` | two bloom filters, counts, which is in use | check and set | switching filters, false positives |
| AEAD stream `relay/tcprelay/{aead,crypto_io}.rs` | packet being written, seal being read, salt | write, read, shutdown | partial reads and writes, cuts, damaged bytes, replays |
| load balancer `relay/loadbalancing/server.rs` | recent results and statistics, best index, tasks, barriers | probe, score, choose, pick, report | scan while results change, startup barriers, end |
| UDP local `relay/udprelay/association.rs` and its three listeners | association map, a proxied and a bypassed socket per association, queues, response channel | as the UDP server, and the choice of a socket per packet or flow | as the UDP server; the lock is kept while the loop waits for a queue |
| datagrams `relay/udprelay/crypto_io.rs` | the replay filter | encrypt, decrypt | one filter for both directions |
| TCP relay `relay/tcprelay/{server,proxy_stream,connection}.rs` | sockets, two copies, a timer, retries | accept, connect, copy, time out, close | one direction ends while the other runs, one timer for reads and writes |
| SOCKS5, HTTP, tunnel, redir `relay/tcprelay/*_local.rs`, `relay/socks5.rs` | handshake bytes, headers, kept connections | read, write, rewrite, upgrade | bytes cut anywhere, headers that name headers, requests that share a connection |
| ACL, context, DNS `acl/mod.rs`, `context.rs`, `relay/dnsrelay`, `relay/dns_resolver` | rules, reverse lookup cache and its spin lock | ask, resolve, record, reply | a lock across an await, answers that depend on earlier queries |
| plugins, runners `plugin/mod.rs`, `relay/{local,server}.rs` | the plugin's process, which relays run | launch, wait, stop | processes that end, or never start |

## Modules

| module | models | checked by |
|---|---|---|
| `NonceFilter` | `PingPongBloom`, `check_nonce_and_set` | `MCDatagrams`, `DatagramsProofs` |
| `ReplayWindow` | abstract: what a replay filter promises | refined by `NonceFilter` |
| `Datagrams` | `udprelay/crypto_io.rs`, `udprelay/client.rs` over `NonceFilter` | `MCDatagrams`, `DatagramsProofs` |
| `UdpServer` | `udprelay/server.rs` | `MCUdpServer`, `UdpServerProofs` |
| `UdpPort` | abstract: what a UDP relay does to its port | refined by `UdpServer` and `UdpLocal` |
| `UdpLocal` | `udprelay/association.rs` and the SOCKS5, tunnel and redir listeners | `MCUdpLocal`, `UdpLocalProofs` |
| `Manager` | `manager.rs`, `server.rs` and the binds | `MCManager`, `ManagerProofs` |
| `AeadStream` | `aead.rs`, `crypto_io.rs` (TCP) | `MCAeadStream`, `AeadStreamProofs` |
| `Score`, `ServerStatistic` | `ServerStatisticData` | `MCServerStatistic` |
| `Balancer` | `PingBalancer`, `BestServer` and its users | `MCBalancer`, `BalancerProofs` |
| `Seqs` | folds and prefixes of sequences, used by `Acl` and `Score` | |
| `Acl` | `acl/mod.rs` as operators | `MCLocalServer`, `LocalServerProofs` |
| `Socks5` | the codec of `relay/socks5.rs` as operators on bytes | `MCLocalServer`, `Socks5Proofs` |
| `Context` (uses `Acl`) | `Context::check_target_bypassed`, the reverse lookup cache and its lock | `MCLocalServer`, `LocalServerProofs` |
| `LocalRun` | `relay/local.rs`, `relay/server.rs`, `plugin/mod.rs` | `MCLocalServer` |
| `TcpTunnel` (uses `Socks5`, `Context`, `LocalRun`) | one TCP connection from a client to a target | `MCLocalServer` |
| `HttpLocal` (uses `TcpTunnel`) | `tcprelay/http_local.rs` | `MCLocalServer` |
| `DnsRelay` (uses `Context`, `LocalRun`) | `relay/dnsrelay/mod.rs` | `MCLocalServer`, `LocalServerProofs` |
| `LocalServer` | all of these together | `MCLocalServer`, `LocalServerProofs` |

**NonceFilter.** A bloom filter is the set of its bits and `Hash[n]` the bits of
a nonce, so false positives are those of the data structure. One action accepts,
one refuses; the lock makes `check_and_set` atomic. The histories `accepted` and
`at` only serve the properties.

**Datagrams** adds to the filter who asks it: `SendTo` draws nonces until the
filter has not seen one (`encrypt_payload`), `RecvFrom` takes a packet that is too
short, has a nonce that is refused, does not open, or is opened
(`decrypt_payload`). A packet that does not open still uses an entry, and so does one
that cannot be sent (the server's name does not resolve, the send fails) or whose
contents do not start with an address: `sent` and `delivered` are `NoNonce` then. The
history `later` counts, for each nonce, the datagrams that passed the filter after it.

**UdpServer.** One process per task of the code: `Listener*` is the receive loop
of `listen`, `L2r*` and `R2l*` are the two tasks of an association, `Resp*` is the
response task. A step ends where the code awaits: taking the lock, a full channel,
a socket. `cache` maps a client to its association and may mark it expired at any
time (`Expire`); who looks at the map drops what expired (`Fresh`), as
lru_time_cache does. `Held` says whether somebody still has a handle: the map, or
the loop between cloning it (line 387) and sending (line 390). Dropping the last
handle closes the queue and cancels the task local <- remote. Packets are their
numbers in the order of arrival.

**UdpPort** is that relay seen from its port: a socket in two halves, the listening
loop's and the response task's, which is closed when both are dropped. The response
task drops its half when the loop and every association are gone (`Release`), or
while it sends a reply and cannot (`Break`); a reply is taken up only for an
association that is alive (`Reply`).

**Manager.** Commands are served one after the other; the task of instance `i` is
`BindTcp`, `BindUdp`, then `Quit` or `Fail`. The first poll runs the server up to
its sockets before the watcher is looked at (`select` polls the server first), so
there is no `Quit` earlier. A TCP bind failure panics, a UDP one returns an error;
either way the futures of `run_with` are dropped together. The UDP relay of an
instance is what `UdpPort` says of it, to which `UdpServer` is shown to keep:
`UdpAssociate`, `UdpIdle`, `UdpReply`, `UdpSent`, `UdpBreak` and `UdpRelease`.

**AeadStream.** A byte in flight is the pair (seal number, position), a seal opens
exactly if it is the next one, complete and unchanged. `PipeWrite(n)` and
`PipeRead(n)` take every possible number of bytes. `Garble` changes a byte,
`WriterDies` cuts the stream anywhere.

**Score, ServerStatistic, Balancer.** Scores are computed as the code does, with
exact fractions where it uses floating point (latency_mean is only printed and is
left out). `Balancer` has one process per probing task, one for the choosing task
and one for `PingBalancer::new`; the scan reads one score per step. A connection
is given `best_idx` when it is accepted and reports a failure or not by protocol
and route. All outcomes of `ProxyStream::connect`, its retries included, are one
step. Nothing bounds the number of probes: the queue does.

**UdpLocal.** The same processes as in `UdpServer`, for three frontends that share
`association.rs` (variable `front`: SOCKS5 and tunnel differ in where a packet's target
comes from and are one, "client"). They keep the map's lock until the queue took the packet
(`LockFree`). An association is one of three kinds: with the ACL asked per packet and
two sockets (`associate_with_acl`: SOCKS5 and tunnel), or proxied or bypassed for
good (redir, which keys its map by client and target and asks the ACL before it
looks). Each socket has a task local <- remote, cancelled when the map drops the
association. What arrives on either socket, from a remote or from anybody else, is
decrypted (`Decrypted`, `DecryptedStray`). `timer` is the timeout of the loop's
`recv_from`: a packet restarts it, one that is ignored (`ListenerIgnore`) too.

**Acl** reads a file line by line (`LoadLine`), with the section that lines go to; a
network or a pattern is the set it matches. `Decided` says whether a question needs
no DNS answer, `target_bypassed` answers it given one.

**Socks5** has a `write_` and a `read_` operator per message. A reader takes the bytes
that have arrived and yields a value with the number of bytes used, a refusal with
its reply code, or `Wait`, as `read_exact` does.

**Context, DnsRelay.** A task (a connection or the DNS relay) asks in steps that end
at the spin lock and at DNS answers. While a task holds the lock across such an
answer, tasks that want it keep a worker thread busy; a woken task needs a free one
(`FreeWorker`, with the workers of the configuration: one is the single-threaded
build). A full cache gives up an entry for a new one (`Evicted`: any, where the code
drops the one used least recently). The DNS relay serves query after query: both
lookups, the choice by the ACL, recording the addresses of the answers, the reply
with the answers and the additionals. Records other than A and AAAA are `NoIp`: they
count when the relay chooses and are not recorded. `recorded`, what was ever entered,
and `seen`, the names that the cache had for an address from the moment a task asked
until it looked, are histories for the properties.

**LocalRun.** Both programs launch their plugins; the local one waits for its own.
A plugin that exits, or a relay that ends, stops its program.

**TcpTunnel.** Three connections, `client`, `proxy` and `remote` (of the server, or of
the local server when it connects directly), each with bytes under way in both
directions, an end of stream per direction and two open ends. Closing an end with
unread bytes may drop what it had sent (a reset). `local` and `server` are the tasks
of the two programs, `local.timer` and `server.timer` the timers of their
`Connection`s. `Socks5Relay`, `TunnelRelay`, `RedirRelay` and `ConnectRelay` are
one poll of the two copies of their frontend. A peer may be in a hurry and send
before it is answered.

**HttpLocal.** hyper parses and frames messages, so a request is one symbol on the
client's connection and a record in the configuration. A connection serves request
after request: address (URI, or Host header), ACL, rewritten headers, a kept or new
connection by route and address, the response with rewritten headers. `exchanges`
records what was sent and got.

## Runs

| run | cfg | shows | properties |
|---|---|---|---|
| datagrams | `MCDatagrams` | nonces used and delivered once, through filter switches; refinement of `ReplayWindow` | `RingInv`, `WindowSpec`, `FreshNonceUsed`, `OnlyDatagramsCounted` |
| udp_server | `MCUdpServer` | associations serve, order is kept, nobody is stuck, an idle port is released; refinement of `UdpPort` | `HeldAssociationServes`, `RelayedInOrder`, `MappingStable`, `PortSpec`, `NobodyStuck`, `IdlePortReleased` |
| udp_local | `MCUdpLocal` | no packet for an association that ended, a redir flow keeps its route, nobody is stuck, what expires goes unless ignored packets never cease, with three frontends; refinement of `UdpPort` | `SendNeverClosed`, `FlowKeepsRoute`, `PortSpec`, `NobodyStuck`, `ExpiredEvicted` |
| udp_local_bypass | `MCUdpLocalBypass` | *violated*: replies of bypassed targets are decrypted, and delivered as other bytes | `DirectReplyUnmodified` |
| local_server | `MCLocalServer` | right target, exact streams, ACL, HTTP headers and keep-alive, DNS records before replies; asks and queries are answered, every connection ends, also with a plugin or a program | `RightTarget`, `StreamsExact`, `BlockedNeverReached`, `AclHonoured`, `EndToEndHeaders`, `ConnectionAgreed`, `RecordedBeforeReply`, `AskAnswered`, `EverybodyLeaves`, `IdleCloses` |
| udp_server_stop | `MCUdpServerStop` | *violated*: a stopped server with associations may keep its port | `PortReleased` |
| manager | `MCManager` | all sockets or none; removed servers stop, an add on a free port runs | `AllOrNothing`, `RemovedServerStops`, `FreshAddRuns` |
| manager_add | `MCManagerAdd` | *violated*: an add that replaces a server may leave none | `AddedServerRuns` |
| aead_stream | `MCAeadStream` | prefix delivery, clean end means complete, replay refused, delivery, end of stream noticed | `DeliveredInOrder`, `EofIsComplete`, `ReplayRefused`, `WrittenIsDelivered`, `EndIsNoticed` |
| server_statistic | `MCServerStatistic` | statistics against a reference; dead servers score worse | `StatisticsAreRecent`, `DeadLooksWorse` |
| balancer | `MCBalancer` | the choice is the best one, no pick before the first choice; startup, failover | `ChoiceIsBest`, `NoBlindPick`, `Created`, `FailsOver` |
| balancer_report | `MCBalancerReport` | *violated*: direct failures charged to a server | `DirectFailureNotCharged` |

The violated runs state what a comment or the manual says; `PROJECT.json` quotes
the lines under "findings". Every property of a passing run has a mutant, an
operator next to the definition it replaces that has a plausible bug, under which
TLC finds the property violated.

What some of them say, and what they do not:

* `PortSpec`: the response task, and with it the port, goes only after the last
  association, unless a send failed.
* `OnlyDatagramsCounted`: a datagram's nonce is refused until `item_count` others
  passed the filter, so packets too short to be a datagram push none out.
* `AclHonoured` is stated with the lists, the mode and what names resolve to
  (`MayBypass`, `MayProxy`), not with the code's order of questions: a direct
  connection needs a reason to bypass the target or a name the cache had for it; a
  proxied one a reason to proxy the target, and, if the cache had names all the while,
  one of them. Which mode bypasses by default is taken from the code (WhiteList,
  `acl/mod.rs:302`); the manual's names are the other way round (`README.md:325`).
* `ConnectionAgreed` compares what the proxy says with what it hears. A Connection
  header that lists close next to something else is not heard as close
  (`http_local.rs:246`): `SaysKeep` says so, and the run has such a request.
* `RecordedBeforeReply` is about the answers of a reply; the relay passes additionals
  on without recording them. An entry may be evicted later.
* `AskAnswered`: the only way for a question to stay open while the program runs is
  that every worker spins on the lock and its holder needs one (`Starved`). It happens
  with one worker.
* `ExpiredEvicted`: an expired entry goes, provided that the packets that the loop
  ignores, each of which restarts its timer, cease at some time.
* `ChoiceIsBest` speaks of scans during which no result came in, `StatisticsAreRecent`
  of queues with a latency in them. `IdleCloses` holds on the server side because the
  local side's end arrives there: the server's own timer may be lost.

### Bounds

* `MCDatagrams`: filters of two entries (five configured, halved), six nonces with
  colliding hashes, and enough accepted nonces for several switches.
* `MCUdpServer`: channels of capacity 1 (the code has 1024), so that full queues
  happen with two packets; two clients and two associations, so that a client's
  association is replaced or two compete for the response task; two packets and
  three replies, so that one can be in the response task, one in its full queue and one
  waiting for it.
* `MCUdpLocal`: one client with two targets (two redir flows), capacity 1, two
  associations, two packets and a reply. A stray packet is enough to make the
  response task want the lock while the loop waits at a full queue with it. The
  violation run has one packet.
* `MCLocalServer`: twenty-one configurations, each a frontend with an ACL, what the
  client asks for and what both peers send (up to two bytes up and one down), among
  them every kind of address, refusal and command, DNS queries in parallel with a
  connection, plugins on both sides, and sequences of three HTTP requests on one
  connection. Bytes arrive up to five at a time, so handshakes are cut; two
  attempts to reach a plugin (ten in the code), the code's three retries. Two workers
  serve the two tasks that ask the ACL, one worker in one configuration. The cache has
  one entry (8192 in the code), so that the second address of a response evicts the
  first.
* `MCManager`: two ports, three instances and one failure: two generations on a
  port next to a server on the other one. One server comes from the configuration.
* `MCAeadStream`: salt and length of two bytes, a tag of one, payloads up to two,
  writes of up to three bytes (one more than a packet takes), three packets, a
  pipe smaller than a packet, one damaged byte.
* `MCServerStatistic`: queues of three results (odd and even, 99 in the code), four
  latencies, one of them above MAX_SERVER_RTT as a timeout noticed late is.
* `MCBalancer`: two servers with queues of two results, an answer or a failure each;
  one connection at a time.

Deadlock checking is off where a behaviour really ends: bounded packets or
instances are used up, or every task has exited.

### Fairness

The runtime polls every task that was woken, so each task's steps are weakly fair,
separately; timers fire, so a probe's end is too, and in `UdpLocal` the loop's timer
runs out (`ListenerWaits`) and is noticed (`ListenerTimeout`) unless packets restart
it. Nothing is assumed of clients, remotes or commands: packets may stop coming, or
never cease, servers may fail for ever. The UDP server's `ListenerTimeout` is not fair:
no property needs it. In `Manager` sending a reply returns and the response task of an
idle relay ends (`ResponseStep`), as `IdlePortReleased` of `UdpServer` shows. Expiry may
happen at any time, which covers every configured timeout.

In `LocalServer` the tasks of both programs (those of the local server where a worker
is free, `Scheduled`), the network, DNS lookups (which have a
timeout) and the startup of the programs are weakly fair. Peers read what arrives and
leave when the other side has ended (`PeerStep`); whether they connect, write, finish
or leave early is theirs (`PeerChoice`). `IdleCloses` is about a configuration with
a timeout; without one the code arms no timer.

## Proofs

All proofs are by induction over the steps of the specification and hold for any
constants that satisfy the ASSUMEs of the modules (bounds included, so also
without them being small).

* `DatagramsProofs`. `RingInv` says that the filter in use holds the last
  `bloom_count[current]` accepted nonces and the other one the `item_count` before
  them. It is needed because what is refused after a switch depends on what was
  recorded before it. `RecentRefused`, `ExactContents`, `MemoryBounds` and the
  refinement of `ReplayWindow` follow. A step of `Datagrams` is a step of
  `NonceFilter` or leaves the filter alone, so these theorems carry over; a nonce that
  is used or delivered was accepted in that step, and by `RecentRefused` not among the
  last before it. `LaterInv` bounds the nonces accepted after a nonce by the datagrams
  that passed after it; `OnlyDatagramsCounted` follows by `RecentRefused`.
* `UdpServerProofs`. `ServerInv` relates handles and tasks: an association that
  is in the map or in the loop's hands has its tasks, packets in its queue are
  newer than the one relayed last and in order, numbers are given once. `Expire`,
  the response task and the end of the loop only drop handles (`DropHandles`).
  `HeldAssociationServes`, `SendNeverClosed`, `RelayedInOrder`, `MappingStable`
  and the refinement of `UdpPort` follow.
* `UdpLocalProofs`. `LocalInv` does the same for the local relay and its three
  frontends: an association in the map has all its tasks, none is in the map twice,
  and the kind of an association fixes the sockets its packets may take. The map's
  lock matters here: the loop keeps it until the queue has the packet, so nothing
  is evicted meanwhile and `SendNeverClosed` holds without a handle of its own.
* `ManagerProofs`. `ManagerInv` adds to the three safety properties that instances
  are numbered in the order they were started and that the program counter of a
  task determines what it holds.
* `AeadStreamProofs`. `StreamInv` lays the stream out: every seal starts where the one
  before ends (`Layout`), and what the reader has collected, the pipe and the unwritten
  rest of the packet are together the bytes from the reader's place to the end
  (`Positions`, `InFlight`). Prefix delivery is not inductive without it, because a seal
  is taken by its length alone. `ControlInv` ties the program counters to the parity of
  the seals (a length, then its data), `PlainInv` says that the bytes handed out and
  those opened and not yet handed out are the application's in order, `GarbleInv` and
  `SaltInv` where damaged bytes and replayed salts can be, `EofInv` that at a clean end
  nothing is left.
* `BalancerProofs`. `StartInv` orders the startup (probes, first barrier, first choice,
  second barrier, `PingBalancer::new` returns), `ScanInv` says that unless something
  changed since the scan began, the best index so far is the first with the lowest
  score of the servers already scanned. `BestIsChosen` has the hypothesis `[]Scored`:
  every score is a natural number, `score()` returning a u64. Scores are folds over
  sequences, so this is not proved; TLC checks it as a part of `StatisticsAreRecent`.
* `LocalServerProofs`. Three invariants, each next to what it is for. `BlockInv`: what
  the server is about to connect to has passed `check_outbound_blocked`, and where it
  is connected the resolved address has too. `CacheInv`: while the DNS relay records, the
  answers before its position were entered, the one at its position was or waits for
  the lock, and no connection records. What was entered may have been evicted, so the
  invariant speaks of the history `recorded`. `RouteInv`: a question under way and its
  answer agree with the ACL and with the names seen, at whichever step it is: at the lock
  what the cache has is seen, before the rules the name is a reason to proxy or there
  was none, and so on; when the relay changes the cache under a task that waits for the
  lock, the task has seen the new name. `VerdictFacts` says that whatever
  `check_target_bypassed` answers, the lists, the mode and some resolution of the name
  are a reason for it; it rests on `FirstMatchFacts`, the first resolved address that a
  list has being the least element of a set of positions (`FirstExists`).
* `Socks5Proofs`. The encoding is one of a head, a host and a port (`Written`), and a
  stream that begins with them has them at these places (`Lies`). From this, for every
  address, every continuation and every cut of the stream: reading inverts writing,
  takes nothing of what follows, and waits for as long as a byte is missing.

| theorem | module | states |
|---|---|---|
| `RingInvariant` | `DatagramsProofs` | `RingInv`: The ring invariant holds in every state, for every hash function, set of nonces and size. |
| `RecentlyAcceptedRefused` | `DatagramsProofs` | `RecentRefused`: A nonce among the item_count accepted last is refused. |
| `ContentsAreExact` | `DatagramsProofs` | `ExactContents`: The filters hold exactly the nonces they should. |
| `MemoryIsBounded` | `DatagramsProofs` | `MemoryBounds`: The filter remembers between item_count and twice as many nonces. |
| `ImplementsWindow` | `DatagramsProofs` | `WindowSpec`: The pair of filters implements the abstract replay window. |
| `DatagramsUseFilter` | `DatagramsProofs` | Every behaviour of the datagrams is one of the replay filter, so its theorems hold for them. |
| `NoncesAreFresh` | `DatagramsProofs` | `FreshNonceUsed`: No nonce among the item_count accepted last is used for a datagram or delivered with one. |
| `FilterCountsDatagrams` | `DatagramsProofs` | `OnlyDatagramsCounted`: The nonce of a datagram is refused until item_count further datagrams passed the filter, however many packets too short to be one arrive in between, sends and deliveries that fail included. |
| `ServerInvariant` | `UdpServerProofs` | The inductive invariant of the UDP server, for any number of clients, packets and associations and any capacity. |
| `HeldServes` | `UdpServerProofs` | `HeldAssociationServes`: An association that can be reached has both of its tasks. |
| `SendReachesQueue` | `UdpServerProofs` | `SendNeverClosed`: The unreachable! of send is unreachable. |
| `OrderIsKept` | `UdpServerProofs` | `RelayedInOrder`: An association relays in order, at most once, and drains its queue. |
| `MappingIsStable` | `UdpServerProofs` | `MappingStable`: A client keeps its association until it expires or the map is freed. |
| `ImplementsPort` | `UdpServerProofs` | `PortSpec`: The UDP server does to its port what UdpPort says: the response task gives up its half only after the loop and the last association are gone, or when a send failed. |
| `LocalInvariant` | `UdpLocalProofs` | The inductive invariant of the local UDP relay, for the three frontends and any number of clients, packets and associations and any capacity. |
| `SendMeetsOpenQueue` | `UdpLocalProofs` | `SendNeverClosed`: The loop never sends into the queue of an association that ended. |
| `RedirKeepsRoute` | `UdpLocalProofs` | `FlowKeepsRoute`: All packets of a redirected flow go through the one socket its association was made with, whatever the ACL answers later. |
| `HeldServes` | `UdpLocalProofs` | An association in the map has all of its tasks. |
| `AssociationsAreOwn` | `UdpLocalProofs` | No two clients, or flows, share an association. |
| `KeysKeepAssociation` | `UdpLocalProofs` | A client or flow keeps its association until it expires or the map is freed. |
| `ImplementsPort` | `UdpLocalProofs` | `PortSpec`: The local UDP relay does to its port what UdpPort says, with and without a response task. |
| `ManagerInvariant` | `ManagerProofs` | The inductive invariant of the manager and its servers. |
| `ServersAllOrNothing` | `ManagerProofs` | `AllOrNothing`: A server has all of its sockets or none. |
| `PortsAreExclusive` | `ManagerProofs` | `ExclusivePorts`: No two instances share a port. |
| `NewestIsListed` | `ManagerProofs` | `TableHasNewest`: The table has the instance started last on a port. |
| `StreamInvariant` | `AeadStreamProofs` | The inductive invariant of both ends of an encrypted stream: what is under way is what was written, from the reader's position to the writer's. |
| `ReaderDeliversInOrder` | `AeadStreamProofs` | `DeliveredInOrder`: What is read is a prefix of what was written, for all sizes of packets, tags and pipes and every cut and damage. |
| `EofMissesNothing` | `AeadStreamProofs` | `EofIsComplete`: A clean end of file is reported only when everything written was read. |
| `ReplayIsRefused` | `AeadStreamProofs` | `ReplayRefused`: Nothing is delivered from a stream whose salt was seen before. |
| `BalancerInvariant` | `BalancerProofs` | The startup of the balancer in order, and queues that never outgrow MAX_LATENCY_QUEUE_SIZE, for any number of servers. |
| `PicksAreInformed` | `BalancerProofs` | `NoBlindPick`: No connection is given a server before every server was probed and a choice was made. |
| `BestIsChosen` | `BalancerProofs` | `ChoiceIsBest`: If nothing changed since the scan began, the chosen server is the first with the lowest score, for any scores that are natural numbers. |
| `BlockedIsNotReached` | `LocalServerProofs` | `BlockedNeverReached`: The server has no connection to an address that its outbound_block_list contains, for any list and any DNS answers. |
| `CacheInvariant` | `LocalServerProofs` | The inductive invariant of the DNS relay and the reverse lookup cache, for a cache of any capacity: the answers before the relay's position were entered, the one at its position was or waits for the lock, and no connection enters any. |
| `RepliesAreRecorded` | `LocalServerProofs` | `RecordedBeforeReply`: When a DNS reply is sent, every address among its answers was entered into the reverse lookup cache under the name asked for, for any responses, additionals included, and any capacity. |
| `RoutesAsAclSays` | `LocalServerProofs` | `AclHonoured`: Every connection is routed as rules and mode of the ACL allow for its target and for the names the cache had for it while it asked, for any ACL, DNS answers and capacity of the cache and whatever the DNS relay records meanwhile. |
| `AddressRoundTrip` | `Socks5Proofs` | Address::read_from gives back every address that write_address wrote and leaves all bytes behind it. |
| `PartOfAddressWaits` | `Socks5Proofs` | No proper beginning of an encoded address is refused or taken for an address: the reader waits. |
| `RequestRoundTrip` | `Socks5Proofs` | TcpRequestHeader::read_from gives back the command and the address that write_to wrote and leaves the rest. |
| `ResponseRoundTrip` | `Socks5Proofs` | TcpResponseHeader::read_from gives back the reply and the address that write_to wrote and leaves the rest. |

`RecentRefused`, `ExactContents`, `MemoryBounds`, `SendNeverClosed` (of `UdpServer`),
`ExclusivePorts`, `TableHasNewest`, what `HeldServes`, `AssociationsAreOwn` and
`KeysKeepAssociation` say of `UdpLocal`, the codec's theorems and the type invariants of
these modules are proved and have no run of their own.

The assumptions are those on the constants: sizes and bounds are positive
(`FilterAssumption`, `AeadAssumption` and the like), and three that say what the
configurations and responses are. `ContextAssumption`: a name resolves to a sequence of
addresses. `ResponsesAssumption`: the answers of a response are a sequence of records.
`ConfigAssumption`: a configuration has at most one ACL, with one of the two modes.

Model-checked only:

* all liveness properties: fairness and ENABLED are out of the prover's reach;
* `StatisticsAreRecent` and `DeadLooksWorse`: sums and medians over sequences need
  induction over data, and so does how an ACL file is read (`LoadLine`);
* `EndToEndHeaders` and `ConnectionAgreed`: headers are filtered and collected with
  `SelectSeq` and folds, for which the same holds;
* `RightTarget` and `StreamsExact`: they need an invariant on what is under way
  in each of the three connections for each frontend and route, HTTP included, of the
  kind that `StreamInv` is for one stream. `Socks5Proofs` has the facts about the
  handshakes it would rest on.

## What the models leave out

Of the modelled parts:

* The kernel's socket buffers never fill in `TcpTunnel`, so a copy never waits to
  write; `AeadStream` has a pipe that does. The encryption of the stream between the
  two programs is `AeadStream`'s, and `TcpTunnel` carries the plain bytes.
* The load balancer's choice is `Balancer`'s; `TcpTunnel` has one server.
* `AclHonoured` and `RecordedBeforeReply` are about the names the DNS relay records,
  which end with a dot; patterns are matched against that form, as in the code.
* A client may take as long as it likes over a SOCKS5 handshake: the code has no
  timeout there, and no property says otherwise.
* hyper's parsing, framing, message bodies and its own decision to close a
  connection are external; a client waits for a response before its next request.
* Plugins are processes that start to listen and end at any time. The port they are
  given is theirs, and the mode they are started with makes no difference.
* Known limits the code documents, or says nothing of, have no property: the UDP
  response task ends when a send fails while the loop goes on (`RespBreak`), nothing
  bounds the number of associations, tasks of accepted TCP clients outlive a server
  the manager removed, and the table keeps an instance whose task ended.
* A balancer that is dropped while it is created leaves tasks at a barrier; the
  program exits right afterwards (`bin/local.rs`).

Not modelled at all: the ciphers and key derivation (numeric code around libraries,
used by what they promise), the stream-cipher TCP stream (no framing, so no state
to get wrong), flow counters and the reports made of them, parsing of configuration
files and URLs (text without state), platform calls, and the command lines of the
programs. The components in `PROJECT.json` list every part with what is left out
of it.
