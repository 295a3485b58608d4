# A TLA+ verification of LinkMan

LinkMan is an asyncio VPN/proxy in Python: a client that listens for SOCKS5 on
localhost, a server that connects to targets, and between them an encrypted
tunnel per connection.  This directory holds TLA+ specifications of its core,
the TLC configurations that check them on small instances, and TLAPS proofs of
what holds for every instance.  All definitions are translated from the sources
under `src/src/linkman`; `PROJECT.json` has the lines each one stands for.

    tlc -config Tunnel_tcp.cfg MCTunnel.tla
    tlc -config Components.cfg MCComponents.tla
    tlapm PacketStream_proofs.tla

## 1. The system

| Component | State | Operations | Hard because | Correct means |
|---|---|---|---|---|
| AEAD packet layer, `shared/crypto/aead.py` | two nonce counters per cipher | `encrypt_packet`, `decrypt_packet` | both sides count separately; a read may end anywhere | packets come out in order or not at all; nothing is lost silently |
| Client tunnel, `client/core/protocol.py` | cipher, adapter, flags, buffer size | `connect` with retries, `relay`, `close` | two relay tasks, one cancels the other; waits for an application that does not read | relays only what was granted; ends when the server does, if the application reads |
| Server tunnel, `server/core/protocol.py` | the same, and a target connection | `handle`, `_relay`, `close` | timeouts, errors at every stage, cancelled tasks; drains and closes that wait for a peer without a timeout | one reply, before any data; ends when the client does, if the target reads |
| Connection handler, `server/core/handler.py` | set of active connections | `handle_connection`, `check_access`, `on_data_transfer` | many connections share limit, quota and statistics | exact slots; traffic counted once |
| Connection pool, `shared/utils/connection_pool.py` | list, in-use map, lock, two loops | get, return, health check, cleanup, start, stop | a lock over awaits, cancellation, stop under use | one borrower each, bounded, no leaked slot |
| Traffic manager, `server/manager/traffic.py` | client and global totals, warnings | record, quota, warnings, monthly reset | callbacks are awaited between test and flag | counts once; warns once per month |
| Session manager, `server/core/session.py` | sessions, index by client address | create, update, end, expiry | two tables that must agree | the index lists exactly the sessions there are |
| Device manager, `server/manager/device.py` | devices, connection counts | register, unregister, connect, disconnect, idle | counts survive the device | bounded; status follows the counts |
| Access rules, `server/manager/auth.py` | lists of networks and rules | `check_access` | order of rules | first match decides |
| Secure key manager, `shared/crypto/secure_keys.py` | keys, active key per usage, history, a file | generate, get, rotate, revoke, cleanup, load | expiry and restarts between calls | the active key exists and is usable |
| Health checker, `shared/utils/health_check.py` | servers, check tasks | add, remove, start, stop | checks are awaited while servers come and go | alerts alternate; a running checker checks |
| Metrics and alerts, `shared/utils/monitoring.py` | metrics, thresholds, tasks | collect, check, export | tasks across stop and start | one alert per cooldown |
| Rules and modes, `client/rules`, `client/proxy/modes.py` | ordered rule list, mode | match, add, load | rules behind a FINAL rule | the order of priorities decides |
| Local proxy, `client/proxy/local.py` | active tasks, totals | SOCKS5 handshake, tunnel or direct | success is answered before the tunnel exists | every connection is closed and counted |
| UDP server, `server/core/udp.py` | socket, associations | relay one datagram | a task and a socket per datagram | an answer goes to who asked |
| Server life cycle, `server/main.py` | all managers | `start`, `stop` | start may fail half way; one flag guards two long calls | what says it runs has its parts running; what was started is stopped |
| Server monitor, `server/manager/monitor.py` | what it last saw of the other parts | start, stop, update | counts change between two looks | a rate is the difference of two of its own looks |
| WebSocket transport, `server/core/websocket.py` | nonce of the cipher | handshake, requests one after the other | a handler that fails has encrypted already, and the next handler encrypts again | what the target sent arrives (it does not, see section 3) |
| Client, `client/main.py`, and `client/utils/proxy_manager.py` | the system's proxy settings, what they were before | `start`, `stop` | one external call per setting, any of which may fail | what was there before is there afterwards |
| Certificate files, `shared/utils/cert.py` | two files | validate, generate | written one after the other, in place | what start settles on can be loaded |
| Management API, `server/api` | - | - | does not compile | not modelled, see section 7 |

How they interact: `asyncio.start_server` calls `ConnectionHandler.
handle_connection` for each client, which runs one `ServerProtocol`; that calls
back `check_access` (access rules, then the quota of the traffic manager),
`on_data_transfer` (traffic manager) and `on_disconnect` (session manager).  A
client's `LocalProxy` runs one `ClientProtocol` per SOCKS5 connection.  Client
and server share nothing but the byte stream, whose packets
`AEADCipher` makes.  The connection pool is a utility that only the tests use
so far; so are the secure key manager, the health checker and the metrics.
`Server.start` starts the managers, the UDP server and the two listeners, and
`Client.start` the local proxy and the system's proxy settings.  The managers,
the watchers and the client's parts keep their state to themselves: nothing one
of them does is read by another, except for the counts that the server monitor
copies.  Everything on one side runs on one event loop: steps interleave at
awaits only, and a step of a specification here is what runs between two of
them.

## 2. Modules

| Module | Models | Extends / instantiates |
|---|---|---|
| `Nonce` | the bytes of a nonce, and the loop that increments them | |
| `Nonce_proofs` | theorems about it | extends `Nonce`, `Induction_proofs` |
| `PacketPipe` | abstract: what a direction of a tunnel promises | |
| `PacketStream` | packets on a byte stream and the receiver that reassembles them | instantiates `PacketPipe` |
| `PacketStream_proofs` | theorems about it | extends `PacketStream`, `TLAPS` |
| `Tunnel` | one `ClientProtocol` and one `ServerProtocol` over two streams | extends `PacketStream` |
| `Tunnel_proofs` | theorems about it | extends `Tunnel`, `PacketStream_proofs` |
| `CheckoutPool` | abstract: what a connection pool promises | |
| `ConnectionPool` | the pool with its lock, loops, cancellation, stop | instantiates `CheckoutPool` |
| `ConnectionPool_proofs` | theorems about it | extends `ConnectionPool`, `TLAPS` |
| `ConnectionHandler` | all connections of a server: slots, stages, relay accounting, quota | |
| `ConnectionHandler_proofs` | theorems about it | extends `ConnectionHandler`, `TLAPS` |
| `KeyStore` | abstract: what a key manager promises | |
| `SecureKeys` | `SecureKeyManager`: the key ring, its file, crash and restart | instantiates `KeyStore` |
| `SecureKeys_proofs` | theorems about it | extends `SecureKeys`, `SequenceTheorems`, `TLAPS` |
| `BackgroundLoop` | the loop that five managers run in a task of their own | |
| `Dictionaries` | assignment to a key of a Python dictionary | |
| `SessionManager`, `DeviceManager`, `TrafficManager`, `AuthManager` | the server's managers | the first three instantiate `BackgroundLoop` |
| `Monitoring`, `ServerMonitor`, `HealthChecker` | what watches | the first two instantiate `BackgroundLoop` |
| `UDPServer`, `WebSocketHandler`, `ServerLifecycle` | the server's other listeners, its start and stop with the certificate files | |
| `RuleMatcher`, `LocalProxy`, `SystemProxy` | the client's routing, its SOCKS5 side with the retries of `connect`, and the system's proxy settings | |
| `Components` | the thirteen parts above, one of which moves | instantiates each of them |
| `Components_proofs` | theorems about them | extends `Components`, `Induction_proofs`, `FiniteSetTheorems`, `SequenceTheorems`, `TLAPS` |
| `Induction_proofs` | induction by a least element, and sums by it | extends `Dictionaries`, `WellFoundedInduction`, `FiniteSetTheorems`, `TLAPS` |
| `MC...` | constants and symmetry for TLC | extend the module of that name |

An operator whose comment begins with "Faulty" is not part of a specification.
It is a plausible bug, the variant of the definition below it, and
`PROJECT.json` pairs it with the property that rejects it.

### PacketStream

A packet is three pieces: two halves of the sealed length, and the sealed
payload.  Three is the coarsest cut on which `decrypt_packet` can take each of
its branches: fewer bytes than a sealed length (`ParseShort`), a length and no
whole payload (`ParseNoPayload`), a whole packet (`ParsePacket`), or a tag that
does not verify (`ParseInvalidTag`).  `nonce` is the receiver's `_server_nonce`
as a number (`Nonce` is about its bytes); the sender's is twice the packets it
sent.  `TagValid` stands for
the cipher: it accepts a length only at a packet boundary and under the nonce
the packet was sealed with.  The receiver is first in `_read_encrypted` (phase
"head", one packet, whatever else is in its buffer is dropped) and then in a
relay loop (phase "relay", the rest is kept).  `arrived` and `sent` are where
TCP comes in: `Read` returns any non-empty part of what is under way.  Two
constants restrict how reads may end, so that properties can be stated where
they hold: `MaySplit` (inside a packet) and `MayOverrunHead` (the read of the
control packet returns data behind it).

### Tunnel

`cpc` and `spc` are the places in `connect`/`relay`/`close` and in `handle`.  The
request is packet 1 upwards and the reply packet 1 downwards; `kinds` records
what the packets downwards carry.  The model has: the salt, its timeout and
short read; a request that cannot be read; access denied; the target reached,
refused or timed out; both relay tasks on both sides, the end of one cancelling
the other; `close` on both sides; a connection lost for either side at any time
(`ConnectionLost`, a stream is then "lost"); and, with `MayBurst`, a read larger
than a packet may be.  What `check_access` answers and what the target does is a
free choice.  A cancelled task stops at an await only (`AtAwait`), never inside
the loop that decrypts one chunk.  One attempt of `connect` is modelled; the loop
around it makes a new stream for the next and is in `LocalProxy`.

The peers outside, `app` and `target`, end their stream or break ("failed") at
any time.  To the relay this is one event: a read that returns nothing, a read
that raises, a write that raises and a drain that raises all end the task
(`ClientAppGone`, `ServerTargetGone`), after which the other side of the tunnel
sees a regular end.  That is why the property about ends is `EndHasCause` and not
"the target has ended its stream": nothing tells a download that broke from one
that is done.

Every await that lasts until a peer reads is a place of its own, and nothing makes
it return but the peer:

- "draining": the task that reads the tunnel awaits the drain of what it wrote
  out (server `protocol.py:350`, client `:337`).  It may come whenever the buffer
  holds no whole packet any more; when exactly depends on sizes the model does not
  have (`DrainMayFollow`).  The other relay task goes on meanwhile, and the tunnel
  ends out of this place as out of "relay".
- "parting": `close` awaits `wait_closed` of the target or the application.  The
  server does so before it closes the tunnel (`protocol.py:454-465`), the client
  after it (`:397-408`).
- "hangup": `close` awaits that the tunnel's own connection is flushed.

### ConnectionPool

A step is what happens between two awaits.  `lock` is the `asyncio.Lock`; the
borrower, cleanup or stop that has it across an await (`create_connection`,
`wait_closed`) is its value.  Time appears as `overdue` (the getter's timeout
has passed), as `idle` (last_used against 80% and 100% of `max_idle_time`) and
in `link` (`created_at` an hour ago counts as "worn", like a closing
transport: both fail the health check).  The set `connections` forgets the
order of the list, which only decides which idle connection is taken first.
Connection objects nobody refers to are recycled as new ones.  `MayCancel`
lets a borrower be cancelled at any await of a call.  The pool begins as
`start` leaves it, and `stop` is awaited before `start` is called again.

### ConnectionHandler

Each connection has a stage of `handle_connection` and `handle`.  In the relay,
each of its two tasks copies chunks and reports when its count has reached the
connection's buffer size - at the moment it looks, since the other task's packets
change the size too.  The two count at different times, as in the code: "up"
counts what it wrote to the target and awaits a drain only before a report
(`CopyUp`); "down" awaits the write to the client first and counts afterwards
(`CopyDown`, `Resume`), so the chunk of that await, `writing`, is in no counter.
A task that is cancelled or fails there leaves it in none for ever.  `used` is the
total the quota is checked against, `clientUsed` the statistics per client; `moved`
is not in the code: it is what really went through, to compare with.  The last
stages, "parting" and "hangup", are the two waits of `close`, which keep the slot.
Sizes are in abstract units; an adjustment by 20% is one unit.  Warnings and the
monthly reset of the traffic manager are in `TrafficManager`.

### SecureKeys

`ring` is the memory of the process (`_keys`, `_key_history`, `_active_keys`),
`disk` the storage file.  A call changes the ring at once and leaves in `todo`
the rings it has still to save, some calls two of them; each save truncates the
file and writes it (`writing`), may fail at opening (`stale`), and the process
may die at any point of it and start again from what it finds, `Torn` included.
`Expired`, `due` and `lapsed` are the clock.  `get_key` checks the key it looks
up, which may replace it, and returns the old one: `out` says so (`late`).
`KeyStore` is what the callers see of it: for each usage the key that is handed
out and the one a restart would find (`Serving` of the ring and of the file).
`foreign` are keys encrypted under a master key that a restart does not have.
The model has a storage path; without one nothing is saved and a restart begins
with an empty ring, which is the model's first start.
`get_key` also counts the use of the key (`_update_key_usage`), after any save it
makes and without one of its own: `unsaved` says that the memory is ahead of the
file in that.  A later save of another call takes the counts along; a crash before
it loses them.  Time passes between calls, not inside one: a call does not wait and
reads the clock first.  `KeyStore` leaves it open when a key may expire; that it is
only at its time is in `ActiveSound`.

### Components

The thirteen parts share no state, so what two of them do in one order has the
same effect in any other, and an interleaving of two shows nothing that each
alone does not.  `focus` names the part that a behaviour moves; the others stay
as they were created.  One run is then a sum of state spaces and no product.
What each module keeps of its code:

- `BackgroundLoop`: `_running`, every task that exists, and the one last
  created.  `stop` clears the flag and cancels that task, which ends at its next
  step; `start` may come before.  A loop whose task was not cancelled looks at
  the flag only after its sleep.
- `SessionManager`: `_sessions` with the client and whether the session is late,
  and `_client_sessions`.  The cleanup awaits nothing between the two tables,
  so it is one step.
- `DeviceManager`: status and idleness of a device, `_connections`, and `open`,
  the connections the callers really have.  `muddled` collects the devices of
  which a connection came or went while they were not registered.
- `TrafficManager`: a report counts, and when the total has reached the
  threshold it puts a warning in the table and awaits the callbacks
  (`reporter` "calling"); the client's other task, the reset or a cancellation
  comes in between.
- `AuthManager`: blacklist, whitelist, rules and default in the order
  `check_access` asks them.
- `Monitoring`: the last values of each metric, the thresholds' cooldown, the
  alerts, and the tasks of both.  The collector's three tasks are one.
- `ServerMonitor`: the request rate from two looks at a count.
- `HealthChecker`: servers, the table of check tasks, and every task that is not
  over, so that a task that left the table is still seen.  `told` is what the
  alert callbacks heard last.
- `UDPServer`: a task per datagram, which outlives `stop`.
- `WebSocketHandler`: `sealed` is the cipher's nonce, `sent` what the client got
  and under which nonce.  `_handle_connect` and `_handle_udp_associate` use a
  `ws_adapter` they do not have; the packet has been encrypted when that raises,
  and every handler on the way out encrypts one more.
- `ServerLifecycle`: `call` is where each caller is in `start` or `stop`.  Both
  look at `_running` alone (`main.py:136`, `226`), which `start` sets last and
  `stop` clears first, so calls may overlap; what runs without an await, the
  certificate among it, is not interrupted (`MayRun`).  Starting the UDP or the TCP
  server, the certificate and the WebSocket server's cleanup may fail, with nothing
  undone, and the process may die anywhere.  The two certificate files keep the
  number of the pair they are from.
- `RuleMatcher`: the list that `add_rule` appends to and sorts again, stable and
  by descending priority; a pattern stands for the set of targets it matches.
- `LocalProxy`: `place` is where each connection's task is; `sockets` are the
  open sockets of its attempts, `held` the one the adapter knows, `targets` has
  the connections with a direct socket to their target.  A cancelled task goes to
  its `finally`, unless it is there already (`cut`); one cancelled in the relay of
  `_direct_connect` never comes to the close behind it (`left`).  `waits` is
  the Python version, `registered` whether the protocol has a factory.
- `SystemProxy`: the three settings of macOS, each on or off and with a server or
  none, in any combination at the start; what was read of them before, and the
  `networksetup` calls still to be made, of which any may fail.  `clean` is false
  from a failed read, a failed call of `restore_proxy`, a crash or a change by
  somebody else on; a failed call of `set_proxy` does not clear it.

## 3. Runs

Passing:

| Run | Checks | Bounds |
|---|---|---|
| `Tunnel_tcp` | type, `InOrder`, `UploadComplete`, `GrantFirst`, `OneReplyFirst`, `RequestAlone`, `BothSidesClose`, `RequestSettled`; every cut of the stream, every loss, overlarge reads, peers that end, break or do not read | 3 packets per direction; 729,826 states |
| `Tunnel_aligned` | `NothingDropped`, `EndHasCause`, `ImplementsPipe`, `DeliveredOrClosed`; reads end anywhere but behind the control packet, none is overlarge | the same; 266,347 states |
| `Pool_cancel` | `Exclusive`, `WithinCapacity`, `HeldIsInUse`, `ImplementsCheckout`; calls cancelled at any await, stop and restart | 3 connections, 2 borrowers, capacity 2, 1 use; symmetric in connections and borrowers |
| `Pool_calm` | type, `InUseIsHeld`, `NoClosedHandedOut`, `UsageBound`, `GetSettles`, `UnhealthyEvicted`; no call is cancelled | 2 connections, 2 borrowers, capacity 1, 2 uses |
| `Keys` | `ActiveSound`, `Durable`, `NeverBack`, `ImplementsStore`; rotation, revocation, expiry and cleanup, saves that fail or are cut short, crash and restart with and without the master key | 3 key ids, 2 usages; symmetric in the ids; 564,799 states |
| `Components` | `OneLoop` of all six loops, `TablesAgree`, `DevicesCounted`, `WarningIsCurrent`, `ChecksReachable`, `PartsRunning`, `BestRuleDecides`, `SocketsClosed`, `ProxyRestored` | two or three of each, see `Components.cfg`; 339,606 states |
| `Handler` | type, `SlotsExact`, `CountedOnce`, `LagBounded`, `SlotsComeBack` | 2 connections, 1 slot, more traffic than two buffers hold; 625,907 states |

Why the bounds are enough.  A receiver compares its nonce with one packet at a
time, so three packets are the control packet, one behind it, and one more that
shows whether the stream is still in step.  The pool's hazards are between two
parties at one connection or at the last free slot: two borrowers beside
cleanup and stop are all of them, and one connection object more than the
capacity is one that a borrower still has after the pool forgot it.  Symmetry
is used only where no liveness is checked.  In the handler, two connections
compete for one slot, the buffer size has two values, so that each task can move
the other's threshold up and down, and a limit of one chunk is passed at once;
what is independent of these numbers is proved for all of them (section 5).
With the tunnel's runs TLC evaluates `IncrementAddsOne` for nonces of up to three
bytes, each zero, one, or at the end of its range: carries through one byte and
through all of them.
The key manager replaces one key by another, and a third is enough for the
replacement of a replacement while the first waits for its grace period to end;
symmetry holds because no action tells two ids apart.  In `Components`, a loop
needs two tasks, the old and the new; the session tables three sessions of two
clients, so that a client keeps one and loses one; the traffic manager two
clients whose totals pass the threshold together or alone; the health checker
two servers and three tasks, one of them left from an earlier registration; the
rules two overlapping patterns and the final one at equal and at different
priorities; the server two callers, whose calls overlap in every way two can; the
local proxy two connections and two attempts, the last of which
ends differently from the first.

Runs that expect a violation check what a comment or docstring of the code says
and the code does not do (the quotes are in `PROJECT.json`):

| Run | Violated | What happens |
|---|---|---|
| `PacketStream_cut` | `IncompleteIsResumed` | A read ends between length and payload.  `decrypt_packet` has moved the nonce on when it raises, so the retry fails to authenticate and the relay ends. |
| `PacketStream_overrun` | `CleanEndComplete` | Data that came in the same read as the reply is dropped. |
| `Tunnel_burst` | `EndHasCause` | The target sends more per read than a packet holds: the relay ends and looks complete to the client, though the target is still sending. |
| `WebSocket_relay` | `RelayDelivers` | The first chunk of a relay is read, encrypted, and dropped by a `NameError` (`websocket.py:294`). |
| `Cert_crash` | `CertLoads` | A start dies between certificate and key; the next one keeps the certificate with a key that does not belong to it, and so does every later one (`cert.py:274`). |

Because of these, `Tunnel_aligned` states what the tunnel promises when reads
stay clear of them, and `Tunnel_tcp` what it promises anyway.

Other disagreements the models show, which have no run of their own:

- With `MayCancel`, `UsageBound` and `NoClosedHandedOut` fail: `return_connection`
  takes a connection off `_in_use`, closes it, and takes it off the list only
  after awaiting `wait_closed` (`connection_pool.py:183-194`).  Cancelled in
  between, it leaves a closed connection that is handed out again.  That is why
  these two are checked in `Pool_calm`, `NoClosedHandedOut` of a running pool only,
  and why `CheckoutPool` promises nothing about openness.  `InUseIsHeld` fails as well: a cancelled
  `return_connection` that waits for the lock leaves its connection in `_in_use`.
- `get_connection` looks at its timeout only at the head of its loop
  (`connection_pool.py:128`), so a getter behind the lock or a slow
  `create_connection` may get its connection after it.
- `get_connection` never looks at `_running`: a getter that was waiting when the
  pool stopped adds a connection to the stopped pool (`connection_pool.py:142`).
  The model has that step, and the properties checked hold with it.
- `_is_connection_healthy` calls `set_read_timeout`, which asyncio transports do
  not have; the exception is swallowed and skips the `at_eof` test behind it
  (`connection_pool.py:257`), so a connection whose peer closed passes.
- `_increment_nonce` says "big-endian counter in first 8 bytes" (`aead.py:209`); its
  loop runs over all twelve.  `NonceCounts` is about the loop.
- What a relay task has not reported when the connection ends is never reported
  (`protocol.py:349-351`): `LagBounded` bounds it.  A chunk whose write to the
  client was cut short is not even counted (`protocol.py:378-380`); `CountedOnce`
  has it apart.
- A target that breaks ends the relay like one that is done (`protocol.py:389`), and
  the client's application reads a regular end.
- `drain` and `wait_closed` have no timeout.  A target that does not read keeps the
  tunnel half open and its slot taken for as long, because `close` waits for it
  before it closes the client's side (`protocol.py:457`).  Client and server can
  also wait for each other in `close`, each for the other to take what is under
  way (`WaitForEachOther`); `BothSidesClose` names both and says there is no third.
- `get_key` counts uses in memory only, after any save (`secure_keys.py:182`,
  `386-396`): a crash loses those since the last save of another call, although
  the class lists "Key usage auditing" among its features (`secure_keys.py:83`).
  `Durable` says so.
- The quota is looked at when a request is admitted (`handler.py:160`); open
  connections go on beyond it.

Server:

- `server/main.py` imports `server/api/routes.py`, which has an indentation
  error (line 166), so the module cannot be imported as it stands.
  `ServerLifecycle` is about the rest of it.
- `AuthManager()` denies by default and `from_config` allows; the server calls
  the constructor, without rules, and so refuses every target.  Removing the
  last allowed identity admits everyone (`auth.py:111`).
- `max_sessions` is stored and reported and never looked at, and nothing in
  `src/` creates a session.
- `unregister_device` leaves the device's count in `_connections`; a device
  registered again starts with it.  `DevicesCounted` leaves such devices out, so it
  does not catch this; it shows that no other sequence loses a count.
- The monitor reads "total_sent" and "total_received", which the traffic
  manager's statistics do not have, so bytes and throughput stay 0.
- `_cleanup_old_stats` goes by `end_time`, which nothing sets: `_client_stats`
  grows for ever.  `AlertManager._alerts` is never trimmed either.
- `psutil.cpu_percent(interval=1)` blocks the event loop for a second.
- A failed `Server.start` leaves its parts running; `stop` then returns at once
  because `_running` is not set, and another `start` fails at the UDP server,
  which "is already running".  A `start` during the awaits of a `stop` finds the
  managers running and leaves them as they are; the `stop` then stops them, and the
  server says that it runs without them.  `Server.run` calls one after the other, and
  `PartsRunning` leaves such pairs out (`crossed`); overlapping starts it has in.  A WebSocket cleanup that raises skips the rest of
  `stop`.  WebSocket connections do not count toward `max_connections`.
- A `sendto` that raises leaves the datagram's socket open (`udp.py:185`).
- A health checker started again has servers and no tasks (`health_check.py:91`).

Client:

- Nothing imports `shared/protocol/shadowsocks2022.py`, where the protocol
  registers its factory, so `create_client_protocol` raises `ValueError`
  (`registered`, in `LocalProxy`).
- The client dials a WebSocket at the server's port + 1; the server listens on
  port + 2.
- The SOCKS5 success is sent before anything is connected.
- From Python 3.12 on, `wait_closed` waits for the open connections, which only
  the code behind it would cancel (`local.py:174`): `stop` hangs, and the
  system's proxy settings are not restored.  With `waits`, `Stopped` is then out
  of reach in the model.
- A task cancelled in its `finally` leaves the local socket to the garbage
  collector (`cut`); one cancelled in the relay of a direct connection leaves the
  target's (`left`, `local.py:371-377`).  A connection accepted just before `stop` may not be in its
  list of tasks.
- After a crash the next start reads its own proxy as the original setting
  (`proxy_manager.py:54`), and a `restore_proxy` whose call fails is not repeated.
- Against "Restoring original proxy settings on exit" (`proxy_manager.py:6`): a
  setting that was off and had a server is switched off again and keeps the local
  proxy as its server (`:198-202`), and one that was on without a server stays as
  `set_proxy` made it.  `ProxyRestored` states what does come back.
- In `WebSocket_relay` the trace ends with the dropped chunk.  It also leaves a gap in
  the nonces of the stream, which `RelayDelivers` does not look at.
- The default list ends with a FINAL rule at priority 0, and later rules of
  priority 0 are sorted behind it, where nothing reaches them.

## 4. Fairness

- `Tunnel`: weak fairness of the steps of the two protocols, their readers
  among them, that do not wait for a peer.  The event loop runs a reader whose
  socket has data, TCP delivers, the timeout of dialing fires.  Of the waits of
  `close`, one for the tunnel's own connection returns once nothing is left to flush
  or the other side is gone, and the one for the target when nothing but the request
  went there.  No other drain or `wait_closed` is assumed to return: the code sets no
  bound.  `BothSidesClose` and `DeliveredOrClosed` have the premise `PeersRead`
  instead, that no such wait lasts for ever; `RequestSettled` needs none.  The
  application, the target, overlarge reads and lost connections are left free, and
  so is the timeout of the salt, because the client does send it.
- `ConnectionPool`: strong fairness of `get_connection` and of the cleanup,
  because `asyncio.Lock` serves its waiters in order, so a task that asks for it
  again and again is not passed over for ever; weak fairness of
  `return_connection` and of `stop` (`create_connection` and `wait_closed`
  return), and of the passing of time.
- `ConnectionHandler`: weak fairness of the server's own steps in the stages
  that have a timeout, of what follows the end of a relay task, and of a `close`
  that has no data to flush.  The stage "request" has none: a client may stay silent
  there for ever.  Neither has a `close` after data went through: that the peers
  take it is the premise of `SlotsComeBack`.
- `SecureKeys` and `Components` state safety only and assume no fairness.  They
  do assume that a cancellation reaches the task: `asyncio.wait_for` of Python
  3.11 and before may swallow one that meets its result.

Deadlock checking is off in the configurations because the bounds on packets
and traffic stop the behaviours, and a tunnel or connection that is closed has
nothing left to do; in `Keys`, when all key ids are drawn; in `Components`, because a UDP
server without datagrams and a full list of rules may stop; in
`WebSocket_relay`, because a connection ends.

## 5. Proofs

`PacketStream_proofs`, for any set of streams and any `MaxPackets`, from
`PacketStreamAssumption`:

- `TypeCorrect`: the type invariant.
- `OrderCorrect`: `InOrder`.  It is not inductive by itself: a receiver with a
  nonce out of step might accept a later packet.  `NonceInStep` is the
  strengthening - the nonce is two per packet handed on, or one more - and the
  lemma `NextPacketOnly` shows that with such a nonce the tag check accepts the
  next packet or none.
- `NothingDroppedCorrect`: `NothingDropped` if no read overruns the control
  packet: what arrived is what was handed on plus the buffer, and a receiver that
  waits for a read holds no whole packet.  It is inductive with the types and
  `NonceInStep`, direction by direction (`NothingDroppedFromStep`), so that it
  holds of one direction when only that one's reads are known to be harmless.
- `CompleteCorrect`: `CleanEndComplete`, under the same condition.
- `PipeCorrect`: under the same condition, `PacketStream` implements
  `PacketPipe`, one step at a time (`PipeStep`).

`Tunnel_proofs`, for any `MaxPackets`, any cut and any overlarge read, from
`TunnelAssumption` (there are two directions):

- `TunnelStreams`: a tunnel implements `PacketStream`.  Every step of client or
  server is a step of one stream or leaves both alone, so the theorems above
  hold in a tunnel; `TunnelInOrder` is the first of them.
- `TunnelNonce`, `TunnelComplete`: the nonce is in step in a tunnel, too, and if
  no read overruns the control packet nothing is dropped and a clean end is
  complete, in both directions.
- `UploadCorrect`: `UploadComplete`, with no condition on the reads: what the
  client uploads is never dropped, and a server that reads end-of-file has passed
  on all of it.  `RequestAlone` is the reason: when the server reads the control
  packet nothing is under way behind it.  `UploadInv` says so: whoever has a
  grant, and whoever has sent a second packet up, finds the server past the
  request.
- `TunnelTypeCorrect`: the type invariant, with `kinds` as long as what was sent.
- `GrantCorrect`: `GrantFirst`, `OneReplyFirst` and `RequestAlone`.  None is
  inductive alone: the client believes in a reply because it has one, the server
  takes data because it relays.  `GrantInv` says what each place in the two
  programs implies about the reply; `HeadFirst`, proved of the streams, says
  that a control packet taken was sent.  `OneReplyCorrect` and `RequestCorrect`
  name two of the three on their own.
- `EndCauseCorrect`: `EndHasCause`, if no burst of the target breaks the relay
  and no read overruns the control packet.  `EndsInv` adds the causes of an end:
  each side closes the tunnel in its `close` only; a server that granted comes to it
  for a target that is over or for the client's direction; and that direction ends
  only by a client that has closed.

`ConnectionPool_proofs`, for any number of connections and borrowers and any
capacity, from `PoolAssumption`:

- `PoolTypeCorrect`: the type invariant.
- `PoolCorrect`: `Exclusive`, `WithinCapacity` and `HeldIsInUse`, with
  cancellation, stop and restart.  The inductive invariant `PoolInv` adds: who
  is between two awaits inside the lock has the lock (`LockInv`); who has a
  connection is where one has it, and the other way round (`HandsInv`); a
  connection of the pool that somebody has is in use, unless it is being
  discarded, and a cleanup dooms none that is in use (`AccountInv`); during
  `stop`, everything in the list is closed (`StopInv`); and a creator found room
  that nobody has taken since (`RoomInv`).  `WithinCapacity` needs the last: the
  room is found an await before it is used.  `CapacityCorrect` and `HeldCorrect`
  name two of the three on their own.
- `CheckoutCorrect`: the pool implements `CheckoutPool`.
- `InUseCorrect`, `NoClosedCorrect`, `UsageCorrect`: if no call is cancelled
  (`~MayCancel`), `InUseIsHeld`, `NoClosedHandedOut` and `UsageBound`.
  `UsageInv` adds that a connection that is idle and in nobody's hands has a use
  left; `ClosedInv` says why a closed connection may still be in the list: it is
  being discarded or cleaned up, or `stop` is about to empty the list.

`ConnectionHandler_proofs`, for any number of connections, any limit, any
buffer sizes and chunks, from `HandlerAssumption`:

- `HandlerTypeCorrect`: the type invariant; the buffer size stays within its
  bounds (`AdjustedInBounds`).
- `SlotsCorrect`: `SlotsExact`, which is inductive given the types.
- `CountCorrect`, `LagCorrect`: `CountedOnce` and `LagBounded`.  What was carried
  is the sum of what was reported, what is counted, and the write that is awaited or
  was cut short; every step moves an amount from one of these to the next.

`SecureKeys_proofs`, for any set of key ids and usages, from `KeysAssumption`
(the value for "no key" is none of them):

- `KeysTypeCorrect`: the type invariant.
- `ActiveCorrect`, `DurableCorrect`, `NeverBackCorrect`: `ActiveSound`, `Durable`
  and the action property `NeverBack`.  They follow from one inductive
  invariant, `KeysInv`: the ring is sound (`SoundIn`: an active key is in the
  right place, of its usage, and of a status that allows it), and so is every
  ring still to be saved, the last of which is the memory (`TodoInv`); the file
  is torn or a sound ring, and the memory once nothing is under way and every
  usage has its key (`DiskInv`); a retired key is active nowhere but in a stale file
  (`RetiredInv`); a key handed out late is not active (`LateInv`); and a use that was
  counted is ahead of the file until another call saves (`UsesInv`).  The properties
  alone are not inductive: what the file will hold is decided by rings that are still
  in `todo`.

- `StoreCorrect`: the manager implements `KeyStore`.  `StoreInv` strengthens
  `KeysInv`: every ring still to be saved serves the same keys as the memory, and
  so does the file when nothing is under way and no save has failed.  Calls that
  put a new key in place map to `Replace` (`ReplaceServes`), calls that move keys
  away to `Expire` (`MoveServes`), a save that goes through or fails to `Keep`, and
  a restart to `Recover`, because what `_load_keys` makes of the file serves what
  the file served (`ServingLoaded`).

`Nonce_proofs`, for any width of a nonce:

- `NonceCounts`: `_increment_nonce` adds one to the number the bytes are, modulo
  256 to the power of the width.  `CountsTo` is the induction hypothesis: the
  first k bytes count one more when the loop comes to the k-th, go round to zero
  after the last number they can show, and stay what they are when it stops
  before.  `VisitedBefore` is the carry.
- `NonceOnce`: counting up from zero, none of the first 256 to the power of the
  width comes twice.  That is why `PacketStream` may compare nonces as numbers.

`Induction_proofs` has no theorem about a component.  The provers cannot
instantiate a theorem with an operator parameter, so induction is stated about
sets: a set of numbers has a least one (`LeastNumber`), a set that has zero and
every successor has them all (`AllNumbers`), and among some subsets of a finite
set there is one that is not in their number any more when an element is taken
away (`LeastSubset`).  From these follow that the functions `Nonce` defines by
recursion exist and satisfy their equations, and the facts about sums: the order
of summation does not matter (`SumOf`), assigning a key of a dictionary changes
the sum of its values by the difference (`PutSum`), and the fold of the community
modules is that sum (`FoldIsSum`).

`Components_proofs`, for any number of sessions, clients, devices, servers, tasks,
connections, attempts and rules, any amounts, any patterns and any priorities,
from `ComponentsAssumption` (a server is not unhealthy before a check failed; the
configuration names finitely many devices; priorities are integers; amounts and
the threshold are numbers of bytes).  One lemma per part says that a step of the
whole is a step of that part or leaves it alone:

- `LoopsCorrect`: `OneLoop` for all six loops.  `LoopStep` is what any user may
  do to a loop, `LoopKeeps` that it keeps `LoopInv`, and one lemma per part that
  the part does nothing else to its loop.
- `TablesCorrect`: `TablesAgree`, inductive with the types of the two tables.
- `DevicesCorrect`: `DevicesCounted`, with the type of the tables, in which a
  count that is there is positive - otherwise the last disconnect would not be
  the last - and the set of devices is finite, for the limit.
- `ChecksCorrect`: `ChecksReachable`, inductive with the types of the tables.
- `SocketsCorrect`: `SocketsClosed`.  `ProxyInv` adds that the only socket is the
  one the adapter holds, and at which places there is none; without it a retry
  might lose a socket of an attempt before.  `TargetsInv` adds the same of the
  target's: there is one in the relay of a direct connection and, after that, only
  when the task was cancelled there.
- `WarningCorrect`: `WarningIsCurrent`.  Its sum needs that the clients are
  finitely many and their shares numbers (`SharesInv`); a report then adds the
  same to a share and to the total (`PutSum`).
- `RulesCorrect`: `BestRuleDecides`.  `RulesInv` has the list ordered by priority
  and, among equals, by age, and every rule older than the next to be added;
  without the latter an added rule might go before an equal one of later serial.
- `PartsCorrect`: `PartsRunning`, for any number of callers.  As long as no start
  and stop have crossed, `PartsInv` says of a start under way which parts it has
  behind it (`StartStages`), and of a stop which parts it has still to come to
  (`Unstopped`); that the second of two overlapping starts fails, rather than set
  `_running` over a part that is missing, follows from the parts that the first has
  brought up.
- `ProxyCorrect`: `ProxyRestored`.  `SystemInv` says of `stop`, under way, that a
  setting is what it was before or the call that makes it so is still to come,
  and that no call to come makes anything else of it (`Restoring`); and of the
  time before, that what was read is what was there.  Nothing in it depends on how
  far `set_proxy` came, which is why a failure there does no harm.

Only model-checked: the liveness properties - `BothSidesClose`, `RequestSettled`,
`DeliveredOrClosed`, `GetSettles`, `UnhealthyEvicted`, `SlotsComeBack` - because
liveness under fairness, and `ENABLED`, are out of this prover's reach; and what the
runs that expect a violation refute.  Every invariant, action property and
refinement that a passing run checks is a theorem.

## 6. Plan

What is left:

1. Liveness of the parts, each under a specification of its own: a registered
   server is checked again and again while the checker runs; `LocalProxy.stop`
   ends, before Python 3.12.
2. Consequences of `KeyStore` for its callers, stated about it alone: a key is
   current for one usage at most, and for the one it was made for.

## 7. Not modelled

- `server/api`: `routes.py` does not compile, so there is no behaviour to
  translate.
- The ciphers and key derivation come from the `cryptography` library; a tag
  verifies for what was sealed under the same nonce and for nothing else.
- Encoding of requests, replies and addresses (`shared/protocol/types.py`) and
  the fields of the SOCKS5 handshake: data.  A malformed message is a choice.
- Configuration values, X.509 contents, logging and the exporters of the metrics
  (JSON, Prometheus, InfluxDB): formatting.
- The GUI (`client/gui`): imports a class, `LinkManClient`, that does not exist.
- The Windows and Linux branches of `ProxyManager`: they only log.
- The WebSocket adapter of the client: the tunnel is modelled over TCP.
- `ConnectionPoolManager` and `HealthCheckManager`: dictionaries around one pool
  and one checker.
- The associations of the UDP server: nothing in `src/` writes the table.
- `web/`, `deploy/` and `security_audit/`: a front end and scripts.
- Crashes of the tunnel's processes: neither side keeps anything of a tunnel.
