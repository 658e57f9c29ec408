# A TLA+ model of gremlind

gremlind builds GRE tunnels on demand. A client dials a server's control port,
authenticates, is granted a session (an inner address, a GRE key, an MTU), and
both ends configure a GRE interface. When the control connection ends, both
ends take the tunnel down. This directory holds TLA+ models of that control
plane, TLC configurations that check them on small instances, and TLAPS proofs
of the main safety properties for instances of any size.

Paths below are relative to the repository. `PROJECT.json` maps every
definition to the lines it models, lists the runs, the theorems, the altered
definitions each property is shown to reject, and the hazards of the code.

## The system

| Part | Code | State | Operations that change it |
|---|---|---|---|
| Address pool | `internal/ippool` | set of used addresses, pins | `Pin`, `Allocate`, `AllocateSpecific`, `Release` |
| Session manager | `internal/session` | sessions by key, active session by client, sticky leases and their times | `Establish`, `Teardown`, `evictLocked`, `purgeExpiredLeasesLocked`, clean-ups |
| Control server | `internal/control/server.go` | global and per-address handshake slots, in-flight handlers | `Serve`, `reserve`, `release`, `handle`, `handshake`, keepalive loop |
| Dialer | `cmd/gremlind/main.go`, `internal/control/client.go` | backoff, last address, the local tunnel, goroutines of a session | `runDialer`, `dialOnce`, `runSessionLoops`, `Handshake`, `KeepaliveLoop` |
| Netlink broker | `internal/provisionrpc`, `internal/gre` | names it created; the kernel's links | `handle`, `Ensure`, `Remove`, the start-up sweep |
| MSS clamping | `internal/mssclamp` | firewall rules per interface, monitor goroutine | `Apply`, `Remove`, `MonitorLoop` |
| Healthcheck | `internal/healthcheck` | consecutive failures | rounds of pings, failure actions |
| Hooks | `internal/hooks` | none | `Run` |
| Secure channel, codec | `internal/control/{secure,codec,proto,identity}.go`, `internal/auth` | keys and sequence numbers per connection | seal, open, encode, decode |
| Config, admin socket, hardening | `internal/config`, `internal/admin`, `internal/hardening` | none that changes | read at start, or read-only |

How they interact:

- `Serve` accepts connections and runs one handler goroutine per connection.
  The handler authenticates, calls `Manager.Establish`, replies, reads
  keepalives, and calls `Manager.Teardown`. So all handlers meet in the session
  manager, whose mutex guards the registry, **but not the data plane**:
  interface, rules and hooks are changed outside the lock.
- Establish and Teardown reach the kernel directly or through the broker, a
  separate process that handles each request in its own goroutine and holds
  its mutex only around its set of created names.
- The dialer makes one attempt after the other. Goroutines of an attempt
  (reader, sender, closer, healthcheck, rules monitor) run beside `dialOnce`.

What is hard here, and therefore what the models concentrate on: a reconnect
overtaking the session it replaces; the late Teardown of a superseded
connection; a failing step after the registry was updated; leases that expire
around a reconnect; slots taken and returned in two steps; a shutdown during
any of this; a reply that cannot be delivered; broker calls that time out at
the caller and run on in the broker; a broker restart; goroutines that must end
with their session, two of which write on one channel; keepalives racing the
deadlines of both ends; firewall commands of several sessions on one chain
while an administrator reloads it; the arithmetic of MTUs and of length fields.

## Modules

### Sessions: `IPPool`, `SessionManager`, `AddressLeases`, `AllocLoop`, `ServerConfig`

`IPPool` gives the pool's operations as operators on the used set. Addresses
are positive integers in scan order, and `NoAddr` is the invalid `netip.Addr`.

`SessionManager` is the registry and its data plane. A connection calls
Establish once and then perhaps Teardown once, and `pc[c]` says where it is.

| Code | Action |
|---|---|
| `Establish`, family checks before the lock | `EstablishReject` |
| its locked section (purge, evict, allocate, draw a key, register) | `Register`, or `EstablishFail` |
| `removeAndNotify` of the evicted or torn-down entry | `Unplumb`, `DownHook` |
| `prov.Ensure` and its failure | `Ensure`, `EnsureFail` |
| failure of `mssclamp.Apply` | `ApplyFail`, `Unwind` |
| the locked clean-up after a failure | `Abort` |
| up hook and return of the grant | `UpHook` |
| `Teardown`'s locked section | `Teardown` |
| time | `Tick` (environment) |

Each locked section is one step, because all registry access is under
`Manager.mu`. Each data-plane call is a step of its own. `*Entry` pointers are
identified by the connection that created the entry, so the code's pointer
comparisons are comparisons of connections. `leaseAge` is the time since the
lease was last used, saturated where it first counts as expired.

The rules of a session and their monitor are in `MssClamp`; here only the
failure of `Apply` matters, because it undoes the session.

A failing `Ensure` leaves one of three results, chosen by `EnsureFailures`:
nothing happened, its work was undone, or the interface exists anyway.

`AddressLeases` is what the manager promises about addresses, without keys,
pool or data plane: a client has a claim on at most one address; a grant is on
an address nobody else has a claim to, and is the client's own previous one
unless it asks for another; only failed provisioning or expiry while inactive
takes a claim away. `SessionManager` implements it, with `lease <- leases` and
`live <-` the clients that have an active session.

`AllocLoop` is the loop in `allocInnerLocked` that allocates and sets aside
addresses other clients have leases on. `SessionManager` uses its result in one
step; `AllocLoop` shows that the loop computes that result.

`ServerConfig` is what `Config.ValidateServer` accepts, with `gre.ValidName`,
`gre.IsGeneratedName` and `ValidClientID`. The constants of `SessionManager` and
its `ConfigAssumption` come from there: pinned names are unique and never look
like the name of a session key, static leases are unique, in the pool and not
the server's own address. Names are abstracted to classes of characters after
an optional `grem`.

### `TunnelMTU`

The path from the two detected underlay MTUs to the MTU both ends configure:
16-bit fields, overheads (GRE key and sequence options, IPv4 or IPv6, FOU),
cap, floor, redials over another path, and the MSS of the clamp rules.

### `ControlServer`

The accept loop of `Serve`, `reserve` (`Admit`, `GiveBack`) and `release`
(`ReleaseIP`, `ReleaseSem`) as separate steps, the handshake with a failure
possible at each read, `Establish`, the reply and the undo of a session whose
reply failed, the keepalive loop, `Teardown`, and the shutdown: the listener's
closer and the per-connection watchers are steps of their own. A message is
abstracted to whether the read delivers what the handler waits for.

### `ServerSystem`

`ControlServer` and `SessionManager` composed: a handler's Establish and
Teardown are the manager's, step by step, so what a handler may rely on is no
longer assumed of the manager but follows from it. Everything else a handler
does leaves the manager alone. `lost` remembers the entries that were evicted
inside their own Establish, or by an Establish that then failed to draw a key.
The latter is an error return of the code that the random source of the Go
release in `go.mod` never takes.

### `ControlLink`, `WireCodec`

`ControlLink` is one established connection in time: the client's set-up after
the reply, its `KeepaliveLoop` with sender, closer and reader, the server's
keepalive loop and Teardown, and a TCP path that delivers in order within a
delay, or dies. `WriteMessage` of the secure channel is three steps (`Seal`,
`Bump`, `Put`), because sender and closer share `writeSeq` without a lock; a
frame opens at the peer if it was sealed with the number expected next. `Tick`
lets time pass only when nothing is due; `MaySeal` and `MayClose` name the
conditions of the two goroutines' next steps, so that `Due` can ask for them.

`WireCodec` is the encoding of every message type, plain and inside a sealed
frame, on sequences of bytes, because `CodecExact` is about where a length field
is cut off and where the next read then starts. A byte has `Base` values, so that length fields
wrap at lengths small enough to enumerate; lengths are cut off exactly where the
code converts them.

### `MssClamp`

`mssclamp` on nftables, one step per `nft` command: `Apply` (`List`, `Delete`,
`EnsureTable`, `AddRule` for each direction and protocol), `Remove`, `Present`,
and `MonitorLoop` with its subscription, its unread lines and its repair. The
chain is shared by all sessions; a rule has a handle, which a table loaded anew
hands out again. A cancelled monitor kills its running command, which may or may
not have taken effect (`LateCommand`). `excuse` records which of the windows
named in the properties a session went through.

### `Dialer`, `SourceAddress`

`runDialer`'s loop (`lastInner`, `backoff`, the stop on a rejection), every
exit of `dialOnce` with its clean-up, and per attempt the goroutines of
`runSessionLoops` and `KeepaliveLoop`. The server is the environment: `verdict`
records what it decided, whether or not the dialer learns it. Backoff is in
units; the values matter only relative to each other.

`SourceAddress` is `chooseSourceAddress` and its helpers as operators, beside
`Admits`, which says without an order of evaluation what a rule promises. A list
of prefixes is the set of addresses it covers. The code's walk over interfaces
and their addresses, first match first, is the least of the places that match.

### `ProvisionBroker`

`Client.call` with its timeout, `Server.handle`, and `gre.Ensure` and
`gre.Remove` kernel call by kernel call, each of which can fail. A kernel link
is identified by the call that created it, and an unrelated device, of another
kind, by its name. The model begins before the first start, with unrelated
devices under any names. `Exit`, `Restart` and `RestartFails` model the end of
the broker and `runNetlinkd`'s sweep at every start. The sweep goes by two
criteria: `RemovePrefix` takes every link whose name begins with `grem`
(`Prefixed`), of whatever kind, also under a name like `gremlin0` that the broker
would refuse; `RemoveNamedGRE` takes GRE tunnels under pinned names.
`Overlap` is the set of names on which a call may start before another has
ended.

### `HealthCheck`

The loop of `healthcheck.Loop`: the round of pings over the configured sizes,
the pause between probes, the counter, the threshold, the actions, a target that
is missing, and a cancellation at any point.

## Runs

| Run | Instance | What it shows |
|---|---|---|
| `SessionRegistry` | 3 connections, 3 clients (one with a static lease, two with one pool address between them), lease TTL 1, every failure of Ensure, failing removals | indexes, pool, leases and interfaces agree after every interleaving; a session ends only through its own connection or its client's next one; an unexpired lease is honoured; a refusal evicts nobody; refinement of `AddressLeases` |
| `ServerSystem` | 2 connections of 2 clients, one with a pinned name, 1 address, 1 handshake slot, failing keys, interfaces and rules, a shutdown at any point, fairness; configurations of up to two clients | what a session set up is torn down unless it was overtaken inside its own Establish; a shutdown leaves nothing; handshakes resolve, silent peers are dropped, a cancelled server returns; an accepted configuration has what the manager assumes |
| `OrphanInterface` | 2 connections of 1 client, no failures | *violated*, see Findings |
| `MTUNegotiation` | 10 underlay MTUs around each threshold, 5 caps, all encapsulations | both ends agree; full packets and clamped segments fit both paths unless the floor applies |
| `ControlSlots` | 3 connections from 2 addresses, 2 slots, 1 per address, accept errors | slot counts exact; one Teardown per grant; nothing left when Serve returns |
| `ControlLink` | 5 timings with the least timeouts the assumption allows; messages of all types | frames open until a cancellation; no false timeout; a dead path is noticed in time; a cancellation ends both ends; messages are read as written and nothing else decodes |
| `MssRules` | a session beside a settled one, or alone with rules in both directions, in a managed or a foreign table; 1 or 2 reloads, 1 failing command | a removal leaves no rule and no monitor, no monitor sleeps while a rule is missing, no session deletes another's rules, each but for the windows its comment names |
| `Dialer` | 2 attempts, 2 addresses, monitors, healthcheck, every local failure, dead paths, fairness; hosts of up to 2 interfaces with up to 2 rules | each attempt asks for the latest granted address; backoff doubles, is capped and resets; no tunnel is left outside a session unless a removal failed; goroutines end with their attempt; a cancelled dialer returns; the source address is one the rules admit, and one more interface never costs it |
| `LostReply` | as `Dialer`, smaller | *violated*, see Findings |
| `SourceExclusion` | the hosts, servers and single rules of `Dialer` | *violated*, see Findings |
| `Broker` | 3 calls on a generated name, a pinned name with overlapping calls and two refused names, one beginning with `grem`; unrelated devices under any of them; errors, timeouts, restarts | answers stay true on names without overlap; the sweep is complete; a handler changes only the link of its own name; outside the `grem` prefix the sweep takes only GRE tunnels |
| `Loops` | `AllocLoop` on 6 addresses, one pinned, one reserved, with every used set and every set of claims; `HealthCheck` with up to 4 sizes, thresholds up to 5 and every set of actions; fairness | the skip loop returns the lowest unclaimed address, gives back what it skipped, and ends; failure actions run exactly at the threshold; a cancelled health check returns |

**Bounds.** Three connections are the smallest number in which a session, its
successor and a call left over from an earlier session coexist. Two clients
compete for one address of the pool, so it can be exhausted; each can also ask
for the network address, which only a request hands out, so that a lease, a
request and the lowest free address are all different. The third client has a
static lease, which the others ask for in vain. A lease TTL of one tick tells
fresh, old and expired apart. In the server, two slots with one per source
address let either limit be reached first. In `ServerSystem` two connections
are either client's session and its successor, or two clients that compete for
the one address. Two attempts give the backoff a first wait and one that is
doubled and capped, and let an address be granted, lost and asked for again.
In `MssRules` one session's three goroutines meet another session's monitor;
a second reload matters only where the daemon does not recreate the table.
`ControlLink` has sequence numbers modulo 8, more than are ever in flight. In
`WireCodec` strings lie on both sides of the first and second wrap of the
two-byte length fields, and every payload of up to five bytes over four values
is decoded. These operators, `chooseSourceAddress` and `ValidateServer` do not
depend on the state; the run evaluates them once, in a state where the code
calls them. Three broker calls give an Ensure, an overlapping
call and one after a restart. In `Loops` the two loops, which share nothing, run
side by side, and each goes through all its inputs while the other has its
plainest one. Attempts, calls and connections are used up in a
behaviour, so CHECK_DEADLOCK is off where the instance can run out of them;
`Loops`, `MTUNegotiation` and `ControlLink` check deadlock.

**Symmetry** is used only in runs that check safety.

**Fairness.** Each assumption is a timeout or a scheduler guarantee of the code.

- `ServerSystem`: a call of the session manager in progress takes its next step,
  since broker calls have a deadline and hooks a timeout. `Serve`'s goroutine and the handlers keep running, reads in
  the handshake have a deadline, and the watchers of a cancelled context run. A
  keepalive read need only return if the peer is silent or the connection is
  closed. A chatty peer may keep its session for ever, as in the code.
- `Dialer`: `dialOnce` proceeds, since its calls are bounded. A reader returns
  if the connection is closed or the path is dead. A write on a dead path may
  block until the connection is closed. The healthcheck returns if cancelled.
- `HealthCheck`: the goroutine keeps running, and strong fairness of the
  cancelled case reflects that Go's `select` picks among ready cases at random.
- `AllocLoop`: the loop keeps running.
- `ControlLink` has no fairness: its bounds are counted in ticks. Its
  `TimingAssumption` asks that each keepalive timeout exceed the *client's*
  interval and a round trip, at the server plus the client's set-up time.
  `Config.validate` compares the two values of one host only, so an operator has
  to see to the rest.

**Altered definitions.** A definition whose name ends in `_` is a plausible
mistake in the definition after it (a dropped guard, a missing release, a
wrong order). No specification uses it. Substituted for the original, it makes
TLC report the property `PROJECT.json` pairs it with.

## Findings

1. `LostReply` (`internal/control/client.go:98`). `Handshake` turns every error
   of the reply read into `ErrRejected`. A connection lost, or a deadline
   missed, after the request was sent therefore stops `runDialer` for good,
   while its comment says it survives transient failures and stops on a
   permanent rejection.
2. `OrphanInterface` (`internal/session/manager.go:218`). A reconnect can evict
   a session between its registration and its `prov.Ensure`. The eviction then
   removes an interface that does not exist yet, the overtaken Establish
   creates it, and its Teardown no longer finds an entry. The interface stays.
3. `SourceExclusion` (`cmd/gremlind/main.go:743`). The comment on
   `ExcludeSubnets` (`internal/config/config.go:333`) says a rule is skipped if
   the server resolves into one of its excluded prefixes. The code leaves out
   only those addresses of the server: the rule applies if another one
   qualifies. `Admits`, and with it `DialFollowsSourceRules`, states the code's
   reading; `ExclusionSkipsRule` states the comment's.

Related consequences of working outside the lock are in the hazards of
`PROJECT.json`: with a pinned interface name, late calls of a superseded
session hit its successor's interface, which is why `LiveSessionIntact` is
about generated names; a monitor started after its session was evicted is not
cancelled; and the rules added by an `Apply` that then fails inside Establish
stay. At the client, sender and closer share `writeSeq` without a lock, so that
after a cancellation two frames may be sealed with one number. Nothing in the
repository says otherwise, and the session ends all the same: `FramesOpen` holds
until the closer begins to write, and `EndsTogether` in any case.

Smaller differences between comments and code, met while modelling:

- `main.go`, `runNetlinkd`: pinned names are said to live outside the `grem`
  prefix, and a same-named device that is not a GRE tunnel never to be swept.
  `IsGeneratedName` refuses only names `grem` followed by hex digits, so
  `gremlab` can be pinned, and `RemovePrefix` sweeps it whatever its kind.
- `codec.go`, `addr`: an address is said to take 4 or 16 bytes. One with a zone
  takes more, and the decoder refuses it; `CodecExact` states both.
- `healthcheck.go`, `Loop`: said to return nil on cancellation and an error at
  the threshold. A ping killed by the cancellation counts as a failure and may
  reach the threshold; without `reconnect` the threshold does not end the loop.
  `EndsForCause` states what holds, and is proved.
- `secure.go`, `WriteMessage`: the sequence number is advanced before the write,
  which can fail. The connection is not used afterwards.

## Proofs

TLAPS proves the following for all values of the constants that satisfy the
named assumptions of the modules (`PoolAssumption`, `ConfigAssumption`,
`ManagerAssumption`, `ServerAssumption`, `SystemAssumption`, `ClampAssumption`,
`BrokerAssumption`, `MTUAssumption`, `DialerAssumption`, `HealthAssumption`,
`TimingAssumption`). These say that special values are distinct from ordinary ones, that bounds are
positive, and what config validation guarantees: static leases and pinned names
are unique, and static leases are in the pool and not reserved. `TimingAssumption` is the one
described under Fairness, and asks for at least two sequence numbers.

**`SessionManagerProofs`.** `RegistryCorrect`: the two indexes, the pool, the
leases and the connections agree. The inductive invariant is
`TypeOK /\ ConnInv /\ RegInv`. The five registry properties need each other:
that an eviction releases the right address needs the indexes to agree, that
the pool matches needs every registered session to hold its client's lease,
and so on. `ConnInv` adds what a call in progress knows of its own entry.

`SameAddress` and `RefusalKeepsSessions` follow from that invariant as action
properties: only the client's own session, evicted in the same step, can be
using the address it has a lease on. `Refinement`: every step of
`SessionManager` is a step of `AddressLeases` or leaves its variables
unchanged. The lemma `AllocInner` about `allocInnerLocked` carries the argument
for grants.

`Intact`: a registered, granted session keeps its interface and its up hook,
assuming generated names and keys that are not drawn twice (`DistinctDraws`: in
the code a repetition has probability 2^-32 per draw). The invariant `PlaneInv`
says that entries have different names, that what `removeAndNotify` works on is
never registered again, and that a registered session has its interface from
`Ensure` on. `OwnerOrSuccessor` is proved from distinct keys, assuming key
generation does not fail.

**`ControlServerProofs`.** `SlotsCorrect`, `TeardownOnce`, `ShutdownIsClean`,
from an invariant that relates each handler's position to the slots, the grant
and the wait group, and states each count as a cardinality, including the slot
`reserve` holds before the handler exists.

**`ServerSystemProofs`.** `Composition`: every step of the composed server is a
step, or none, of `ControlServer` and one, or none, of `SessionManager`, so the
theorems of both hold of it. `TornDown` and `NothingLeft` need both at once.
Their invariant says where a handler is when its call is where it is, and that
whatever exists of an entry in the data plane is still registered, is being
cleared away by somebody, belongs to a call still under way, or is in `lost`.
They assume distinct keys, removals that succeed, and no `Ensure` that fails and
leaves its interface: the code has no second attempt at either.

`ValidatedIsPromised` is where `ConfigAssumption` comes from: a configuration
that `ValidateServer` accepts, whatever its clients, names and pool, has static
leases that are unique, in the pool and not the server's address, and pinned
names that are unique, short enough and never the name of a session key.
`ConfigsUsable` says it of the configurations of the run.

**`MssClampProofs`.** `TypeCorrect`, `NothingMissed`, `NothingLeftBehind` and
`OwnRulesOnly`, for any number of sessions and directions, any reloads and any
failing commands. `HandleInv`: handles in the chain are distinct, and what a
deletion still has to do in the same generation of the table are its own rules.
`StageInv` ties the three goroutines of a session to each other. `WatchInv` says
how far an `Apply` or a check has come with its rules while no event is unread,
and `RemovalInv` that a removal leaves at most a late rule among those it is
past. Each is stated per session, so that a step of one session is shown once
to leave the others' part alone (lemmas `Apart` and `Same`).

**`ProvisionBrokerProofs`.** `OnlyOwnNames` and `SweepIsComplete` hold however
requests overlap, for any names with the `grem` prefix, pinned and refused ones
among them. `Shape` says that an index a handler resolved belongs to the
handler's own name or to no link; so a deletion by index takes away the link of
that name or nothing, although the name may have changed hands since. `AnswersStayTrue` is about names whose calls
do not overlap, whatever calls on other names do.

**`DialerProofs`.** Of `TunnelMTU`, `EndsAlwaysAgree`, `PacketsFit`,
`ClampedSegmentsFit` for every underlay MTU up to 65536 and every cap, and
`MTUTypeCorrect`.

Of `Dialer`, `DialerTypeCorrect`, `LastAddressAsked` and `TunnelGone`, for any
number of attempts and addresses. `Underway` says that outside the loop test an
attempt is under way, `Remembered` that `lastInner` and the request follow the
latest grant, and `Plane` which of interface, hook and monitor exist where.

`BackoffFollowsFailures`: the wait after n failures in a row is the least one
doubled n - 1 times, or the cap, and a session starts the row anew. The code only ever
doubles the previous value and cuts it off; `Waits` relates that value to the
failures counted, and the lemma `DelayGrows` says that doubling a value already
cut off gives the same as cutting off at the end. `Pow2` is a recursive
function. That it exists and doubles is shown by induction, which the prover
accepts in a first-order form: a set of numbers that is not all of them leaves
out a least one (`LeastNumber`, from the well-foundedness of `<`).

Of `SourceAddress`, for any list of interfaces with any of the model's kinds of
address, any server addresses and any list of rules: `ChoicesFollowRules` (an
address chosen is one that the first rule able to serve admits; the kernel
chooses only if no rule can serve and the fallback allows it; a refusal means
that no rule could serve or one names a missing interface) and
`HotplugIsHarmless` (one more interface, wherever it is listed, never leaves a
dialer that had an address without one). `SourceRulesFollowed` says both of the
hosts of the run.

**`ControlLinkProofs`.** `LinkTypeCorrect`, `LinkFramesOpen`,
`LinkTimeoutMeansDeath` and `LinkEndsTogether`, for every timing that satisfies
`TimingAssumption` and every modulus of the sequence numbers. None of the last
three is inductive, and the invariant `LinkInv` has ten parts:

- `PhaseInv` and `FinInv` say where the goroutines of both ends may be at the
  same time, and that the close of one end is on its way to the other;
- `ChainInv`: the frames on a wire carry consecutive numbers, from the one the
  reader expects to the one the writer uses next, to the server only until the
  closer begins to write;
- `AgeInv`: frames are no older than those before them;
- `ServerDeadline` and `ClientDeadline`: on a live path each read deadline leaves
  room for the frame that will renew it, wherever that is: not sealed yet, on
  its way to the server, or on its way back;
- `DeathInv`, `CancelInv` and `EndInv`: the ticks since the event, together with
  what each end may still need, stay within the bound.

A timeout with a live path contradicts a deadline part at the tick that would
bring it to zero. `EndsTogether` follows from the last three, because time does not pass while
something is due. The provers are kept away from sequences of
frames: an Effect lemma says what each action does to each variable, and a View
lemma what that means for the few facts about a wire that the invariant uses
(its count, the ages of its first and last frame, whether the chain holds).

**`LoopProofs`.** Of `AllocLoop`, `LoopCorrect`, from the invariant that the used
set is the initial one plus the skipped addresses, all of which are claimed. Of
`HealthCheck`, `HealthTypeCorrect`, `ActsExactlyAtThreshold` and
`ReturnsOnlyForCause` for any number of sizes and any threshold. The invariant
gives the counter as a function of the failed rounds since the last good one;
the lemma `FailedRound` carries the arithmetic.

What is proved is also checked by a run, except `Composition`, most type
invariants and `EndsForCause`, which are left to the prover.

Only model-checked:

- all liveness properties: temporal reasoning under fairness is outside the
  prover's reach;
- `CodecExact`. The encoders and decoders of `WireCodec` are folds, which take an
  operator as an argument, and no installed prover can instantiate the library's
  facts about those. Their bytes are quotients and remainders by a `Base` that is
  not a number, which is non-linear arithmetic.

## Not modelled

- Cryptography: key derivation, the ciphers, the proofs of identity. The models
  see a frame that opens or does not.
- The iptables backend of `mssclamp`, for which `MonitorLoop` returns at once.
- The decoy answers of the control server to peers that do not speak the
  protocol: fixed text, after which the handshake has failed as in any other way.
- Netlink message encoding and the FOU receive port.
- Configuration parsing, defaults and the client's validation, which reads files
  once at start.
- Crashes of the server or the dialer. Nothing is persisted, and of the daemons
  only the broker sweeps when it starts, which `ProvisionBroker` models.
- The admin socket (a read-only listing under the manager's lock) and process
  hardening (system calls made once at start).
