# Tachyon Core: TLA+ models, checks and proofs

Tachyon Core captures the UDP traffic of games on a client machine, carries it
over its own datagram protocol (TGP) to a relay server, and relays it from
there. This directory models the stateful parts of the Go code under `src/`,
model-checks them with TLC on small instances, and proves most of the safety
properties with TLAPS for every value of the constants.

- `PROJECT.json` maps every definition to the lines it models, and lists runs,
  mutants (faults a property must detect), findings, hazards and theorems.
- Run a configuration with `tlc -config X.cfg M`, check proofs with `tlapm M.tla`.

## 1. Inventory

| Component (code) | State | Operations | Interacts with | Hard behaviour | What makes it correct |
|---|---|---|---|---|---|
| Captured-UDP registry (`capturedudp/registry.go`) | attachments, one-use token, controller, policy generations, flow leases, buffer budget | attach, authenticate, prepare/commit/abort/disable, open/close/touch flow, submit, reply, release, reap, Close | named-pipe server, helper, TGP client | calls that read the clock before the lock, transactions outliving their controller, leases across generations, counters released late | authority bound to one transport, no generation twice, leases only of the generation in force, exact buffer accounting, leases live out their TTL |
| Forward error correction (`tgp/fec.go`, `fec_adaptive.go`, FEC part of `session.go`) | sender groups, parity, packet window, receive buffer, tombstones | SendPacket, flush loop, AddPacket, adaptation | datagram network, stream delivery | loss, duplication, reordering, parity changes in mid-group, limits | a payload is delivered at most once, never corrupted, never after its size or the encoder refused it; groups are flushed |
| Datagram session (`tgp/session.go`) | keys, packet numbers, remote, streams | send, read loop, migrate, close | transport, FEC, router | source changes, close while reading | see FEC and router |
| Client manager (`tgp/client_manager.go`) | session, dial in flight, read loops, closed | SendPacket, sessionFor, resetSession, readLoop, Close | session, dialler | several callers, close during a dial, failure of an already replaced session | single-flight dial, nothing installed after Close, no session without owner, Close returns |
| Relay router (`tgp/relay.go`, `path_control.go`) | sessions, sources, paths, active path, replay set, token bucket, tombstones | register, unregister, path request and response, route data, expiry, eviction, close | relay, sessions, network | two locked sections per path message, replays, expiry, contention for a source | tables agree, source never stolen, return path moves only on proof, quota in every window |
| Relay (`tgp/relay.go`) | handshake queue, cached acks, served sessions, closed | accept loop, ack replay, serve, Close | router, handshake | repeated and delayed Hellos, close during an accept | one session per Hello, bounded acks, every connection has an owner, Close completes |
| Handshake client (`tgp/handshake.go`) | attempt, deadlines, accepted ack | dial, repeat Hello, accept ack, enable path authentication, make session | multipath transport, relay | ack, attempt deadline and dial deadline together; every way out must close the transport | a dial ends; a failed dial with valid options leaves no socket or goroutine |
| Multipath transport (`tgp/multipath_transport.go`) | sockets, live paths, merged channel, terminal error, nonces | read loop per path, write fan-out, refresh, Close | network, handshake, session | last path fails during Close or a write, a reader blocked on a full channel | no success unsent, channel closed after its senders, readers told |
| Named pipe (`capturedudp/namedpipe_*.go`) | pending requests, request identifiers, writer queue, controller session | call, resolve, reconnect, serve, deliver, close | registry, helper runtime | late answers, partial frames, close while enqueueing, reconnect while calling | each call gets its own answer and returns, controller revoked before the next connection |
| Route transaction and journal (`tun/routes*.go`) | route table, ownership journal, machine lock, transition | prepare, add, record, rollback, delete, release, reconcile | operating system, other Core processes | crash between two steps, failing delete or journal write, foreign edits | an owned route is journaled until gone, nothing foreign claimed, recovery complete |
| Helper runtime (`helper/runtime.go`, `service_windows.go`) | one-shot stops, run result, health record, diagnostic file | Run, Shutdown, stop and close goroutines, monitor | capture provider, injector, pipe client | stop racing its deadline, fail-stop, stale health record | one stop, clean exit only when confirmed, the service ends |
| Server UDP pool (`app/server_handler.go`) | flows by key, counts and reservations, readers | forward, dial, read, idle removal, Close | relay, game servers | dial outside the lock, close during a dial | counters exact, sockets bounded, nothing leaked |
| Client application and packet pipeline (`app/app.go`, `app/client_handler.go`, `pipeline/pipeline.go`) | device, routes, manager, HTTP bridge, deferred releases, pipeline goroutine | start, fail half-way, serve, shut down; read a packet, send it | route transaction, client manager, TUN device | shutdown while a dial, read loops and an unawaited pipeline are busy | nobody writes to a closed device, routes end before the device, nothing is left behind, the client ends |
| Routing, pidtrack, observability, IPC, config, CLI | small tables | classify, store, publish | the pipeline | refresh while deciding | see the plan |

`PROJECT.json` lists all components, with the reason for each that is not
modelled (pure encodings and cryptography, operating-system I/O, front ends),
and under `hazards` the places where the code is hard to test.

## 2. Modules and how they correspond to the code

| Module | Models |
|---|---|
| `CapturedRegistry` | `internal/capturedudp/registry.go` |
| `LeaseAuthority` | what the registry promises: who may hold leases, of which generation |
| `CapturedRegistryProofs` | theorems about `CapturedRegistry` |
| `FECSession`, `FECSessionProofs` | sending and receiving end of FEC, with the network between them, and theorems |
| `ClientManager` | `internal/tgp/client_manager.go` |
| `ClientRuntime` (extends `ClientManager`), `ClientRuntimeProofs` | `runClient` of `internal/app/app.go` in TUN mode with the loop of `internal/pipeline/pipeline.go`, and theorems about both modules |
| `RelayRouter` | `relayTransportRouter`, `relaySessionTransport`, path control |
| `Relay` (extends `RelayRouter`), `RelayProofs` | accept loop, cached acks, serving goroutines, Close, and theorems about both modules |
| `RouteJournal`, `RouteJournalProofs` | `internal/tun/routes.go`, `routes_windows_journal.go`, `routes_windows.go`, and theorems |
| `NamedPipeChannel` | one pipe instance and its frames |
| `NamedPipeServer`, `NamedPipeClient` | `internal/capturedudp/namedpipe_server.go` with the listener of `namedpipe_windows.go`; `namedpipe_client.go` |
| `NamedPipe`, `NamedPipeProofs` | both ends on one pipe, fairness and properties, and theorems |
| `HelperRuntime` | `internal/helper/runtime.go` under `service_windows.go` |
| `UDPRelayPool`, `UDPRelayPoolProofs` | `internal/app/server_handler.go`, and theorems |
| `MultipathTransport` | `internal/tgp/multipath_transport.go` |
| `Handshake` (extends `MultipathTransport`), `HandshakeProofs` | the dialer of `internal/tgp/handshake.go` and the session's use of the transport, and theorems about both |
| `MC*` | model values and symmetry for TLC; no definition is replaced |

In all modules a step is one critical section of the mutex, or one blocking
operation between two of them. What a goroutine captured in one section and
uses in the next is a variable.

**CapturedRegistry.** Exported calls of `TransportAttachment`, `Controller` and
`Registry` are actions (`AttachTransport`, `Authenticate`, `prepareGeneration`,
`commitGeneration`, `openFlow`, `acceptDatagram`, `resolveReply`,
`releaseBuffer`, `reap`, `Close`...). `openFlow`, `acceptDatagram` and
`resolveReply` read the clock before they take `r.mu`, so they use a reading up
to `MaxDelay` ticks old. Payload bytes are reduced to their size. Rate limits
and failures of the random source are refusals that leave this state alone.
`LeaseAuthority` keeps only authority, generation and lease holders; the mapping
in `CapturedRegistry` forgets tokens, sequence numbers, times and buffers.

**FECSession.** One direction of a session. A payload is a number, a parity
shard the word it was computed from; decoding any `DataShards` shards of one
encoding yields that word, decoding shards of two encodings yields `Garbage`.
Packets prepared under `fecMu` wait in `outbox`, as they are written after the
lock is released; the network loses, duplicates, delays and reorders. `SendPacket`
has two kinds of error, and they promise different things. `nextFECShards` refuses
a payload for its size or because the encoder does (`refused`): it then never
reaches the peer. A write that fails (`sendFails`: pacer, `Seal` or the transport,
before or after the datagram left) gives up the rest of the call's datagrams; the
payload stays in its group, and the peer may still have it from the parity or the
flush. Nothing is claimed of such an error. The other direction only drives the
parity controller and is an input.

**ClientManager.** Dials are numbered; a number also names the `dialDone`
channel and the session of that dial. `pc` says where each caller is between the
locked sections of `sessionFor`, `SendPacket` and `resetSession`. Dialling and
sessions are external: a dial returns a session or an error, a session may die
at any time.

**ClientRuntime.** `run` is the place of `runClient`: one start-up step per
resource, the `select` it serves in, and the steps of the shutdown. `deferred`
counts the deferred calls still to run, which happen in the reverse order of
`Releases`; a start-up step that fails unwinds those registered so far. The
second `Close` of the route transaction is the deferred one: `routes` is "kept"
after a first failed rollback and "left" when nobody is left to try again (the
journal then has it, see `RouteJournal`). The pipeline is the caller `Pipeline`
of the manager; `runClient` cancels it and does not wait for it. The other
callers in the instance stand for further users of the manager: the program
has none in TUN mode, the manager is written for many. Device, route transaction
and HTTP server are external calls that return and may fail.

**RelayRouter.** One connection is one `relaySessionTransport`. A cookie is the
tuple its HMAC is computed from, a nonce the second it was made in (nonces carry
a timestamp). `stage`, `held` and `readAt` are what `handlePathRequest` and
`handlePathResponse` captured before they lock again. Messages that do not
authenticate change nothing and have no action. The ghosts `spent`, `respent`,
`granted`, `windowFrom` observe replays and the challenge quota.

**Relay.** The accept loop is a program with places (`accept`): a Hello is
taken, admitted, registered, acknowledged, remembered and added; Close and the
end of sessions may happen between any two of them. `unregister` of the router
and the removal of the cached ack are one critical section and one action here.
Three more errors would end
the accept loop and have no action: of the key derivation (`relay.go:195`), of the
encoding of the acknowledgment (`:204`) and of `NewDatagramSession` (`:225`). The last
two close the transport, as the failure of the write that is modelled does; their
inputs were validated before.

**RouteJournal.** Several Core processes share the route table, the journal and
the machine lock; each is a program (`op[p].pc`) whose steps are the calls that
leave the process: a route-table call, a read-modify-write of the journal, an
acquisition of the lock. Such a call may fail within a budget (`MaxFaults`): a
journal write or a deletion before or after it took effect, a creation
(`CreateIpForwardEntry2`) only without leaving a row. A process may die between any two steps
(`MaxCrashes`), which leaves its routes as "orphan", its journal entries, and
its lock as abandoned. Other software adds a route where nobody has one and
deletes any route; it does not overwrite a route Tachyon holds. Get, compare and
delete of one row are one step (the operator deletes the row it has just read).
The transaction ID, signatures and the encoding of entries are left out.

**NamedPipe.** A pipe instance is two sequences of frames. A failing write may
leave nothing, a part (`cut`) or all of its frame in the stream; a cut frame is
completed with bytes of the next one, and what comes out of it is garbage or a
frame with foreign bytes. The client's `mu` is free between steps; `requestMu`
is held from the allocation of an identifier to the end of its write, as in
`call`. The server side is the listener loop, the serve loop, callers of
`DeliverReply` and the writer goroutine with its bounded queue. What operations
do to the registry is `CapturedRegistry`; here they succeed or are refused. The
client also compares the operation of a response with its request's
(`namedpipe_client.go:418`); the model leaves that check out, so it accepts more than
the code, and `AnswerMatches` holds without it.
`AttachTransport` is taken to succeed, and `Run` is not called again after it
has stopped.

**HelperRuntime.** `Run` with its deferred cleanup, `Shutdown`, the goroutine
that stops the provider, the one that closes the injector, the monitor and the
service program. A deadline may pass at any moment while somebody waits for it; the
provider and the injector may fail or never answer. `refreshHealth` is two steps,
as it reads the record under one lock and writes it back under another: the
cleanup state is recomputed under the second lock, the lifecycle is carried over
from the first, so an update between the two is lost. Of the lifecycle the model
keeps whether it says that a stop timed out (`stopTimedOut`). A refresh just before
`writeDiagnostic` is merged with the one inside.

**UDPRelayPool.** A flow is a slot; callers are between reservation, dial,
publication and write, readers between reading, removal and closing.

**MultipathTransport and Handshake.** One read loop per path feeds the merged
channel; a write goes out on all live paths and returns with the first success
or the last failure; the transport ends by `Close` or with its last path. The
dialer repeats Hello, accepts an acknowledgment, enables path authentication and
makes the session, which then reads, writes, refreshes and closes. Packets are
acknowledgments, other packets and challenges; the network supplies any of them
at any time. `options` is an input of the dial that never changes: FEC
options that `NewDatagramSession` takes, or refuses after the handshake
(`sessionRefused`), which is a failed dial that leaves the transport open.

## 3. Runs

Ten runs pass, one for each component or pair of components; two find a
disagreement (section 6). Closely related invariants of one component are the
named parts of one conjunction.

| Run | Instance | States | Shows |
|---|---|---|---|
| `registry` | 2 transports, 2 controllers, 2 generations, 2 flow IDs, 2 buffer leases, clock readings up to 2 old | 0.28 M | `AuthorityBound`, `FlowsOfActiveGeneration`, `PreparedIsCurrent`, `CountersExact` (`BufferAccounting`, `AcceptedOnce`, `FlowLimit`), `LeaseHonoured`, and the refinement `ImplementsAuthority` |
| `client` | `ClientRuntime` with the pipeline and 1 more caller, 2 dials, fair goroutines | 0.13 M | `ClientSound` (`RuntimeTypeOK`, `WritersHaveDevice`, `RoutesHaveDevice`, `ReturnedIsClean`); of the manager `SingleFlight`, `ReturnedMeansQuiet`, `FailureIsLocal`; liveness `EverybodyReleased` (`NobodyWaitsForever`, `ClientReturns`, `PipelineEnds`) |
| `fec` | 2 payloads of 2 sizes (one may be refused), adaptive parity, 1 group in the buffer, 3 tombstones, packet window 2, writes that fail, fair flush loop | 0.69 M | `DeliveredOnce`, `RefusedNotDelivered`, `NeverGarbage`, `BufferSound` (`TypeOK` with the limits and parity at least 1, `NeverOvercounts`, `GroupsDistinct`); liveness `GroupFlushed` |
| `router` | 2 connections, 2 session IDs, 3 sources, 2 paths per session, a burst of 2, 2 challenges | 0.51 M | `PathsSound` (`SourcesConsistent`, `ActiveIsAuthorized`, `PathBound`), `ChallengesBounded` (`CookieOnce`, `ChallengeRate`), `ReturnPathProven`, `NoTheft` |
| `relay` | 1 Hello from 2 addresses, 2 connections, 1 session slot, fair goroutines | 0.32 M | `HelloSound` (`HelloOnce`, `AckBudget`, `CachedAckCurrent`), `NoOrphanConnection`; liveness `CloseReleases` |
| `route_journal` | 2 processes, 2 adapters, 2 destinations they compete for, 2 faults, 1 crash, 2 starts each | 0.87 M | `OwnershipKept` (`TypeOK`, `OwnedIsJournaled`, `ClosedIsClean`), `ForeignUnclaimed`, `RecoveryComplete`, `LiveRoutesKept` |
| `named_pipe` | 2 callers, 1 delivering goroutine, queue of 1, 2 connections, 1 fault | 0.13 M | `PipeSound` (`TypeOK`, `ProtocolKept`, `PendingIsWaitedFor`, `SendNeverBlocks`, `DoneIsDrained`), `AnswerMatches`, `RevokedBeforeNext`; liveness `EveryoneReturns` (`EveryCallReturns`, `EveryWriteReturns`, `CleanupEnds`) |
| `helper` | one service | 0.63 M | `StopSound` (`TypeOK`, `StopOnce`, `CleanStopConfirmed`, `RunCleansUp`), `CleanupForward`; liveness `HelperEnds` |
| `relay_pool` | 2 workers, 3 admissible keys of 2 sessions and a denied one, limits of 2 | 0.15 M | `PoolSound` (`TypeOK`, `CountersExact`, `SocketBound`, `AdmittedIsKept`), `ReaderReachable`; liveness `CloseDrains` |
| `dial` | 2 paths, 2 attempts, 2 nonces, valid and invalid options | 0.36 M | `TransportSound` (`TypeOK`, `NoSendAfterClose`, `ClosedOnce`, `AnswerReady`), `OutcomeSound` (`NilMeansSent`, `FailedIsClosed`); liveness `EverybodyTold` (`DialEnds`, `ReadersTold`) |
| `route_v_close`, `relay_v_accept` | small | | violated, see section 6 |

Deadlock is checked in `relay_pool`. The other systems may come to rest (closed,
bounds reached, nothing sent).

### Bounds, and why they are enough

- *Registry.* Two transports and controllers are needed for anything that
  survives a re-attachment; two generations for a commit over an old lease; a
  table of one with two flow IDs makes the limit bite. Two buffer leases of sizes
  3 and 4 against 6 bytes and one object per direction meet both limits.
  `MaxClock` and `MaxDelay` exceed `FlowTTL`: leases expire, and a stale reading
  can be older than a whole lease.
- *FEC.* `DataShards = 2` with one or two parity shards is the smallest code
  that can lose, repair, and receive too much. The network drops a packet when
  its group is older than `MaxAge`. `MaxAge < GroupLifetime`:
  the last packet of a group arrives before the receive buffer forgets the group,
  and no tombstone has to make room for another. The code guarantees neither,
  see section 6; they are the hypotheses `DatagramsDieFirst` and
  `TombstonesSuffice` of the theorem about `DeliveredOnce`, which covers tables
  that do overflow with entries old enough.
- *Client.* Two callers and two dials give a waiter, a replaced session and a
  late failure of the old one; start-up, failures and interrupts are not bounded.
  The safety properties are proved for any number of callers and dials.
- *Router.* A tick is one second. In the code a cookie carries the whole second
  of its challenge and the replay record the exact time of its response, which
  is later than the beginning of that second (unless it falls on its first
  nanosecond); the record therefore outlives the cookie. In whole seconds the
  two would expire together, so the model lets a response come in a later second
  than its challenge. A nonce has random bytes beside its second; the model
  takes requests of one source in one second to be the same request. Sources
  outnumber `MaxPaths`, `PathLife` and `CookieLife` are shorter than the clock's
  range, and `WindowStarts` lets the observer of the quota start over in the
  middle of a run. `MaxPackets` bounds data in the queues of all sessions,
  `MaxChallenges` the different challenges ever made: two are needed for a
  migration that evicts, or for two sessions that compete for a source (a request
  repeated in the same second spends a token and makes no other challenge, so the
  quota can be exhausted). `MCView` hides what is
  left of ended connections: they are not registered, nothing reads for them and
  no message for them is looked at, so states that differ only in that have the
  same behaviours (the number of challenges, which the bound depends on, stays
  in the view).
- *Relay.* `MaxSkew` lets a client's clock run ahead, so a Hello's expiry may lie
  beyond what the relay admits. `MaxStall < TombLife`: the accept loop does not
  stay on one Hello for as long as a tombstone lives. `MaxTombstones` has room
  for every ended session; the set is bounded by design (4096), and a Hello
  whose tombstone was evicted could make a second session. Additional paths are
  off in this run (`AllowPaths = FALSE`); `router` covers them.
- *Route journal.* Process p plans both destinations and q one of them, so they
  compete. Two faults are needed for a failed journal write whose undo fails
  too, and for a delete whose verifying read fails; a crash, a second start and
  two interface indexes per adapter let an adapter vanish or return with another
  index between the claim and the recovery.
- *Named pipe.* A queue of one makes a second writer sleep; two connections let
  a call captured on the first write to it after the second is up; the one fault
  (a failed or cut write, a failed read) may strike anywhere. `MaxId` leaves an
  identifier after both callers have called once.
- *Helper.* Nothing is bounded but the number of stop requests (one).
- *Relay pool.* With limits of two, three keys and two workers, reservations and
  open flows meet both limits at once; three slots let a flow be dialled while a
  removed one is still closing.
- *Dial.* Two paths give a last and a not-last failure; the channel
  holds one packet per path, as in the code, so a read loop can be left holding
  one; two nonces give a challenge for a replaced nonce.

### Fairness

- `FECSession!FairSpec`: the flush loop's ticker and time.
- `ClientRuntime!FairRuntimeSpec`: a goroutine that can run does, and a dial
  returns (its context is cancelled by Close and bounded by the handshake's
  attempts; `DialEnds` of run `dial` is that fact). Start-up calls and the Close
  of the route transaction return (`route_v_close` shows when the latter does
  not), `httpServer.Shutdown` by its timeout, a read of a closed device too.
  Nothing obliges callers to call, sessions or subsystems to fail, or anybody to
  interrupt the client.
- `Relay!FairRelaySpec`: the accept loop, the router's close, `session.Close`
  and the closing goroutines go on; a serving goroutine returns once its session
  is closed (its stream ends). No fairness for the network, for idle timeouts or
  for Close itself.
- `RouteJournal!FairSpec` (only `route_v_close`): a process goes on while it
  can; system calls return.
- `NamedPipe!FairSpec`: Run, callers, server, writers and the writer goroutine
  go on; a write and a handshake read end by their timeouts, an incomplete frame
  by the server's idle timeout. No caller's context ends of necessity.
- `HelperRuntime!FairSpec`: `Run` and the other goroutines go on, deadlines
  somebody waits for pass. The monitor's `select` chooses at random between a tick and its end,
  hence strong fairness for leaving. No answer of the provider or injector is
  assumed.
- `UDPRelayPool!FairSpec`: calls under way go on, dials end by their timeout, a
  reader of a closed connection gets an error. No idle timeout, no Close.
- `Handshake!FairSpec`: the dialer, the transport's goroutines and the deadlines
  go on; a write to a UDP socket ends. Nothing of the network.

### Mutants

For each property of a passing run `PROJECT.json` names a faulty variant of one
mapped definition (an operator just before it, named
`<definition>_<fault>` or, in the pipe modules, `X_<fault>`): a token that is
not consumed, an off-by-one in a limit, a missing re-check after a lock, a
channel that is not closed. Replacing the definition by it makes TLC report the
property violated under the same configuration.

## 4. Proofs

The proof modules argue by an inductive invariant, one lemma per action or
group of actions and one step per conjunct an action can disturb.

**CapturedRegistryProofs.** `RegistryInv` is `TypeOK`, finiteness of the set of
transactions, and the safety invariants, strengthened by
- `TokenUnspent`: a transport with a controller has been attached, and a pending
  token belongs to a transport that never had a controller. Without it a second
  controller on one transport cannot be excluded, and `AuthorityBound` is not
  preserved by `Authenticate`;
- `ActiveHasController`: a generation in force needs a live controller, and is
  at most `lastGeneration`. `PreparedIsCurrent` and `GenerationsIncrease` need
  it when a transaction is committed.

`HistoryInv` adds what happened to leases and datagrams: `LeasesDistinct` (open
leases have different nonces, none ahead of the counter, and record no activity
older than themselves), `AcceptedInOrder` (no datagram passed on is newer than the
sequence number its lease records), and the counts. Every step is first shown to
be of one of a few kinds (`StepKind`: withdraw, install, lapse, grant, renew,
accept); the history, and the refinement of `LeaseAuthority`, are then argued
about the kinds and not about twenty actions. `AcceptedOnce` and the abstract
guard of `Pass` both rest on `AcceptedInOrder`.

`BudgetExact` is the buffer accounting. Its byte count is `MapThenSumSet`, a fold:
`TallyRecursion` shows that the recursive function behind it exists on the subsets
of a finite set, `TallyRemove` that its value does not depend on the order of
summation, `TallyAgrees` that it depends only on the sizes of the members. All
three go by induction on the cardinality, through `SetInduction`, which derives
induction over sets of numbers from the library's `WFMin` (a theorem without
operator parameters). From the exact sums the underflow test of `releaseBuffer`
is never true.

Theorems: `RegistryInvariant`, `TypeCorrect`, `AuthorityIsBound`,
`LeasesAreCurrent`, `TransactionsAreCurrent`, `HistoryInvariant`,
`CountersAreExact`, the action properties `GenerationsOnlyIncrease` and
`LeasesAreHonoured`, and `RegistryImplementsAuthority`: the registry implements
the abstract authority for every value of its constants. Assumptions: `Nobody` is no attachment or controller, limits
and bounds are natural numbers, flow IDs and buffer slots are finite.

**ClientRuntimeProofs.** For `ClientManager`, `Inv` adds to the types and to `NoOrphanSession`:
- `DialInv`: at most one caller is between starting and installing a dial, its
  number is the last one, and each unannounced dial has exactly one caller that
  will announce it;
- `SessionInv`: which sessions have a read loop at which place of a caller;
- `CloseInv`: what each stage of Close may rely on, in particular that the dial
  Close waits for is the only one still in flight, so that when it has returned
  every read loop is done.

Theorems: `ManagerInvariant`, `ManagerTypes`, `OneDialAtATime`,
`NothingInstalledAfterClose`, `SessionsHaveOwners`, `CloseLeavesNothing`,
`FailuresAreLocal` (an action property). Assumption: `MaxDials` is a natural
number; the set of callers is arbitrary.

For `ClientRuntime`, `RuntimeUsesManager` shows that `RuntimeSpec` implies
the manager's `Spec` (every step of the runtime is one of the manager or leaves
it alone), so the manager's theorems hold in the running client;
`ClientCloseLeavesNothing` is one of them. `ClientShutdownSound` proves
`ClientSound` from `RuntimeInv`: which releases are still to run at each place
(`Progress`), and that the manager is untouched, or its release is still to run,
or its Close has returned (`ManagerOwned`). With the device closed only the
first or the last can be the case, and then `ReturnedMeansQuiet` leaves no
writer. Assumption: the pipeline is a caller.

**FECSessionProofs.** `Inv` follows a payload on its way: an open group of the
sender holds it (`Held`), shards prepared or in the network name it (`Sent`), and a
group of the receive buffer may still reconstruct it (`Pending`). These are its
claims, and `ClaimsInv` says that all claims to a payload are of one group and
one place, and only to numbers that were given out. The other parts:
- `SenderInv` and `PacketInv`: counters, open groups, and shards as the sender
  makes them (`WellMade`): every parity shard of an encoding carries its word;
- `DedupInv`: the packet window remembers nothing older than itself;
- `Books`: limits, types, one place for each group, the byte count at most what the
  groups retain, and `Coherent`, which keeps shards of two encodings apart: a
  group's shards all carry the total that its size came from. `NeverGarbage`
  rests on it;
- `RefusedInv`: a payload that `nextFECShards` refused is named by no shard, and the group it stays in
  cannot be encoded. Without the second half the flush loop could code it later;
- `DeliveryInv`: what was delivered had been offered.

`OnceInv` is needed for `DeliveredOnce`: whatever was delivered stays settled at the
receiver (its group is completed, or its place is taken) for as long as a
datagram of its group can still arrive, no group was heard of before it was opened,
and nothing pending has been delivered. It is preserved only if
datagrams are gone before their group expires at the receiver
(`DatagramsDieFirst`, of the constants) and a tombstone that makes room for
another has outlived its datagrams (`TombstonesSuffice`, of the behaviour).
Section 6 shows what happens otherwise; run `fec` satisfies both. A session with
fewer than `MaxCompleted - 1` payloads cannot fill the table, as every group is
opened by a payload of its own (`GroupsCounted`) and tombstones have distinct ids:
`ShortSessionsDeliverOnce` needs no condition on the behaviour.

An accepted shard is argued about in two stages: `AddPacketOutcome` says what each
of its branches does to the buffer (`Advances`) and to the stream (`Recovers`,
`Handed`), and the invariant is shown to survive that. The sender's actions
other than SendPacket go through `SenderStep` (no claim is new, except that a
held payload may be sent); `SendPacket` through `Sends`. Byte counts are folds; the
facts about sums are proved as in `CapturedRegistryProofs`.
Theorems: `InvHolds`, `BufferIsSound`, `RefusedStaysHome`, `NothingInvented`,
`DeliveredAtMostOnce`, `ShortSessionsDeliverOnce`. Assumptions: options and limits as `OptionsAssumption` and
`LimitsAssumption` state them, any number of streams, payloads and ticks.

**RelayProofs, the router.** `Inv` is the types and three parts that hardly touch
one another:
- `RouteInv`: the table of sources is the inverse of the paths of the registered
  sessions, a registered session's active path is one of its paths, and no
  session has more paths than `MaxPaths`;
- `CookieInv`: a spent cookie has a replay record that outlives it, or has itself
  expired; the response under way, whose clock was read before the lock, was
  still valid at that reading, so it is caught if it was spent in the meantime.
  `CookieOnce` alone is not inductive: nothing in it says that the record is
  still there;
- `RateInv`: what was granted in the observer's window, plus the tokens left, is
  at most `Burst` plus `Rate` times the time from the window's start to the last
  refill.

Theorems: `InvHolds`, `PathsAreSound`, `ChallengesAreBounded`, and the action
properties `NobodyTakesASource` and `ReturnPathIsProven`. Assumption: `None` is
no connection, ID, address or cookie; limits are natural numbers.

**RelayProofs, the relay.** The accept loop, the serving goroutines and Close preserve the
router's invariant (`RouterStaysSound`); `ConnInv` follows a connection from its
registration to its end, `HelloInv` a Hello through acceptance and tombstone,
`AckInv` the cached acknowledgments. Theorems: `RelayInvHolds`,
`NoConnectionIsOrphaned`, `RouterStaysSound`, `HelloIsSound`. The last one has two
hypotheses, because the code guarantees the property only under them:
`TombstonesSuffice` (at `maxHandshakeTombstones` the code drops the tombstone that
expires first, and a Hello whose tombstone was dropped may make a second session)
and `AcceptsInTime` (the accept loop, which does in-memory work and one datagram
write between reading a Hello and registering it, is faster than a tombstone's
life). Run `relay` satisfies both.

**RouteJournalProofs.** `Inv` has a shared half and one part for each process.
`Tables` says that the journal describes each route Tachyon created, by adapter,
destination and interface index (`Backed`), and claims no foreign one. `Local(p)`
says what p may rely on where it is: `PlaceInv` (its transaction against its
program counter), `LockInv`, `AdapterInv` (a live process has its adapter to
itself), `RouteInv` (its routes are on its adapter and known to its transaction,
and past reconciliation no orphan is there) and `HeldInv` (what it learnt under the
lock: the working set of a reconciliation backs every route, the entry being
staged is of no other live process, the claim being recorded is the only one on
its row, the row to be released is not owned). `Backed` is stronger than
`OwnedIsJournaled`: without the index of the entry, a reconciliation could read
an owned row as "differ" and drop its entry. A step of p preserves `Local(q)`
because of what it may do to the tables at all (`Footprint`, lemma `OthersKept`):
it leaves other processes alone, writes the journal only under the lock or when
the lock is free, and turns no row into one that q relies on not to be there.
Theorems: `InvHolds`, `OwnershipIsKept`, `ForeignIsUnclaimed`,
`RecoveryIsComplete` and the action property `LiveRoutesAreKept`. Assumptions: a
plan lists destinations, `MaxIndex` is at least 1, and the names of the processes
differ from the words for a free lock and for routes without an owner.

**NamedPipeProofs.** `PipeSound`, `AnswerMatches` and `RevokedBeforeNext` speak of
one end at a time, but each depends on frames that are still on the way, so the
invariant follows an identifier from its allocation to the answer:
- `ConnInv`, `CallInv`, `PendingInv`, `BoxInv`: registered calls have identifiers of
  their own, the holder of `requestMu` has the last one, and an identifier is
  pending exactly as long as nothing was sent to its call;
- `RequestsInv`: the requests in the stream carry increasing identifiers, above the
  last one the server took and below `Top` (the next one to be allocated, or the
  one whose request is being written). This is why the server never finds an
  identifier that does not increase, although `mu` is released between allocation
  and write;
- `RepliesInv`: every frame on its way to the client (`Flight`: in the stream, in the
  queue, in the writer's hand, in a call to `WriteFrame`) that reports success is
  the answer to the request its identifier names;
- `UnauthorizedInv`: while the served connection has no controller, nothing but
  Authenticate is in the stream of requests, nothing in flight grants, and the
  client has not published that connection; so no operation arrives
  unauthenticated;
- `SrvInv`, `WriterInv`, `DelivererInv`: session, controller and writer at each place
  of the listener, and that a writer which is done is closed and drained.

A frame may be cut, or run together with the next one, when a write fails; the
lemmas `ReadWithin`, `ReadOrdered` and `SwallowedOrdered` show that a read from such
a stream yields rubbish or a frame that was written, in order. Theorems:
`PipeInvariant`, `PipeIsSound`, `AnswersMatch`, `RevokedInTime`. Assumptions: callers
and delivering goroutines are finite sets that differ from the names `run`, `serve`
and `none`, the queue has room for one request, limits and bounds are natural
numbers.

**UDPRelayPoolProofs.** `Inv`: a dialled flow belongs to its call alone until it
is published or closed (`CallerInv`); a flow in the map has a reader and, until
Close, a reader has its flow in the map (`FlowInv`); the counters are the
cardinalities of the open flows and of the calls holding a reservation
(`FlowsCounted`, `PendingCounted`); and their sums are within the limits
(`Limits`), from which the second limit check never fails. Theorems: `InvHolds`,
`NoReaderIsLost`, `PoolIsSound`. Assumption: callers and keys are finite.

**HandshakeProofs.** `Inv` is the read loops and the merged channel, sockets
closed once and before their read loop is done, the order of finisher, terminal
error and Close (`EndInv`), the outcome of a write, and the dialer's use of Close.
`EndInv` carries `NoSendAfterClose`: the channel is closed by the finisher, which
waits for all read loops. Theorems: `InvHolds`, `TransportIsSound`,
`OutcomeIsSound`. The failed dials the last one speaks of are those with valid options:
with others the return at `handshake.go:264` leaves the transport open. Assumption:
the set of paths is finite and not empty.

**Only model-checked.** All liveness properties (fairness and `ENABLED` are out
of the prover's reach), and `HelperRuntime`, which has no constants, so that TLC's
exploration is complete. The proved
`GenerationsIncrease`, `ClosedHoldsNothing`, `NoOrphanSession` and
`RouterStaysSound` hold for every instance and have no run of their own.

## 5. Not modelled

Codec, cryptography and Reed-Solomon arithmetic (messages verify or are
dropped; decoding is represented by its result); sockets, TUN devices, access
control lists, tokens, overlapped I/O and service control of Windows;
configuration, command line, doctor and launcher; packet classification, process
tracking, telemetry, the local HTTP interface, routing profiles; `runServer` and
`runNamedPipeClient`, which wire components modelled on their own. In the modelled
parts: statistics and read accessors, logging,
the content of payloads, `dispatchPacket` and the start-up of `ListenAndServe` on
the relay, sessions without FEC, `Migrate` and session close on the client,
`AcceptSession` (only tests call it), the parsing of access rules, `LastError` and
the lifecycle of the helper's health record other than the stop timeout, `setState` of the route journal (no caller).

## 6. Findings

Two runs state what the repository says and find the code doing otherwise:

- `route_v_close`: when a delete fails uncommitted and the verifying read fails
  too, `rollbackLocked` neither records nor releases the prefix; the transition
  keeps the journal lock and the next deletion, or the second Close of
  `RunClient`, waits for it for ever (`routes.go:263`; `docs/architecture.md:37`
  promises that Close retries).
- `relay_v_accept`: a Hello whose source or session ID is still registered in
  the router ends `ListenAndServe` (`relay.go:201`; `relay_test.go:75`).

The models also have these behaviours, which TLC shows with the corresponding
formula as an invariant or property:

*Forward error correction and session*

- When parity overtakes data, the arrival that completes the group is a data
  shard, and `AddPacket` returns before it looks for missing shards
  (`fec.go:241`; `docs/tgp-spec.md:250`).
- A lost synthetic shard of a flushed group is reconstructed and delivered as an
  empty datagram (`fec.go:274`; `docs/tgp-spec.md:242`).
- A flushed group that arrived complete is never completed and holds its place
  for 30 seconds; with all places taken the next real data shard is dropped
  (`fec.go:309`; `docs/tgp-spec.md:248`).
- A parity change takes effect in the middle of an open group, whose later
  shards then carry another total and are refused (`session.go:616`;
  `docs/tgp-spec.md:259` says "next outbound groups"). `NeverGarbage` still holds.
- Reconstruction pads and fills shards without charging them, so a pending group
  may retain more than the byte limit (`fec.go:268`). `NeverOvercounts` is the
  direction that does hold.
- A payload above the shard limit stays in its group, which can then never be
  encoded: it fails the payload that completes the group and is never flushed
  (`session.go:297`). `RefusedNotDelivered` and the condition in `GroupFlushed`
  are what remains.
- With `group_timeout` 0, or above 30 seconds, a group outlives the receive
  buffer's memory of it and its first payload is delivered twice (`fec.go:336`);
  the same happens if `MaxFECCompletedGroups` groups complete while a late
  original is still inside the packet window (`fec.go:355`).
- `sourceEligibleForReplay` accepts data from the handshake address without
  asking the router, so this path does not expire after `PathLife`
  (`session.go:595`; `docs/tgp-spec.md:324`).
- `NewDatagramSession` may refuse the FEC options after the handshake; the dialer
  then returns an error and leaves the transport with its sockets and read loops
  open (`handshake.go:264`, action `sessionRefused`). `FailedIsClosed` is about
  dials with valid options, which `NewClientManager` makes sure of
  (`client_manager.go:64`).

*Client application*

- The pipeline is cancelled but not awaited: it can call `ReadPacket` after the
  device was closed (`app.go:307`), which the drivers must tolerate; on Windows
  the call then uses an ended Wintun session.
- When `ReadPacket` reports the end of the file while the client runs, the
  pipeline ends without an error and `runClient` keeps serving with nobody
  reading captured packets (`pipeline.go:105`, action `readFails`).
- `Tracker.LookupFlow` does not report a miss as an error, so the pipeline
  decides with `Router.Decide` for an unknown process, and with
  `DecideUnknownProcess` only while it is being cancelled (`tracker.go:106`; `README.md:46` of the repository
  says a miss blocks process-sensitive fallbacks). Classification is not
  modelled.
- A telemetry client that joins after `Broadcaster.Close` is neither served nor
  disconnected (`broadcaster.go:153`), and the shutdown of the bridge then takes
  its whole timeout.

*Named pipe*

- After a failed write the writer cancels its context and returns to a `select`
  in which a queued request is ready too. Go may take the request, so a delivery
  may follow a partial frame (`namedpipe_server.go:130`; the comment at `:153`
  calls the stream unusable then). The reader sees a frame with foreign bytes or
  the end of the stream; `AnswerMatches` holds all the same.
- The client keeps its connection after a partial write of its own; the server
  ends it.
- The reconnect backoff is never reset, since `runConnection` never returns nil
  (`namedpipe_client.go:251`).
- A Close between the creation of the controller session and the check of
  `closed` leaves the session's writer goroutine running
  (`namedpipe_windows.go:181`).

*Helper runtime*

- A stop request before `Run` has reached `provider.Start` uses up the only stop;
  `Run` then starts the provider, ends with the error of its closed client or
  context, and the stop counts as a success while the provider captures
  (`runtime.go:328`, `:201`; the comment at `:221` says Shutdown waits for the
  cleanup). The formula is `runDone = "closed" /\ providerStop.err = "nil" =>
  capture = "stopped"`; `RunCleansUp` has what is left, that Run then does not
  return without an error.
- `finishProviderStop` releases those who wait for the stop before it records the
  outcome, so `Run` may return after a successful stop while the health record still
  says "stopping" (`runtime.go:388`; `runtime_test.go:111` expects "confirmed"):
  `run = "returned" /\ providerStop.err = "nil" => cleanup = "confirmed"`.
- `refreshHealth` writes back the lifecycle it read under an earlier lock: a stop
  timeout recorded in between is lost, and the record says again what it said
  before (`runtime.go:281`, `:302`). Nothing in the repository
  promises otherwise, and `CleanupForward` holds of the other field.
- `writeDiagnostic` looks at the diagnostic file outside `diagnosticMu`; when
  `Run` clears it in between, the process panics (`runtime.go:503`, `:182`).
- `injectorStopError` is nil while the close of the injector is still running.

*Server UDP pool*

- The identity check of `remove` (`server_handler.go:409`) can fail only after
  Close, and the second limit check of `flow` (`:350`) never fails
  (`AdmittedIsKept`). The idle timeout counts reads only, so a flow that only
  sends is closed.

## 7. Plan

What is left, in this order:

1. Session close and migration on the client (rest of `session.go`), composed
   with `MultipathTransport`.
2. The server's application (`runServer`) over `Relay` and `UDPRelayPool`,
   telemetry broadcaster, routing profile store, packet classification.
3. An abstract specification of the route transaction: the set of owned routes
   changed atomically, across crashes.
