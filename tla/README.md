# ChainKVM: a TLA+ model of the control path

ChainKVM lets an operator drive a robot over WebRTC. A **gateway** (TypeScript,
`services/gateway`) decides who may: it evaluates a policy, creates sessions, issues
capability tokens, relays signaling and revokes. A **robot agent** (Go, `robot-agent`)
answers the offer, checks the token, executes the commands that arrive on a data channel
and stops the robot when something is wrong. A **console** (React, `apps/console`) is the
operator's side. What must not go wrong is spread over all of it: a robot that moves without
authorization, or that does not stop.

These modules model the parts that decide it, TLC checks them on small instances, and TLAPS
proves the main results for every instance. Paths below are relative to `src/`.

## 1. Inventory

### Robot agent (`robot-agent`)

| component | state | operations | what makes it correct |
|---|---|---|---|
| safety monitor `internal/safety/monitor.go` | last valid command, invalid-command count and window, `stopped`, `inControlLoss` | `OnValidControl`, `OnInvalidCommand`, `OnEStop`, `OnTokenExpired`, `OnRevoked`, `CheckControlLoss`, `Reset` | an emergency latches until reset whatever came first; a stop for invalid commands is earned within one window; only control loss is recoverable; silence is noticed |
| session manager `internal/session/manager.go` | `pending`/`active`/`terminated`, the session's info, token cache | `ValidateToken`, `Activate`, `Terminate`, `IsActive`, `HasScope` | the end is final |
| control handler `internal/control/handler.go`, `validator.go` | none of its own | `HandleMessage` and one handler per message type | a command is admitted only in an active session with the scope; a robot stopped for control loss stands still until a command resumes it |
| transport `internal/transport/webrtc.go` | current peer connection, one shared state callback | `CreatePeerConnection`, `HandleOffer`, `Close`, callbacks | an active session has a live peer, in whatever order the callbacks run |
| glue `cmd/agent/*.go` | measurements, pinger | `OnOffer`, `OnBye`, `OnRevoked`, `onSafeStop`, the 100 ms ticker, `shutdown` | a revocation ends the session and stops the robot in any phase, for good; the end of a session stops the robot |
| token validation, cache, key set `internal/session/token*.go`, `jwks.go` | cached claims and keys with ages | `Validate`, `Get`, `Refresh` | cache and validator agree on expiry; withdrawn keys stop being trusted |
| signaling client `internal/session/signaling.go` | connection, back-off, `done` | `Connect`, read loop, `Close` | messages delivered in order, reconnects back off, close is final |
| rate limiter, router, state machine (`control/ratelimit.go`, `datachannel`, `safety/state.go`) | bucket, routes, state | not wired into the agent | never more than burst + rate commands; no self-deadlock |
| video, metrics, audit publisher | frames, samples, queue | capture and recovery loops, collectors, one POST per event | stop stops; samples match their pings |

### Gateway (`services/gateway/src`)

| component | state | operations | what makes it correct |
|---|---|---|---|
| sessions `routes/sessions.ts` | map of sessions | create, get, refresh, delete | one credential per session, not lost on the way; an ended session stays ended |
| revocations `routes/revocations.ts` | log of revocations | by session, by operator | after it no credential and no peer is left |
| token registry `tokens/token-registry.ts` | map of tokens | register, isValid, revoke..., cleanup | valid = issued, not revoked, not expired |
| revocation cache and store `tokens/revocation-*.ts` | bounded map, JSON file | add/evict, load, append, save | survives a restart, loses nothing, never grows past its capacity |
| expiry monitor `tokens/expiry-monitor.ts` | warned tokens | timer | each token is warned about once, and before it expires |
| signaling `routes/signaling.ts` | rooms, state per socket | join, relay, leave, close, `notifyRevocation` | rooms and sockets agree; nobody joins a revoked session |
| policy `policy/*` | versioned policies and their history | evaluate, create, update, delete, clear | deny wins, every version a session names can be found again |
| admission `routes/session-policy.ts` | the request at its await | `evaluateSessionPolicy`, the session granted after it | a granted session can be accounted for |
| credentials `credentials/*` | trusted issuers, a verifier's copy of them | verify, add, remove | valid means trusted, signed and in time |
| identities `identity/*` | cache of resolved documents | resolve, get, set, clear | the map and its order hold the same keys, no more than the limit |
| token generator, keys, JWKS | key pairs | sign, export | library cryptography |
| audit, health, metrics, admin routes | in-memory lists | queries | one synchronous step each |

### Console (`apps/console/src`) and ledger

| component | state | operations | what makes it correct |
|---|---|---|---|
| signaling hook `hooks/useSignaling.ts` | socket in a ref and in the effect's closure, status, reason | effect, cleanup, events of the socket | one live socket; a disabled hook stops reporting a connection |
| peer connection `hooks/useWebRTC.ts`, `useWebRTCReconnect.ts` | connection, attempts, timer in a ref | effect, state changes, timeouts | a lost link is given up in the end |
| session status `components/session/SessionStatus.tsx` | elapsed time, time to expiry | two effects with an interval each | the times belong to the session and token of now |
| keyboard, mouse `hooks/useKeyboardInput.ts`, `useMouseInput.ts` | keys, buttons, movement waiting, batch timer | events, effects on `enabled` | the command in force is the one the keys call for; movement is neither lost nor sent twice |
| video measurements `hooks/useFrameTimestamps.ts`, `useVideoLatency.ts` | buffer of timestamps, drops, samples | message, effect on the buffer | every loss is counted, each timestamp sampled once |
| other components | rendered state | | |

The Fabric chaincode (`infra/fabric/chaincode/audit`) is a stub nothing calls.

### How they interact, and what is hard

The console asks the gateway for a session and a token, joins its room and sends an offer with
the token; the gateway relays it to the robot, whose read loop runs `OnOffer`. From there on
peers talk directly: commands on the data channel, acknowledgements and pings back. A revocation
is a POST to the gateway, which relays it to everyone in the session's rooms; the robot's
`OnRevoked` closes, terminates and stops.

* **Goroutines.** The robot's read loop, one goroutine per connection state change, one read loop
  per data channel, the ticker and main share the manager, the monitor and the transport. Each has
  a mutex of its own; nothing spans two of them.
* **Awaits.** The gateway's handlers are atomic between awaits; create and refresh await the token
  generator with the session half changed.
* **Order.** State callbacks overtake each other, messages arrive on sockets that are closing, an
  emergency arrives during a control loss.
* **Crashes and the file.** The revocation store is rewritten in place by appends nobody orders.
* **Renders.** A hook's effect runs again whenever what it depends on changes. The closures of the run
  before stay in timers and in sockets whose last event is still to come.
* **Time.** Control loss, the invalid-command window, expiry, cleanup, warnings, back-off.

`PROJECT.json` lists the places that matter most ("hazards"), each with its line and the properties that cover it.

## 2. Modules

| module | models | composed of |
|---|---|---|
| `SafetyMonitor` | `Monitor`, one action per method | |
| `SafeStop` | abstract promise: running, suspended, latched | |
| `SafetyHistory` | the monitor alone, any call at any time, with history variables; implements `SafeStop` | `SafetyMonitor`, `SafeStop` |
| `SessionManager` | `Manager` | |
| `RobotAgent` | the goroutines of `cmd/agent` | `SafetyMonitor`, `SessionManager` |
| `TokenRegistry` | registry and revocation set while the process lives | |
| `Signaling` | rooms and sockets of the gateway | `TokenRegistry` |
| `Gateway` | the session and revocation routes | `Signaling` |
| `RevocationStore` | registry, bounded cache and file through crashes | |
| `LiveTokens` | abstract promise of the registry: tokens in force and tokens ended; implemented by `Gateway` and by `RevocationStore` (in their proof modules) | |
| `Policy` | conditions, rules and their evaluation, as operators | |
| `PolicyStore` | policies and their versions | `Policy` |
| `Admission` | the decision of `POST /v1/sessions` while policies change | `PolicyStore` |
| `DidResolver` | did:key identifiers and the resolver's cache | |
| `Credentials` | the verifier, cut at its awaits, and the trust list | `DidResolver` |
| `ExpiryMonitor` | warnings and cleanup under one clock | |
| `ConsoleSignaling` | the console's socket | |
| `Reconnect` | the reconnection counter and its timers | |
| `ConsoleLink` | socket, peer connection and revocation | `ConsoleSignaling`, `Reconnect` |
| `ConsoleStatus` | the times shown | |
| `ConsoleInput` | keyboard and mouse | |
| `ConsoleVideo` | frame timestamps and latency samples | |
| `MCRobotAgent`, `MCGateway`, `MCConsole`, `MCAdmission` | instances for TLC | |
| `MonitorProofs`, `SafetyProofs`, `AgentProofs`, `GatewayProofs`, `StoreProofs`, `ConsoleProofs`, `AdmissionProofs`, `ExpiryProofs` | theorems | |

`MCConsole` and `MCAdmission` hold parts that share no state. Each behaviour runs one of them (`part`),
so the run checks the parts one after the other and not their product; keyboard and mouse, which share only
`enabled`, are two.

### State and steps

**Monitor.** The code stores instants (`lastControlTime`, `firstInvalidCmdTime`) and compares
what has elapsed; the model keeps the elapsed ticks, capped one past the limit, and `Tick` is the
clock. Every method holds the mutex throughout, callback included, so each is one action.
`triggerSafeStop` does nothing when the robot is stopped already: that is the source of most of
what is interesting. The callback's error (`haltFailed`) is chosen freely.

**Agent.** A handler is as many steps as it takes locks. `OnOffer` is validate, create, answer
(or fail); `OnRevoked` is close, terminate, stop; the callback for *connected* is activate, then
reset; a command is read, checked against the session, executed, acknowledged. `events` is the set
of state-change goroutines that have been started and not run, so they run in any order; a peer
that is replaced by a second offer is not closed, as in the code. `motion` is what the hardware
does: set or cleared by a drive command, cleared by a stop that does not fail. Three merges keep
it small and hide no behaviour: `IsActive` and `HasScope` (a session that ends between them has
no scope and the command is dropped by both readings), reading and running the shared callback, and
creating a peer connection and installing the callback (it cannot connect before the answer).

**Gateway.** Every route is one step up to its await and one after it. `request` holds what is
waiting for the generator. The policy check changes no state of the gateway: it passes, or refuses
and is no step; `Admission` looks inside it. No code makes a session "active": the states are
pending, terminated, revoked. `JoinChecksRegistry` says whether signaling was given the registry:
its tests do, `index.ts` does not. A socket that is closing still delivers messages. A join decodes
the claims of its token and looks at them one by one: the session is the one asked for, the `jti` is any
token's, and the registry, if there is one, says whether it is valid; nothing ties the two together. The
runs leave the registry out as `index.ts` does; the behaviours with it are among those without.

**Revocation store.** The append of each token goes from load through save to write; `writeFile`
truncates when it opens and writes later, so the file is missing, empty, torn or parses to a set of
entries. `Stop` is a crash or a shutdown at any point, `Start` loads what it finds, and a file
that does not parse has to be deleted by hand, as the start-up message says. The cache's order is
the order of `revokedAt`. I/O errors may happen at every access. A token that has left no trace after
a restart stands for a new one.

**Policies and admission.** A value is a record with its kind, since the code compares values of any
two kinds and `===` of two arrays is false; a context is a function from the field paths that lead
somewhere. `evaluate` follows the evaluator: the first deny rule that matches, then the first allow
rule, in the order of a stable sort. The store's operations are actions; the rules hash stands for
the rules. The validator is the assumption about the rules a policy may have: the store itself never
calls it. `PostSession` reads claims, evaluates and awaits the token; policies may be updated,
deleted and created anew before `Grant`. `forgotten` only records whose policy was deleted.

**Credentials.** `verify` is one step to its first await and one from its last; trust list,
clock and cache move in between. A verifier copies the trusted issuers when it is made. A JWT is a
record of what the checks read, with the signature as a field. The cache is a map and a separate
insertion order, as in the code, and every set removes what has expired before it evicts.

**Expiry monitor.** Two timers under one clock: neither is late by a unit of time, and what is due
at one instant runs in any order. A token is registered, revoked or cleaned up.

**Console.** A render and the effects it runs are one step, since React gives no event in between; a
socket left behind stays `closing` until its close event comes. `pcRevoked` is the value of
`isRevoked` that the handlers of the peer connection captured. `timers` holds the timeouts set,
`timerRef` the one the code can still clear. In `ConsoleStatus` a unit of time is a second and an
interval's callback is at most one late. A session
that starts in the future has a negative duration, as in the code. In `ConsoleInput`, `held` and `down` are
the keys and buttons the operator really presses, `missed` the keys that came up while the window had no
focus, `unheard` the buttons last pressed or released where the hook does not listen, outside the target or
disabled (`MouseElsewhere`); the buttons a batch timer captured are kept with it, and any new set of
buttons clears the timer. `ConsoleVideo` names a timestamp by the order of its arrival, so a sample can be told to
be new; each latency is negative, and skipped, on its own.

## 3. Runs

| run | instance | shows |
|---|---|---|
| `safety_history` | timeout 2, threshold 3, window 3 | types; `StopInv`, `EmergencyLatch`; `BurstBound`: the window restarts rather than slides, so up to 2·(threshold−1)−1 invalid commands fit its length in a robot still running, and no more; `InvalidStopJustified`; the monitor implements `SafeStop` with its fairness |
| `robot_agent` | 2 peers, 1 session, threshold 1, timeout 0 | `NoOrphanSession`, `EndIsFinal`, `EndedStopIsPermanent`, `SuspendedMotionResumes` over 2.4 million states |
| `robot_agent_live` | 1 peer, 2 sessions (one view-only), threshold 2, timeout 1 | `SilenceStops`, `RevocationTakesHold` under fairness |
| `gateway` | 2 sessions of one operator, 3 tokens, 2 requests, 2 sockets, signaling without the registry | `OneCredential`, `EndIsFinal`, `RoomsMatchPeers`, `CredentialPassesOn` |
| `revocation_store` | 3 tokens, cache of 1 | `ValidIffInForce`, `QuietStoreIsComplete`, `EvictsOldest`, `CapacityKept` |
| `admission` | 3 policies in a store of 2, 2 versions, 4 rule lists, 7 credentials, 4 scopes; 5 identifiers in a cache of 2, 9 JWTs; 2 tokens of lifetime 4 | `HistoryComplete`, `GrantIsAccountable`; `CacheConsistent`, `VerdictIsRight`; `WarnedBeforeExpiry` |
| `console` | 2 sockets, 2 timers, 2 attempts; 6 seconds; 4 keys, 2 buttons; 6 timestamps, a buffer of 4, 3 samples | `OneLiveSocket`, `DisabledSettles`, `LostLinkIsGivenUp`; `ShownTimesAreFresh`; `KeysMatch`, `BatchKnowsButtons`; `LossIsCounted`, `EachTimestampOnce` |

**Bounds.** A threshold of 3 with a window of 3 is the least at which a window can restart with
some commands lost and reach the threshold later. Two peer connections are what an offer that
replaces another needs; a timeout of 0 and a threshold of 1 bring the stops as early as possible
and leave out only counting, which `safety_history` covers. Two sessions of one operator with
two requests and three tokens have every race of two refreshes, a refresh and a revocation, and a
creation and a revocation; a third token lets a refreshed session be refreshed or revoked again.
Three tokens and a cache of one fill the cache, overfill it by a load and evict from the
overfilled one; the tenth that a cache of twenty or more evicts at once is beyond this bound.

In `admission` the store can be full, and each policy can be created, updated, deleted and created
anew at the version a session already names. The rule lists have denials before and after the allow rule they
compete with, a rule for a claim that never reaches the policy, and one that looks at the action
asked for. One request suffices because requests share nothing but the store. A cache of two with three
identifiers that resolve evicts; a lifetime of two within three instants expires. The JWTs
fail each check alone. Warning two before the end of a lifetime of four, checks every
two and cleanup every three bring expiry, check and cleanup to one instant and apart.

In `console` two sockets are the one that is open and the one that is closing; a socket that has
closed stands for any number of new ones. Two timers are the orphan and its successor, two attempts one
that is followed by another and one that is not. The four keys have two opposites, two for the same
motion and one of the other axis. Six timestamps fill a buffer of four and replace two of its entries; three samples are fewer than the
buffer holds, so they are trimmed.
The proofs have no bounds.

**Fairness.** `robot_agent_live` assumes that goroutines which are inside a call finish it
(answering, terminating, stopping, running a callback, handling a message) and that the ticker keeps
ticking: what Go's scheduler gives. It assumes nothing of the operator, the network, the gateway
or the clock. `SafetyHistory` assumes only that the ticker's check is eventually made
(`main.go:146-158`). `console` assumes that a closing socket gets its close event and that a timeout
that is not cleared fires: both are the browser's. It assumes nothing of the network, so a link may
stay lost. The properties of the gateway, the admission and the store are safety.

`CHECK_DEADLOCK FALSE` is set for the agent, whose process ends; for the gateway, which comes to
rest when its tokens, requests and sockets are used up; and for the admission and the console, some
of whose parts end with the bound on their time or their messages.

### What the documents say and the code does not do

Each of these is a run with one property that states the document's sentence, and TLC finds the
behaviour that contradicts it.

| run | document | what happens |
|---|---|---|
| `agent_end_stops` | "Robot safe-stops if control authorization ends" | a failed or closed connection terminates the session; nobody stops the robot, and the ticker looks away because the session is not active |
| `agent_revoked` | "Only TriggerControlLoss is recoverable" without a new session | the callback for *connected* activates, a revocation terminates and stops, the callback's `Reset` takes the stop back |
| `gateway_refresh` | "Gateway invalidates tokens" | a refresh at its await registers a valid token for the revoked session |
| `store_append` | "Cache must survive gateway restart" | two appends at once: both succeed, one entry is lost |
| `policy_scope` | "effective_scope: ... intersection of requested + allowed" | a rule that allows one requested action grants all of them |

### Seen while modelling

Behaviour the models keep, that no property forbids:

* An e-stop, a bye (`handlers.go:104`) or invalid commands leave the session active, and only the session is
  asked: the next drive command moves a robot whose stop is latched (`control/handler.go:127`).
* `RevocationTakesHold` says that a revocation comes to a stop, not that the stop lasts: `agent_revoked` shows
  that it need not. Its property has a second way to fail, behind the one TLC finds first: a command past the
  session check is executed after the revocation has been handled, though `REVOCATION.md:36` says such
  messages are rejected "even if they were in-flight".
* `REVOCATION.md:55` says "Gateway denies signaling joins for the revoked session." `index.ts:94` gives signaling
  no registry and nobody asks for the state of the session, so the room of a revoked session can be joined. With
  the registry a join would need the `jti` of a valid token, though not one of the session joined.
* A refresh whose generator fails has already revoked the old token: the session stays pending with no
  credential, and cannot be refreshed again. `CredentialPassesOn` names this case.
* The session route evaluates the claims of a credential whose signature nobody has checked; the verifier
  is not wired in. A subject's own claims replace the issuer's of the same name
  (`credential-extractor.ts`). A condition on the action sees only the first action requested
  (`session-policy.ts:79`), so a request for a part of what was allowed may be denied. The store never validates
  the rules it is given. Nothing in the running gateway updates or deletes a policy: `Admission` lets the
  store's operations happen during the await since the store offers them, and `GrantIsAccountable` says what
  they would leave of a grant.
* Deleting a policy and creating it again starts at version 1, so a version number alone names two rule
  lists; the hash tells them apart.
* A token whose lifetime is not longer than the check interval may expire without a warning.
* `useWebRTC.ts`: a second disconnected event overwrites the reference to the first timer, which then
  counts attempts even once connected (:172); the check of `isRevoked` in the timer (:174) is of the
  closure that set it; `disconnect()` leaves `connectionState` as it was.
* `useSignaling.ts`: a handler that is not memoised reopens the socket at every render, and the close event of the
  socket before overwrites the status of the new one.
* `App.tsx:16` passes no `onRevoked`: what follows a revocation in `ConsoleLink` is what the handlers
  are written to do.
* Disabling the keyboard with keys pressed sends no stop; `KeysMatch` excuses exactly that
  (`interrupted`) and the keys that came up out of focus (`missed`). A wheel without movement is never sent.
* A mouse button released outside the target stays pressed for the hook (`useMouseInput.ts:167`) and is named by
  every later command until it is pressed and released on the target; one still down when the input is enabled
  again is not named. `BatchKnowsButtons` says nothing of these (`unheard`).
* The "buffer reset" branch of `useVideoLatency` is never taken: the buffer never shrinks. Once it is full its
  length stands still and the effect returns (:106), so no later timestamp becomes a sample;
  `EachTimestampOnce` speaks of the buffer until then.

## 4. Proofs

All theorems hold for every value of the constants under the named `ASSUME`s of the modules: limits are
naturals and a threshold is positive; the "none" values are not members; tokens in the store are
finitely many; rule lists pass the validator; the check interval of the warnings is within the threshold.

* **Monitor** (`SafetyProofs`): `IInv == TypeOK /\ StopInv /\ EmergencyLatch /\ WindowInv`. The latch
  alone is not inductive: that a control loss and a full count imply a stop is needed for the calls that
  find the robot stopped already. `ImplementsSafety` maps every step to a step of `SafeStop` or a
  stutter; `MonitorProofs` holds the facts about the operations that the agent's proofs share.
  `BurstBound` and `InvalidStopJustified` compare the code's one count with the true number of commands
  of every age. The history keeps that number cumulatively (`invalids[d]`: at most d ticks ago), so no sum is
  needed, and `WindowInv` bounds it for every age at once: of the open window all commands but the first are
  younger than it, and of the windows before at most threshold - 2 are not too old.
* **Agent** (`AgentProofs`): `EndIsFinal` follows from the steps,
  `EndedStopIsPermanent` from what the monitor's operations may do to a stop.
  `NoOrphanSession` needs to know why an activation cannot come after the end of its peer was
  handled: `EventsMatchPeers` says that *connected* is pending only for a peer that was up and that
  a peer that is down has its end pending or the session is over; `AnsweredPeerIsNew` and
  `PeersAreOffered` make it inductive across offers that replace each other.
  `SuspendedMotionResumes` is inductive with the types. `AgentImplementsSafeStop` shows that the monitor,
  driven by these goroutines, implements `SafeStop`: a history variable records e-stops, byes, revocations
  and the shutdown until the next activation, each step of the agent is sorted by what it asks of the
  monitor (`StepKinds`), and each kind is a step of the abstraction or a stutter.
* **Gateway** (`GatewayProofs`): `IInv == TypeOK /\ FreshSessions /\ OneCredential`. A request that
  creates a session holds an id nobody else has (`FreshSessions`); a refresh revokes what the session
  has before it waits, so its new token is the only one. `RoomsMatchPeers` is strengthened by what an
  unconnected socket does not have. `CredentialPassesOn` goes through the steps that can end a
  credential (`LastCredential`). All hold for both values of `JoinChecksRegistry`.
  `RegistryKeepsPromise`: what the routes do to the tokens is a behaviour of `LiveTokens` without its `Stop`, since only issued tokens are ever revoked or expire (`DeadInv`).
* **Store** (`StoreProofs`): `IInv == TypeOK /\ MapInv /\ QuietInv /\ OrderInv`. The map, not the cache,
  makes `ValidIffInForce` true: a revoked token has left it, so what the cache evicts or the file
  loses changes no answer. A quiet store has one append, which carries all revocations from its
  load to its write. `EvictsOldest` and `CapacityKept` hold for any number of tokens revoked at once: the
  sizes the cache goes through stay between the bounds (`SizeBounds`), no two revocations are equally old
  (`OrderInv`), and the survivors are then as many as fit and the youngest (`Survivors`, an injection by rank).
  `StoreImplementsRegistry` maps every step to one of `LiveTokens`, or to a stutter when nobody who asks
  `isValid` can see it: evictions, appends, their failures, the next start and what it loads. The two modules
  model one registry, `Gateway` with sessions and an unbounded cache, `RevocationStore` with the cache's bound,
  the file and crashes; both implement `LiveTokens`, with what `isValid` answers as the tokens in force, so what
  `Gateway` leaves out cannot be seen through `isValid` (the map, which `getBySession` reads, has the same
  steps in both). TLC agrees on the instances of both runs, and refutes that
  the store's behaviours are those of a process that never stops.
  The proof of `CapacityKept` found what the bound of the run hid: a capacity of zero still holds one entry, since the new
  one is added after an empty cache was evicted from; `CapacityKept` says so.
* **Admission** (`AdmissionProofs`): `StoreInv` says of each policy that its history is a chain whose
  element v is version v and whose last is the policy (`Chain`); `HistoryComplete` follows, since the
  version found by its number is then unique. `GrantInv` says that a request waiting or granted was
  allowed by the rules its hash stands for (`Passed`), and that its version stays in the history until
  the policy is deleted (`Kept`). `VerdictIsRight` is inductive with what an awaiting call has passed already (`CallInv`).
  `CacheConsistent` rests on what splicing keys out of a list leaves (`WithoutKeeps`) and on the loop of
  `evictOldest` making place (`PlaceIsMade`); that the order is the order of expiry needs to know that nothing
  in the cache expires later than what is added next (`CacheInv`).
* **Expiry** (`ExpiryProofs`): a registered token that has not been warned of, with a lifetime longer than
  the interval, outlives the next check (`TokenInv`), which is never more than an interval off (`CheckInv`);
  that check warns of it, since an interval is within the threshold. The property holds only of lifetimes strictly longer than the
  interval: the check due at the very instant of expiry no longer sees the token.
* **Console** (`ConsoleProofs`): `OneLiveSocket` is inductive with the types of the hook, for every
  step of the link. `ShownTimesAreFresh` needs to know that a time is late only while its interval's
  callback is due (`TimerInv`, `ExpiryInv`). `BatchKnowsButtons` follows from the hook being right about
  the buttons it could hear, and the captured buttons being the hook's while a timer runs (`BatchInv`). `KeysMatch` needs that a
  disabled keyboard takes nothing for pressed, and that a key missed is up (`KeyInv`). `LossIsCounted` follows
  from a message that arrives adding to the missing numbers the interval it leaps over, or part of it
  (`LossInv`). `EachTimestampOnce` knows the buffer as the last
  stretch of the arrivals and the samples as the last of what the effect saw (`BufferInv`, `SampleInv`). The parts
  are proved as specifications of their own (`LinkSpec`, `StatusSpec`, `InputSpec`, `VideoSpec`), which
  `MCConsole` implements (`PartsOfTheConsole`); `MCAdmission` likewise (`PartsOfTheDecision`).

What a recursive function computes (the sizes of the cache, the keys left of an order) and what holds of
any finite stretch is proved without the library's induction theorems, which take an operator: the numbers at
which the claim fails are a set of naturals, and its least member (`Smallest`, from `WFMin`) contradicts it.

Every invariant and action property of the runs that pass is proved. Only model-checked are the liveness
properties (`SilenceStops`, `RevocationTakesHold`, `DisabledSettles`, `LostLinkIsGivenUp` and the fairness
part of `ImplementsSafeStop`), which are out of the prover's reach, and the five disagreements above, which
are counterexamples.

## 5. Not modelled, and the plan

Not modelled: the order of strings and dates in a policy's conditions (only numbers are ordered, no property
depends on it), parsing of messages and timestamp windows of commands (a command is valid or not), ICE
candidates, offers and data channels of the console, the pinger and every measurement of the robot, the
audit trail, rendering, cryptography, byte decoding, configuration. `PROJECT.json` gives the reason for each
component. Three kinds of code are left out as a whole:

* *Robot libraries.* The token validator, its cache and the key set (the validator accepts a token
  up to 30 s past its expiry, the cache drops it at its expiry, `token_cache.go:70`; a cached key is
  trusted whatever its age); the signaling client (`Close` twice or `Connect` twice closes a channel
  twice, `signaling.go:209`; a join that fails after a dial that succeeded dials again without a
  pause, `:88`); the video loops (a second `Start` replaces the stop channel of the first,
  `capture.go:103`); the pinger's unlocked fields (`handlers_helpers.go:121`). `RobotAgent` takes
  validation as an answer that may be yes or no and the client's callbacks as steps of one thread.
* *What is not wired.* Rate limiter, router and safety state machine (which calls its listener with its
  lock held, `state.go:102`): no behaviour of the agent depends on them.
* *Queries.* Audit, health, metrics and admin routes are one synchronous step each over lists nobody else
  reads; `audit.ts:84-85` adds a query's strings when it pages. The token generator appears as the await at which
  a handler yields, the ledger's stub is never called.

What is left to prove: what a lost link keeps true on its way to being given up, which the liveness run
needs; and what follows for the routes when the process stops and starts between their awaits, which `Gateway`
has no step for.

What is left to model: the robot's token cache and signaling client as above, and an abstract authority
(a robot moves only for a session in force) that the composition of gateway and agent would have to implement
with relayed messages lost and delayed.
