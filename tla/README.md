# A verification development of ESPHome MCP

ESPHome MCP is a Home Assistant integration that runs an MCP server inside
Home Assistant: a worker thread serves the tools on a TCP port, a webhook
exposes that port through Home Assistant's own HTTP server, and a small OAuth
surface lets MCP clients log in. This directory holds TLA+ modules that model
the integration, configurations that check them with TLC, and theorems that
TLAPS proves. Source paths below are relative to
`src/custom_components/esphome_mcp/`.

## 1. The system

| Component | Source | State it keeps | Operations |
|---|---|---|---|
| Entry and life cycle | `__init__.py`, `embedded_entry.py`, `embedded_setup.py`, `embedded_server.py`, `runtime_compat.py` | config entry; `hass.data[DOMAIN]` (manager, bring-up task, last options, webhook config); repair issues; notification; per manager a thread, its event loop, stop event and exception | set-up, background bring-up, readiness probe, teardown, unload, reload on options, removal |
| Ingress webhook | `mcp_webhook.py` | the webhook configuration (target port and path, mode, provider, sessions); registered views | register, unregister, authorise a request, relay it and its streamed answer |
| OAuth surface, none mode | `oauth_autoapprove.py`, `oauth_common.py` | pending authorization codes with redirect, PKCE challenge and expiry | authorize, token exchange, revoke |
| OAuth surface, ha_auth mode | `oauth_autoapprove.py`, `oauth_ha_auth.py`, `oauth_dcr.py` | none but the signing key: client ids and refresh tokens carry signed envelopes; CIMD cache | dynamic registration, authorize and token legs forwarded to Home Assistant's own provider, client-id translation, revoke |
| CIMD lookup | `oauth_ha_auth.py` | cache with positive and negative entries, four lookup slots | lookup with deadlines, cache, eviction |
| Tool server | `server.py` | none | MCP tools; calls cross from the worker's loop to Home Assistant's loop |
| Device Builder client | `addon_tools.py` | one WebSocket and its message ids per call | commands, streams, firmware jobs, native MCP with fallback |
| Supervisor client | `addon_tools.py` | none | add-on lookup, actions, options merge, ingress sessions |
| Filesystem tools | `filesystem_tools.py` | the directory tree under the ESPHome root | create a file or directory without following links |
| Options flow and secrets | `config_flow.py`, `embedded_entry.py` | entry data and options | edit options, regenerate or override secrets |

How they interact: Home Assistant calls the entry; the entry starts the
bring-up task, which starts the worker thread and registers the webhook; the
webhook relays requests to the worker's port; the OAuth views look up the
webhook configuration at each request to find the active mode, key and
provider; the tools call the Supervisor and the Device Builder over HTTP and
WebSocket. `hass.data[DOMAIN]` is the shared state of all of it, and all of it
but the worker threads runs on Home Assistant's event loop, so every await is
a point at which anything else may run.


### Hard behaviours, and what is correct

- **Entry and life cycle.** An unload cancels a bring-up wherever it stands and
  may meet it in its own teardown; the readiness deadline stops a manager that
  the failure path then tears down; a join times out on a thread that goes on;
  options change between the read of the port and the read of the mode.
  Correct: an unloaded entry leaves nothing behind, a webhook is never there
  without its server, a thread is lost only by a join that timed out or was
  cancelled, every bring-up and unload ends, saved options take effect.
- **Ingress webhook.** Binding the views may stop in the middle and cannot be
  undone; a request resolves the registration, awaits its body and uses the
  session of a registration that may be gone. Correct: discovery names only
  endpoints that answer, ha_auth mode never loses its bearer gate, a request
  leaves only under the registration that admitted it, unregistering ends
  relays and streams.
- **None mode.** The token view awaits between the look-up of the provider and
  the consumption of the code; codes expire and the store is capped. Correct: a
  code is redeemed at most once, in its lifetime, by its holder, through the
  registration that issued it; the store keeps to its cap and recovers.
- **ha_auth mode.** Nothing is remembered: the identity Home Assistant bound a
  grant to is derived again on each leg from a registration, a document or an
  envelope, and keys and documents change. Correct: the identity is the bound
  one or the leg is not forwarded, and revocation reaches the grant.
- **CIMD lookup.** Concurrent lookups write one cache with a clock read before
  they waited. Correct: bounded, recent, not easily churned, and every lookup
  ends.
- **Filesystem tools.** Each system call of a walk may find what another process
  left there. Correct: the call stays in its folder, overwrites nothing and
  leaves nothing partial unless what is to remove it fails too.
- **Device Builder and native MCP clients.** A write whose answer is lost; a stream
  cut at a limit while its operation goes on; a native call that timed out after
  it was submitted, or a read that falls back to the WebSocket; a connection kept
  busy by messages of others. Correct: an operation is submitted at most once, the
  caller is told "done" or "refused" only when that is so, every call ends.
- **Supervisor client.** Options are read, merged and written back without a lock.
  Correct: a call changes what it names, and loses nothing but what another
  writer changed in between.
- **Options flow and secrets.** Secrets are regenerated, overridden and settled at
  set-ups that may fail, while forms that may be old are saved. Correct: a
  regenerated secret stays out, a regeneration happens once, a saved override is
  served as soon as no reload is due.

## 2. The modules

| Module | Models | State in the code |
|---|---|---|
| `ServerLifecycle` | entry, bring-up task, teardown, manager, worker thread, ports | `entry` is the state of the config entry, `lastOptions`, `task`, `manager` and `hook` are `hass.data[DOMAIN]`, `teardown` is the await `async_teardown_server` stands at and for whom, `thread`, `port`, `exc`, `signalled` belong to the managers, `listener` to the machine |
| `EntryContract` | what the entry promises Home Assistant and its user | abstract |
| `IngressTurns` | how life cycle and ingress take turns over the registration | abstract, implemented by both |
| `AuthCodes` | `PKCECodeStore` behind the authorize and token views | `stored` and `age` are the `_codes` of each provider, `live` the provider in `hass.data`, `arrived` the provider a request in flight holds |
| `OneShotCodes` | what an authorization code promises | abstract |
| `WebhookIngress` | view binding, registration, request relay | `views` are the bound routes, `flags` the marks in `hass.data`, `cfg` and `reg` the webhook configuration, `open` and `lookup` its sessions, `stage` and `under` each request and what it captured |
| `RefreshIdentity` | client identity on the ha_auth legs | `key` is the signing key, `document` what clients publish, `session` what a client and Home Assistant hold of an authorization, `asked` the last forwarded request |
| `CimdLookup` | the metadata lookup | `cache` is `_cimd_cache` in its order, `lookup` the await each request stands at |
| `FilesystemCreate` | `_create` by system calls | `kind`, `entry`, `data` are the file system, `call` the await-free walk of each thread |
| `AddonSupervisor` | the add-on at the Supervisor; the calls that act on it or change its options | `running`, `boot`, `native`, `options` are the add-on, `pc` is the await each tool call stands at, `seen` the info it was given, `code` its answer to the caller, `effect` what became of its operation, `dirty` what others changed since it read |
| `DeviceBuilder` | the calls that talk to the Device Builder, on top of it | `link` and `inbox` are a call's WebSocket, `left` is what remains of `message_limit` or of the catalogue's pages, `answered` that `close_reason` is "result", `fellBack` that a read left the native endpoint, `peer` which process was addressed |
| `ToolContract` | what a tool call promises about its operation | abstract |
| `EntrySecrets` | `_ensure_secrets` and the options that drive it | `data` and `options` are the entry's, `last` is `DATA_LAST_OPTIONS`, `told` a pending update listener, `served` the URLs the server answers under |

`MC*` modules only give constants their values; `AuthCodes`, `CimdLookup` and
`EntrySecrets` need none. The `*Proofs` modules hold the theorems. A definition named `X_Y` directly
above `X` is a mutated form of `X`: with it in the place of `X`, the property
`PROJECT.json` names is violated.

An action is the code between two points at which something else may run: two
awaits for what runs on the event loop, two system calls for the filesystem
tools (their calls run in threads), two observable steps for a worker thread.

- *ServerLifecycle*: `SetupStarts`, `SetupSucceeds`, `SetupFails` are
  `async_setup_entry` and the eager first stretch of the bring-up; `UnloadEntry`
  and `UnloadResumes` are `async_unload_server_entry`; `SaveOptions`,
  `ReloadLoaded`, `ReloadUnloaded` are `_async_options_updated` and the reload
  that waits for the set-up lock. `StartThread` to `SurfaceFails` are
  `async_bring_up_server` with `async_start` and the readiness loop;
  `CancelDelivered` is `CancelledError` at whatever await the task stands.
  `BeginTeardown`, `SessionsClosed`, `JoinReturns`, `ReturnTo` are
  `async_teardown_server`, which three callers share. `PublishLoop` to
  `CloseLoop` are `_thread_main`.
- *AuthCodes*: `Authorize` is the whole authorize view with the purge, the cap
  and the new code; `TokenArrives` and `Consume` are the token view before and
  after the await of the body; `Register` and `Unregister` replace the provider.
- *WebhookIngress*: `Prebind`, `Register`, `RegisterFails` bind the views up to
  the one whose `register_view` raises; `Unregister`, `LookupCloses`,
  `CloseCancelled` are `async_unregister_webhook`; `McpArrives`, `TokenArrives`,
  `Forward`, `Answers`, `StreamEnds`, `TransportFails`, `Severed` follow a
  request.
- *RefreshIdentity*: `Authorize`, `Exchange`, `Refresh`, `Revoke` are the four
  legs, each with its call to Home Assistant; `RotateKey` is the regeneration
  of the secrets.
- *CimdLookup*: `Hit` and `Miss` are the entry of `fetch_cimd_redirects`, then
  `Admit`, `Resolve`, `HostAnswers`, `AddressFails`, `DocumentRead`,
  `OutOfAddresses`, `DeadlinePasses` and `SessionClosed` its way to an outcome.
  `Room` is `_cache_cimd` up to the new entry: of the positions of the cache it
  keeps the others of the client (`Others`), of a full cache those that had not
  expired (`Trimmed`), and of these the last (`Newest`), in their order (`Keep`).
- *FilesystemCreate*: one action per system call of `_create`, with `Fault` and
  `WriteFails` for those that fail: a call ends at `fault`, at `left` when its
  clean-up fails, or at `leaked` when the fstat of its new file fails, which leaves
  the file and its descriptor. `HasOpen` says that a call has its file open, `Pending`
  that it has neither written nor removed it. `ForeignMakes`, `ForeignRemoves`,
  `ForeignMoves` for other processes. `Leads` says what stands where a path leads,
  `Obstructed` that something on a call's path is in its way.
- *AddonSupervisor*: `Begin`, `InfoRead`, `InfoFails` are `_resolve_esphome_addon`
  and its answer; `Install` and `Post` end where the POST leaves; `Posted` and
  `PostFails` are what the caller gets. `WritesOptions`, `RunsAction`,
  `SupervisorRefuses` happen at the Supervisor, also after the caller has left;
  `UserEdits`, `AddonStarts`, `AddonStops` are others.
- *DeviceBuilder*: `NotRunning`, `AskSession`, `SessionMade`, `SessionFails` lead to
  the add-on. `Connected`, `ConnectFails`, `Greeted`, `HelloFails`, `Receive`,
  `LimitReached`, `Expires`, `LinkEnds` are `_call_device_builder_ws_command` and
  `_collect_ws`; `Initialized`, `EndpointMissing`, `PageRead`, `ToolMissing`,
  `CallTool`, `Answered`, `NativeFails` are `_native_device_builder` and the plain
  HTTP request. `Cancelled` is `CancelledError` at whatever await, as
  `_run_on_hass` passes it on. An operation is one of `write` (every command that is
  answered by one result, whose wrapper drops `closed_by`: also queueing a
  firmware job, and the lists), `read` (native first, then WebSocket), `native`,
  `http`, `raw`, `follow` and `logs` (a stream that is told to stop).
- *EntrySecrets*: `SetUp` is `async_setup_server_entry` with `_ensure_secrets`
  (`Regenerate`, `Settle`) and with views that may fail to bind; `Save` is a
  submitted form, old or new; `Listener` is `_async_options_updated`; `BringUp`,
  `GoesDown` and `Unload` say when the URLs are answered.

`DeviceBuilder` extends `AddonSupervisor`: they share the add-on, which an action
of one call stops under another call's connection. `EntrySecrets` opens up what
the set-up of `ServerLifecycle` does first, and hands `RefreshIdentity` its key.
`ServerLifecycle` contains the registration of the webhook as one step with its
failure; `WebhookIngress` opens that step up and takes the entry's life cycle as
free registrations and unregistrations, of which its guards ask one thing: that no
webhook is registered, nor sessions of one being closed. `IngressTurns` states this
interface. `ServerLifecycle` implements it as the caller, so that the guards hide
no behaviour of the life cycle; `WebhookIngress` implements it as the one called.
(The life cycle awaits the closing in either mode and after a failed registration;
the ingress opens up only the closing of the CIMD session, the one await at which
something of a registration is still there.) `AuthCodes` and `RefreshIdentity` in turn
open up the token requests of `WebhookIngress`, in its two modes. The lookup
that `RefreshIdentity` has in one step, with any outcome in the hostile regime,
is `CimdLookup`.

## 3. The runs

| Run | Module, configuration | Shows |
|---|---|---|
| `lifecycle_safety` | `MCServerLifecycle`, `_safety` | the entry's safety invariants; `ServerLifecycle` implements `EntryContract` and `IngressTurns` |
| `lifecycle_liveness` | `_liveness` | bring-ups and unloads end, saved options are applied, signalled threads die |
| `lifecycle_dropped` | `_dropped` | violation: a stop too early drops a thread it never signalled |
| `codes` | `AuthCodes` | the stores keep their cap and recover; `AuthCodes` implements `OneShotCodes` |
| `ingress` | `MCWebhookIngress` | discovery, bearer gate, sessions, requests across a reload, and that unregistering drains |
| `ingress_raised` | `_raised` | violation: a forward on a closed session raises |
| `identity` | `MCRefreshIdentity` | identities are exact while the world keeps still, envelopes and revocation hold whatever it does |
| `identity_unlisted` | `_unlisted` | violation: a redirect the document does not list makes the derivation guess |
| `cimd` | `CimdLookup` | bounded cache, recent answers, eviction only after churn, every lookup ends |
| `files` | `MCFilesystemCreate` | stays in the folder, overwrites nothing; leaves a partial file, and refuses, for a cause |
| `addon` | `MCDeviceBuilder`, `DeviceBuilder` | tool calls implement `ToolContract`; writes of options lose only races; every call ends once its frames are sent |
| `secrets` | `EntrySecrets` | regenerated secrets stay out, regenerations are one-time, overrides are served |

### Bounds, and why they are enough

- *Life cycle*: two managers, so that a server of one generation is still dying
  when the next starts, on the same or another port (`Ports = {1, 2}`); option
  sets with each webhook setting; a foreign process on port 1. Nothing in the
  code looks further back than the manager before. When `MaxManagers` is
  reached, options can no longer be saved and reloads stop: `ReloadHappens`
  says so.
- *Codes*: two codes against a cap of one, so that the cap is met, the entry
  expires or is redeemed, and another code is issued; a lifetime of two with ages
  to three separates before, at and after the expiry; two redirects and two
  verifiers, so that a code meets the wrong one of each; two registrations; two
  token requests in flight, under different registrations or for one code. A
  purge that keeps one of two codes needs a larger cap: `CapHolds` and
  `CodesAreOneShot` prove that part for every cap.
- *Ingress*: three bundles of two, two and one views; two registrations in
  either mode; two webhook requests and one token request, since requests do not
  interact but through the registration.
- *Identity*: one document client and all registrations of one or two redirects
  out of five (an origin in two spellings, another origin, one loopback callback
  on two ports), two keys, one session: sessions share only the key and the
  documents, and those change freely in the hostile regime.
- *CIMD*: three clients against a cache of two, one slot for two lookups, one
  address, `Deadline` < `NegativeTTL` < `TTL` as in the code; the clock stops at
  three, which is past every lifetime of an entry that began at zero.
- *Files*: two calls for one file in a subfolder, four fresh inodes, other
  processes that take two steps: enough to remove and make, or to move away and
  put a link in its place. Fresh inodes and calls are symmetric; no property of
  these runs is a liveness property.
- *Add-on*: one call of each of the seven kinds alone, with the add-on starting,
  stopping and changing its version and the connection breaking: such calls keep
  no state in common, so that one is enough. One call beside an action that starts
  or stops the add-on under it, and two calls that write options beside a user's
  edit, naming parts of one object and an option the schema does not know. A
  follower that waits for no, one or two messages and two frames in flight meet
  the limit before, at and after the terminal event. One start suffices for an
  operation that was sent to a process that is gone.
- *Secrets*: three saves and three generations: a regeneration, an override with
  what it retired, and a save after that. Two secrets that a user may think of,
  one of which is retired while the other is served.

### Fairness

- `ServerLifecycle`: weak fairness of the bring-up, the teardown, the unload and
  the set-up, because the event loop and the executor run what is ready, and of
  each worker thread. Strong fairness of the deadline, because a turn of the
  readiness loop can always be followed by another while time passes between
  them, and of the waiting reload, because the set-up lock is first come first
  served. Users and other processes owe nothing.
- `AuthCodes`: only the clock.
- `WebhookIngress`: only that a closed connection reports to the task that waits
  on it. The server and Home Assistant may never answer.
- `DeviceBuilder`: the event loop resumes a call that has its add-on, and the
  time-out of the await a call stands at runs out. Sending a frame (`ws.send_str`) has no
  time-out in the code; it is part of the step before the wait for an answer, and
  taken to return. That is all `CallsEnd` needs: the Supervisor, the Device
  Builder and the network owe nothing, and may send
  messages of others for ever.
- `CimdLookup`: only the clock and the timers of due deadlines. Hosts, resolvers
  and the semaphore owe nothing. Timers are punctual: the clock does not pass the
  deadline of a pending lookup, as on an event loop that is not blocked.

Deadlock is checked in the life cycle, whose `Finished` step marks a removed
entry. The other modules stop when their bounded supply (codes, requests,
registrations, time, foreign steps, calls, saves) is used up.

## 4. Findings

1. **A stop before the worker published its loop sends no signal**
   (`embedded_server.py:113`, `lifecycle_dropped`). The join times out, the
   thread is dropped, and serves later with no one left to stop it.
2. **A forward on a closed session raises** (`oauth_autoapprove.py:509`,
   `ingress_raised`) where the docstring promises an answer or a 503.
3. **The derivation of an identity may guess** (`oauth_ha_auth.py:767`,
   `identity_unlisted`): the same-origin fast path of the authorize leg admits
   redirects the client's document does not list.

Remarks without a run:

- The readiness probe cannot tell whose listener it reached
  (`embedded_server.py:216`): a foreign process on the port satisfies it, and the
  bring-up registers a webhook for a port this manager's server does not serve.
  `ServerLifecycle` has this behaviour.
- The clean-up of a failed write compares an inode and removes a name in two
  system calls (`filesystem_tools.py:164`): a file that another process puts there
  in between is removed. `FilesystemCreate` has the window (`Stat`, `Unlink`).
- The clean-up may fail like the write it cleans up after, on a disk with errors or
  one that has become read-only: an error of `os.stat` or `os.unlink`
  (`filesystem_tools.py:159`, `164`), or of closing what `os.fdopen` has not taken
  over (`156`), is reported, and the partial file stays. An error of `os.fstat`
  (`147`) comes before the clean-up is armed: the new empty file stays and its
  descriptor is never closed.
  A later call for the same path is told "already_exists". `LeftForCause` says that
  a partial file has no other cause; no document promises more.
- A write whose connection closes, or stays silent for ten seconds, after the
  command was sent is reported as "Config updated." (`addon_tools.py:1277`); a read
  in the same case succeeds without content. `ToolContract` names this report
  `presumed` and keeps it apart from "done".
- `closed_by` of a stream goes on naming a result that came before the message
  limit or the deadline ended it (`addon_tools.py:1031`): `LastReason`.
- `_cache_cimd` says "Eviction drops expired entries first", but "expired" is
  judged by the clock read before the lookup waited. An entry that expired during
  the wait is not dropped first, so that a live entry written earlier may be
  evicted in its place. `EvictionNeedsChurn` shows that the promise behind it, as
  many writes as the cache holds for each live entry, is kept all the same.

## 5. The proofs

All theorems hold for every value of the constants that satisfies the named
assumptions of the modules: finitely many codes and a positive cap and lifetime
(`AuthCodes`), token and webhook requests that are different (`WebhookIngress`),
records of the right type (`RefreshIdentity`), options over the ports
(`ServerLifecycle`), two different inodes for the configuration directory and for
what lies outside, and paths that are non-empty sequences of names
(`FilesystemCreate`), a positive cap and number of slots, and a deadline shorter
than the negative lifetime, which is shorter than the positive one (`CimdLookup`),
calls that are no other writers (`AddonSupervisor`), secrets a
user thinks of that are not the generated ones (`EntrySecrets`). The argument is the same in each: an inductive invariant
`Inv` in the component's module, `InitInv`, one lemma per action or group of
conjuncts that it is preserved, and `Invariance == Spec => []Inv`; the listed
theorems follow from it.

- **`ServerLifecycleProofs`.** `Inv` adds three parts to the properties.
  `OneRunner` says who runs: without it the unload and the failing bring-up could
  both be in a teardown. `LatestManager` ties the bring-up to an unsignalled,
  started manager: without it a webhook could be registered for a manager that
  has been told to stop. `SettledOptions` carries the options from the set-up to
  the registration. From `Inv`: `TypeCorrect`, `UnloadIsClean`,
  `RegistrationIsBacked`, `ThreadsAreOwned`, `IssuesAreCurrent`,
  `ExposureFollowsOptions`, `UnloadIsFinal`. `KeepsContract` is the refinement:
  each action maps to one action of `EntryContract` or to a stutter, and likewise of
  `IngressTurns`. The second rests on `OneRunner`: a bring-up that may register runs
  beside no teardown, so that the sessions a teardown closes are never those of a
  registration that has been replaced.
- **`AuthCodesProofs`.** `Inv` is the type, the cap and `Ledger` (only issued
  codes are stored, and a redeemed one is not). The cap rests on cardinalities:
  the purge takes a subset, a new code adds one. `TypeCorrect`, `CapHolds`,
  `IssuerRedeems`, and the refinement `CodesAreOneShot`, whose mapping reads a
  code's status off store, age and history; the purge and the clock map to
  `Lapse` of the codes that have expired by then.
- **`WebhookIngressProofs`.** `FlagsHonest` (a marked bundle is bound in full,
  although passes are cut short) is what makes discovery honest; `Admission`
  remembers what a request that is still reading its body was admitted with;
  `Numbering` keeps configurations that are not built out of reach. `TypeCorrect`,
  `DiscoveryIsBound`, `HaAuthFailsClosed`, `RegistrationIsWhole`,
  `AdmissionHolds`, and the refinement `RegistersInTurn`.
- **`RefreshIdentityProofs`.** `Sealing` (an envelope is made around the identity
  the grant is bound to) is the link between the code leg and the refresh leg.
  `TypeCorrect`, `EnvelopesAreFaithful`, `RevocationIsHonest`. A second invariant,
  `KeptInv`, is for documents and keys that do not change: every grant is bound
  to what `Resolve` yields of the kept document. `DerivedAgrees` is the lemma that
  carries it, that the refresh leg's guess (`Derived`) and the authorize leg's
  resolution agree whenever the identity is `Reproducible`. `IdentityIsExact`,
  `NewSessionsRefresh`.
- **`FilesystemCreateProofs`.** `StaysInside` is not inductive: that a call holds a
  directory of the folder says nothing of what it opens next. `Tree` closes the
  gap: only directories have entries, an inode is under one name at most, and a
  directory in a folder that was inside was inside itself, which the moves of
  other processes keep. `Writing` says that a file a call has open is its
  own, `Walking` that a walk starts at the configuration directory and has
  components left. `TypeCorrect`, `CallsStayInside`, `FilesAreKept`. A second
  invariant, `CleanInv`, is for calls alone: as long as no other process has acted,
  a file that a call has made and not finished, or has given up because its clean-up
  or fstat failed, is under its name, is partial, and
  has that call as its one owner (`Owned`). Without it the removal by name could
  miss the file or meet another one, that of a call that gave up included.
  `LeftoversHaveCause`. A third, `CauseInv`, is
  for calls alone of which none has ended by a fault: where a call stands is where the
  names it has walked lead (`Arrived`). Since nothing is removed then, the tree only
  grows: what leads somewhere goes on leading there (`LeadsStays`), what obstructs a
  call goes on obstructing it (`ObstructedStays`), and a parent that another call made
  first is found by the open that follows. `RefusalsHaveCause`. A look-up along a path
  is stated as the walk it takes, so that one more step extends the walk
  (`LeadsOn`) and no recursion is left.
- **`CimdLookupProofs`.** `Timely` says that a pending lookup is within its deadline
  and that what it reads was said since it began; it is what makes an entry's
  lifetime, which counts from the clock the lookup started with, bound the age of
  what it says (`Aging`). `Ordered` says that all that stands behind an entry in the
  cache was written since that entry was: when it is evicted while live, it was the
  first of a full cache, and the others and the client just written are the churn.
  `Keep` is computed by recursion along the cache; `InductiveSet`, that a set of
  naturals which holds 0 and every successor holds all, is derived from the
  well-foundedness of the naturals and proves what `Keep` selects (`KeepSelects`).
  `TypeCorrect`, `Recency`, `ChurnEvicts`.
- **`DeviceBuilderProofs`.** `IInv` is the type, `CallOK` and `Unraced`. `CallOK`
  ties the await a call stands at to its operation, its report and the frames in
  flight: at "called" the operation was submitted, before "listen" it was not, a
  frame that claims an execution is backed by one. Without it no refusal could be
  shown true. `Unraced` says that what a call has read differs from the options only
  where `dirty` says so. `TypesHold`, `WritesLoseOnlyRaces`, and the refinement
  `CallsKeepTheContract`: each action maps to one step of `ToolContract` or to a
  stutter.
- **`EntrySecretsProofs`.** The inductive invariant says that no retired secret is
  left in the data or in an override, so that no later set-up brings it back, and
  that a loaded entry whose options are unchanged holds what they say.
  `TypesHold`, `RegeneratedStaysOut`, `RegeneratesOnce`, `ServesOverrides`.

Some listed theorems (`CapHolds`, `IssuesAreCurrent`, `UnloadIsFinal`,
`HaAuthFailsClosed`, `RegistrationIsWhole`) state parts of the inductive invariants
that no run lists as a property of its own; `RegistersInTurn` states one
(`TakesTurns`) that no run lists either.

Every safety property and every action property that a passing run checks is the
statement of a theorem. Only model-checked: the liveness properties
(`BringUpTerminates`, `UnloadCompletes`, `ReloadHappens`, `SignalledThreadDies`,
`StoreHeals`, `UnregisterDrains`, `LookupsEnd`, `CallsEnd`), which rest on fairness
and with it on `ENABLED`, out of the prover's reach; and the violations.

## 6. What is left out

- *Entry*: the shutdown of Home Assistant; the retry of a failed import and the
  reasons of a set-up failure; what issues and notifications say.
- *Ingress*: header filtering, streaming of single chunks, connect URLs. The 503
  of a webhook without configuration cannot occur, since route and configuration
  change in one step (`RouteBacked`). Any `register_view` may raise.
- *None mode*: access tokens, which nothing checks in this mode; the parameter
  checks of the authorize view. The clock is not set back. The purge drops a code
  at exactly its lifetime and `consume_code` still takes it: both are modelled.
- *ha_auth mode*: a leg is one step, so two legs of one session do not overlap;
  caches and stale documents are arbitrary documents in the hostile regime; Home
  Assistant's acceptance of redirects named in the client's own page is not
  modelled; sizes other than the one that limits the unverified parse of an
  envelope are not modelled.
- *CIMD*: the shape checks of URLs, addresses and documents are one verdict; the
  semaphore's queue has no order.
- *Files*: the validation of the path string; which error code a refusal has;
  writes of other processes into existing files; errors of closing the
  descriptors of directories. A directory counts as inside
  once it was under the folder, also after another process has moved it away:
  a descriptor follows the directory.
- *Add-on*: what an operation carries and returns, the truncation of answers, and
  the network, boot, update and watchdog fields of a configuration, which are
  written as given. The look-up of the add-on by list and then by info is one
  await. That an action is asked of an add-on of another name, or with a
  combination of parameters that is refused, is part of `InfoFails`. The direct
  port, which needs no ingress session, differs in nothing else. A send of a frame
  that blocks because the peer does not read (`addon_tools.py:849`, `980`, `1042`,
  without a time-out): `CallsEnd` does not cover it.
- *Secrets*: their form. That fresh secrets differ from all others is an
  assumption of the model, as it is of `secrets.token_hex`.
- *Tool server*: the tools that read Home Assistant's registries, and the threads of
  the bridge; a cancelled request is `Cancelled` in `DeviceBuilder`.
- *Third-party code*: Home Assistant, aiohttp, uvicorn, fastmcp and mcp, as far
  as the code uses them, in the actions that call them.

## 7. Plan

Modelled, checked and proved about so far: the life cycle, the ingress, both OAuth
modes, the lookup, the filesystem tools, the Supervisor, Device Builder and native
clients, and the secrets. In this order, what would come next:

1. The legs of `RefreshIdentity` cut at their awaits, with `CimdLookup` behind
   them, and the registration view's caps.
2. The shutdown of Home Assistant in `ServerLifecycle`, with the set-up of
   `EntrySecrets` as its first step.
3. Abstract specifications that `FilesystemCreate` (a creation that happens at one
   system call or not at all) and `CimdLookup` (answers that are recent, with no
   cache) implement among calls alone.
