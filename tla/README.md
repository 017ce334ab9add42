# NETSCOPE: TLA+ models, model checking and proofs

NETSCOPE is a Rust agent that watches the connection table of its host and
streams it to browsers, where a HUD draws it and can ask a privileged helper to
block addresses. This directory holds TLA+ models of the parts of it that have
behaviour worth arguing about, the TLC configurations that check them on small
instances, and TLAPS proofs of the most important results for every value of
the constants. `PROJECT.json` maps every definition to the lines of `src/` it
models, and lists the runs, the hazards each property is for, and the theorems.

    tlc -workers 2 -config feed_safety.cfg MCFeed      # one run (see the tables below)
    tlapm FeedProofs.tla                               # one module of proofs

## 1. The system

### Components, state, operations

| Component (source) | State | Operations |
|---|---|---|
| Capture engine (`agent/src/capture/mod.rs`) | `prev` (last world by flow id), `udp_seen`, `pkt_seen`, `generation` | `poll_at`: table rows, drained packets, carry-forward, graduation, linger, TTLs, diff |
| Capture thread and coordinator (`agent/src/main.rs`, `spawn_capture_loop`, `run_coordinator`) | a bounded ring, a `Notify`, a `watch` channel | push or drop, notify; drain, publish, park |
| Rings (`ring/src/`) | `AtomicSpsc`: two wrapping cursors, a copy of each on the other side, slots; `CrossbeamRing`: a library queue | `push`, `pop`, `len`, `drop` |
| Session of one client (`main.rs`, `serve_client`) | `seq`, `last_gen`, `tick` | hello, snapshot, delta or snapshot on a change, heartbeat, snapshot on a resync request |
| Browser feed (`WebSocketConnection.ts`, `useNetscopeStore.ts`) | socket and retry timer; `flows`, `lastSeq`, `lastAppliedSeq`, `needsResync` | connect, detach, retry; apply snapshot or delta, note a seq, ask for a resync |
| Privileged enforcer (`crates/enforcer`) | the `blocked` set; the kernel's set (nft) or the rule group and its in-memory mirror (Windows); the handle `RUNNING` of the service | `apply`, `clear`, `list`, service start and Stop |
| Blocking from the HUD (`Hud.tsx`, `useWardenStore.ts`, `transport/warden.ts`, `agent/src/enforce.rs`) | toggles, plan, confirmation, availability, blocked list, audit log, `busy` | toggle, preview, confirm, apply, block, unblock, unblock all, refresh |
| Self-update (`agent/src/update.rs`) | status, `pending`, the temporary file, the running binary | check (background loop and HUD), apply, `replace_self` |
| Force layout (`scene/force/`, `OrganismNodes.tsx`, `TendrilField.tsx`) | the singleton's node list, generation, positions, `lastById`, `version`; the worker's simulation and timer; instance buffers | push, reply, tick, idle, rewrite on a frame |
| Pairing and access (`agent/src/auth.rs`, the gates of `main.rs`, `transport/auth.ts`, the store) | the current code with its expiry and attempts, the tokens; per device a token, a socket, a request | show, rotate, redeem, revoke, handshake; pair, attach, detach, retry |
| Process sources (`capture/linux.rs`, `capture/windows.rs`) | the cache of process names by pid and start time | poll: sweep `/proc`, read the tables, resolve each row's process |
| Reverse DNS (`enrich/dns.rs`) | a bounded cache, the in-flight set, permits | look up, request, answer or time out |
| Enrichment and classification (`enrich/mod.rs`, `narrator/src/classify.rs`) | the open GeoLite2 files | place, name, categorise and flag a flow; reload |
| Warden policy (`crates/warden`) | the loaded threat database | load feeds, evaluate a policy, plan, generate a firewall file |
| Narrator (`crates/narrator`) | none | scrub a flow or the session, list the providers, explain |
| Setup (`agent/src/setup.rs`, `config.rs`) | the downloaded files, the stored key | download the GeoLite2 editions or the feeds, swap them in, save the key |
| Desktop shell (`frontend/src-tauri`) | window, sidecar handle, updater loop | toggle, quit, exit, spawn and kill the sidecar, update and restart |
| Flow history, mock transport, exposure, scene | a log file and its predecessor; a simulated feed; a score; rendering | see section 5 |

### How they interact

    OS table, packets -> CaptureEngine -> ring -> coordinator -> watch -> session -> socket -> store
                                                                   ^                            |
                                                                   +------- resync request -----+
    store -> ForceLayout <-> worker          HUD -> store -> agent -> helper's queue -> firewall
    HUD / background loop -> update.rs -> release assets, temporary file, running binary
    device -> POST /pair -> auth.rs -> token -> handshake -> session
    table rows -> process source -> enrich (names from DnsResolver, owners from GeoLite2) -> world
    world -> warden (plan, firewall file) and narrator (scrubbed session) -> HUD, user, model
    HUD -> setup.rs -> files -> enricher, threat database;  desktop shell -> sidecar agent

The capture loop is a thread of its own; coordinator and sessions are tokio
tasks; check, apply and the helper's round trips run on blocking threads, any
number at once; the helper serves one connection at a time; the browser is one
event loop and the layout worker another.

### What is hard about it, and what makes each part correct

* **Feed.** A wake-up must not be lost between "the ring is empty" and "park"; a
  full ring drops the newest update; a session may skip generations; a client
  may fail to decode a frame, lose its socket at any point, re-attach, or find a
  restarted agent whose numbers begin anew. *Correct* when a mirror the client
  trusts is exactly a world the agent observed, never goes back, and catches up.
* **Capture.** Flows seen in the table, in packets or in both, with two TTLs, late
  polls and failing ones. *Correct* when a flow is shown exactly as long as its
  sightings say and replaying the deltas gives the world.
* **SPSC ring.** Relaxed loads, stale cached cursors, wrap-around. *Correct* when it
  is a bounded FIFO and no access meets a slot in the wrong state.
* **Enforcer.** Commands fail one by one, the process crashes while the kernel keeps
  its rules, Stop races with start and with requests. *Correct* when protected
  addresses never get in, the cap holds, and the list says what is dropped.
* **Blocking panel.** The agent gives up after five seconds, the helper executes the
  request later. *Correct* when the audit log is true and the buttons come back.
* **Updater.** Overlapping checks and applies, a release replaced asset by asset,
  failures between any two steps. *Correct* when the offer is what is applied,
  the binary is whole and never older.
* **Access.** Codes expire, are guessed at and replaced while a device types one; the
  agent forgets everything when it restarts while devices hold tokens. *Correct*
  when a code buys one token, what is shown stays good, a session is open only for
  who may have it, and who may gets back in.
* **Process sources and DNS.** A pid, its start and its name are read at different
  moments, in which pids change hands; lookups hang, overlap and are evicted.
  *Correct* when no row names the dead or a stranger, and lookups end and do not storm.
* **Enrichment, warden, narrator.** They judge the same flow by its category and by its
  address, with names and owners that arrive at different polls, and their files
  are applied over one another. *Correct* when home is never blocked nor described
  off the machine, and the firewall is the plan.
* **Setup and shell.** Downloads overlap, clients leave, the shell kills the agent at
  any step or is killed itself, an update waits for a hidden window. *Correct* when no
  half-written file is used, memory follows the disk, an agent outlives its shell only if
  that was killed or its kill failed, and the update comes.
* **Layout.** Replies to an earlier push, effects that run after frames, components
  that skip rewrites, a worker that idles. *Correct* when positions belong to their
  nodes and the drawing comes to rest on the last world.

## 2. Modules

| Module | Kind | Models |
|---|---|---|
| `Broadcast` | abstract | what the feed promises: each client shows one observed world after another, never an older one, or knows it does not |
| `Feed` | system | capture thread, ring, coordinator, watch, sessions, sockets, stores, restarts; composes the agent side and the browser side |
| `MCFeed` | instance | names flows and symmetry for TLC |
| `FeedProofs` | proofs | of `Feed` |
| `CaptureEngine`, `MCCaptureEngine` | system, instance | `poll_at` |
| `BoundedFifo` | abstract | what the trait `Ring<T>` promises |
| `AtomicSpsc` | system | the hand-built ring, access by access |
| `AtomicSpscProofs` | proofs | of `AtomicSpsc`, with remainders and windows |
| `BlockList` | abstract | what the helper promises: addresses are listed and dropped in one step, under the floor and the cap, and taken off in one step |
| `Enforcer` | system | the helper with its nft and Windows backends and the Windows service |
| `EnforcerProofs` | proofs | of `Enforcer` |
| `WardenPanel` | system | panel, store, agent and the helper's queue |
| `Updater` | system | checks, applies and restarts |
| `ForceLayout` | system | singleton, worker and the two components that draw |
| `Access` | system | the agent's codes and tokens, its gates, and the devices |
| `AccessProofs` | proofs | of `Access` |
| `Attribution`, `MCAttribution` | system, instance | the process sources over a changing system, and `DnsResolver` |
| `AttributionProofs` | proofs | of `Attribution` |
| `Flows` | operators | from a row to an enriched, categorised, flagged flow |
| `Warden` | operators, on `Flows` | networks, feeds, policies, plans, firewall files and what a firewall makes of them |
| `Narrator` | operators, on `Flows` | the scrub boundary, the offline answers, the providers |
| `World`, `MCWorld` | system, instance | composes `Warden` and `Narrator` over one world that each poll replaces |
| `WorldProofs` | proofs | of `CaptureEngine`, which makes the flow table, and of `World`, which acts on it |
| `Setup` | component | downloads, swap, stored key, crash and boot |
| `Desktop` | system | the shell, composed with the agent of `Setup` |
| `UpdateProofs` | proofs | of `Updater` and of `Desktop` with `Setup`: what is installed, fetched and kept on disk |
| `HudProofs` | proofs | of `WardenPanel` and `ForceLayout`: what the HUD shows |

Definitions that begin with the comment `A mistake:` are deliberately wrong
variants of the definition after them. They occur in no specification; each is the
mutant that shows that some property would notice that bug.

### Feed

The worlds the engine has published are kept in `captured`, and everything
downstream names a world by its index. `ring`, `dropped`, `permit` (the permit
`Notify` stores) and `watch` are the channels of `main.rs`; `coord` and `held` are
where `run_coordinator` is: popping, having found the ring empty, or parked.
`stage`, `seq`, `lastGen` and `tick` are the locals of `serve_client`; `wire` and
`up` are the socket's two directions (`up` counts resync requests). `lastSeq`,
`lastAppliedSeq`, `needsResync`, `flows` are the store. `at`, `based` and the
`idx` of a frame are history.

| Action | Code |
|---|---|
| `Poll`, `NotifyOne` | the capture loop: poll, push (or drop and count), `notify_one`, as two steps |
| `Pop`, `Publish`, `FindEmpty`, `Park`, `Wake` | `run_coordinator` around its `pop` loop and its `notified().await` |
| `Connect`, `SendHello`, `SendSnapshot`, `SendChange`, `SendHeartbeat`, `AnswerResync` | `serve_client`, one step for each `await` of a send and each branch of its `select!` |
| `OnHello`, `OnSnapshot`, `OnDelta`, `OnHeartbeat`, `SkipFrame` | the store's handlers and the decoder that skips a bad frame |
| `Break`, `Attach`, `Detach`, `Restart` | a broken socket with its retry, the user's attach and detach, a restart of the agent |

A restart appends the empty world the new engine starts from. The sockets
deliver in order; what is behind a break is lost. The flow history is off, as it
is by default.

### CaptureEngine

One action per outcome of `poll_at`: `PollAt(dt, rows, traffic)` and `PollFails(dt)`.
The helpers follow the code's passes in its order: `TableFlows` (a listener
never hides a connection, duplicates merge), `SeenInTable` and `CarryForward`,
`Graduate`, `MergeTraffic` and `SeenOnWire`, `Linger`, `Diff`, `DropEntries`,
`NextGeneration`. Instants are kept as ages, capped where the TTL comparison can
no longer tell them apart. `mirror`, `sinceTable`, `sincePacket` and `polled` are
history: the reader who replays the deltas, and the sightings from which
`Alive` decides, with no reference to the engine's maps, what ought to be shown.

### AtomicSpsc and BoundedFifo

A step for each access another thread can come between: in `push` the check
against the cached head, the Acquire load of `head`, the slot write, the Release
store of `tail`; likewise in `pop`; the two loads of `len`; and `drop`. An Acquire
load returns any value between the last one the thread saw and the newest
(`exact` picks the runs in which it is the newest). `IsFifo` refines `BoundedFifo` with the queue read off the cursors.

### Enforcer

`ReceiveApply`, `AddElements`, `RemoveElements`, `Answer` are `Enforcer::apply`:
filter, cap, the two commands, each followed by its update of `blocked` on
success only. `ReceiveClear`, `ClearFirewall`, `ClearSet` are `clear`. `Start`,
`Serve`, `GiveUp`, `Crash` are the process; `Stop`, `StopClearsFirewall`,
`StopClearsSet`, `Exit` are the service's control thread, which runs beside the
server. `Rewrite` is what a successful change leaves in the firewall and
`ChangeFails` what a failed one does: nothing with nft (`nft -f` is one transaction),
anything the script can leave behind on Windows. Assumed: at most 200 addresses, so that the Windows group is one chunk of rules;
add and remove lists are sets. Ping, List and refused peers change nothing and are
left out. `inherited` and `late` are history: what a process found in the firewall when it began, and
what came into it after its Stop had cleared.

With nft the helper is a `BlockList` (`IsBlockList`): the firewall is `dropped`, and what List reports is `listed`, except
that it is already empty between the two halves of a Clear. On Windows it is none, as a failing script can take listed
addresses out of the firewall; there the mapping is constant and the views are compared by `UnlistedIsInherited` and `ViewsAgree`.

### WardenPanel

The panel (`Toggle`, `Preview`, `AskConfirm`, `Cancel`, `Confirm`, `BlockFlow`,
`Unblock`, `UnblockAll`, `Reopen`), the agent's two round trips (`ForwardOp`,
`OpTimesOut`, `ForwardRead`, `ReadTimesOut`), the helper (`Serve`, `Refuse`) and the
store's continuations (`Answered`, `Refreshed`). A request the agent has given up on stays in `queue` with no owner and is executed when its turn comes. `clearAudit` empties the log. `Reload` is a new page: the log is kept in `localStorage`, everything else of the store begins anew.
A request of the old page is at the helper, where it stays in `queue` as one given up on, or is lost; one
that reaches the helper only after a request of the new page is left out. The log says what the user
"blocked or unblocked" (`useWardenStore.ts:3-4`), but a change whose answer the page never sees, because it timed
out or the page was reloaded, leaves no entry; `unrecorded` (history) has the kinds of change for which that is so, and
`AuditIsTrue` speaks of an entry only while no such change to the contrary may have been made. Modelled on
Unix, where the socket has a read timeout, with one tab; what `Enforcer` does to
the firewall is reduced to "succeeds or changes nothing". Rule generation, the
threat-feed toggle and the changing flows between a preview and its confirmation
are left out; a preview is one step.

### Updater

`Fetch` and `Store` are the two halves of `check` around its network call;
`Begin`, `Download`, `Truncate`, `Write`, `WriteFails`, `Replace`, `ReplaceFails`,
`Remove` are `apply` and `replace_self`, with `fs::write` in the two steps the file
system shows. `PublishExe` and `PublishManifest` are the CI job that replaces the
assets one after the other. A file is the build its bytes are of and whether it is
whole; its hash is the file. `self_replace` is taken to copy and rename. A `dev` build, or one with
`NETSCOPE_NO_UPDATE`, takes no step.

### ForceLayout

`Commit` is React committing a world and a mode, `RunEffects` the effects of the
components, in their order, `Frame` one animation frame of both components,
`Receive` the singleton's `onmessage`; `HandleSet`, `HandleStop`, `Tick` are the
worker. A position is named by what it was computed from, so that a wrong one
can be told. The signature of a push is compared as what it is made from; in the code it is a
32-bit hash of that, which may collide. Disposal, the cap of 512 instances and the look of an instance are
left out.

### Access

`pairing` and `tokens` are `AuthState`; a code and a token are numbers in the order
they are drawn. `CurrentCode`, `RotateCode`, `Redeem`, `Revoke` are its operations, and
the `_handler` operators their loopback gates; `Admits` is the pair of gates in
`ws_handler`. `Pair`, `PairSucceeds`, `PairFails`, `Attach`, `Detach` are the store, `Retry`
the connection's timer. `Drop` and `RequestLost` are the network, `Tick` the clock,
`Restart` a new process with nothing in memory. A foreign page dials and does
nothing else here.

### Attribution

The system (`Start`, `Open`, `Exit`) moves between any two reads of the capture thread:
`Sweep` reads one process's descriptors, `ReadTable` or `TableFails` a table,
`resolve_process` looks at one row (`Unowned`, `Hit`, `Miss`), and on Linux `ReadName`
reads `comm` after the start time. Windows names the owner in the table and reads
the name through a handle that holds the process. `EndPoll` prunes the cache
and hands the addresses to `Enrich`, `RequestKnown`, `RequestMissed`, `Insert`: the three
looks of `lookup` and `request`, each under its own lock. `Acquire`, `Answer`,
`TimesOut`, `Finish` are the task of a lookup. The blocking thread of a lookup that timed
out goes on and changes nothing here. Sockets shared by a fork, and
a process that replaces itself with `exec`, are left out.

### Flows, Warden, Narrator and World

An address has two bits and a family: enough for the private range, the
carrier-grade range and two public addresses in each, and for every prefix from
nothing to one too long. A name is the sequence of its labels, an organisation
the set of its words. `World`'s actions are `Poll`, the HTTP requests (`Apply`, `Unblock`,
`Generate`, `ReportThreats`, `Menu`, `ExplainNode`, `ExplainSession`), `LoadFeeds`, and the user, who runs and
removes files by hand. The firewall tools are taken at their word: a command with the
arguments the generator writes does what they say. That the installed `netsh` accepts them (`group=` on an `add` or a
`delete` among them) is not examined, and a command that fails is not modelled. A file is run one command at a time: a batch file changes the firewall with
every command (`RunCommand`), a file of nft or pf at its end, if no command has failed (`RunStatement`); `Interrupt`
ends either between two commands, and `RemoveRules` is the command in the file's header. A poll is one step because requests only read the
published world; what changes while it runs (one name, or the GeoIP files)
reaches the rows that are enriched late. The user reads an answer before the next poll,
which loses nothing: an answer is a function of the world it was made from. The
reference side of `PlanIsRight` (`Home`, `Within`, `Listed`, `Spared`, `Matched`) is written
separately from the code's: intervals for masks, suffixes compared label by label,
no order of precedence.

### Setup and Desktop

A job fetches its items one after the other: `Create`, `WritePiece`, `Rename`, or `Fails`, then
`Load`, `Swap`, `Save`. A job that cannot open the config file ends well and leaves the config alone (`Swap`), and a
write of it that fails is only warned about (`Save`). The file of a temporary name is an inode: a second download
truncates the one that is there, and a rename moves it under the writer. A client
that leaves is `Unattended`: the blocking thread finishes and nobody swaps. `Die` and
`Boot` are the agent's; `Desktop` calls them from `Ends` and `Bind`.

`Desktop` numbers the agents it has spawned and keeps the stage of each (`sidecars`: starting, serving, dead); `handle` is the
child the shell holds. `toggle_main`, `Quit`, `ExitRequested` and the updater loop (`Wake`, `TryAgain`, `Install`, `Decide`)
are its handlers, and `SystemExit` an exit that the runtime asks for itself. `kill_agent` takes the handle and may fail, which the code
ignores (`let _ = child.kill()`). `ShellDies` is everything else that ends a shell: it is killed, it gets a signal (it
handles none), it panics. No handler runs and the sidecar is not told. `Launch` starts a shell, by the restart or by the user, with a
sidecar, which has loaded the disk and binds the port in `Bind`, or ends because a stray agent has it. `SidecarDies` may
take any agent at any time. `lost` is history: the agents whose shell died, or whose kill failed. `NoStrayAgent` says that there are
no others: "quitting - from the menu or a true exit - terminates the agent" (`src-tauri/src/main.rs:12-13`), the updater's restart
included. One shell runs at a time.

## 3. Runs

| Run | Instance | What it shows |
|---|---|---|
| `feed_safety` (1.46 M states) | 1 client, 2 flows, ring of 2, 2 frames in flight, 4 worlds, 1 heartbeat, 1 lost frame, 1 disruption | `HandOff`: no wake-up is lost (`NoLostWakeup`), updates reach the watch channel in order (`PipelineOrdered`) and none vanishes uncounted (`NothingVanishes`). A trusted mirror is an observed world (`FaithfulMirror`). `GapsHold`: no gap is announced without a loss (`NoFalseGap`), and an open one has its answer coming (`GapIsAnswered`). A client that has nothing left to hear shows the published world (`QuietIsCurrent`); the feed implements `Broadcast` (`Broadcasts`). |
| `feed_live` (570 k) | ring of 1, 3 worlds, 2 lost frames, 1 disruption | Once the world settles every attached client shows the newest world the ring accepted (`KeptWorldShown`); an announced gap is healed unless a second frame is lost (`GapHeals`). |
| `capture` (10 k) | a TCP and a UDP flow, UDP TTL 3, packet TTL 2, polls 1 or 2 apart, 8 readings | `Lifetimes` (`FlowLifetimes`, `SeenOfLive`), `MirrorFollows`, `GenerationCounts`. |
| `spsc` (1.2 M) | capacity 2, cursors modulo 8, 2 items | `RingSafe` (`SlotsGuarded`, `CachesLag`, `LiveSlots`), `IsFifo`. |
| `enforcer` (18 k) | 4 addresses, one protected, cap 2, 2 failing commands, both backends | `NeverProtected`, `CapHolds`, `ListIsTrue` (`ListedIsBlocked`, `UnlistedIsInherited`) whatever fails, `StopLeavesOnlyLate`, `ViewsHold` (`ViewsAgree`); the nft helper implements `BlockList` (`IsBlockList`). |
| `layout` (150 k) | 2 flows, 2 groups, 2 dynamic modes and the static one, 2 commits | `DrawnRight` (`RightNode`, `DrawnIsCurrent`), `QuietIsRest`, `ComesToRest`. |
| `warden` (658 k) | 2 addresses, 1 rule, 1 refresh in flight, queue of 2, any number of reloads | `AuditHolds` (`AuditIsTrue`), `BusyEnds`. |
| `access` (329 k) | a local page, a remote device, a foreign page; 2 codes of lifetime 1 and 2 attempts; 2 pairings, 1 loss, 1 restart | `CodesHold` (`CodeBudget`, `ShownIsGood`), `OpenIsAuthorized`, `DevicesServed` (`PairingEnds`, `GetsIn`). |
| `attribution` (290 k) | 1 pid, 2 processes, 2 sockets in 2 tables to 2 addresses, 1 permit, a cache of 1, both platforms | `RowsAreRight` (`NamesAreAlive`, `RightOwner`), `LookupsBounded` (`OneAtATime`, `NoStorm`), `LookupsEnd`. |
| `world` (87 k) | 6 sockets, 4 tables, 3 feed directories, 3 firewalls, chunks of 2; 3 policies to send, 184 to judge by | `PlanIsRight`, `FirewallIsThePlan`, `LocalStaysHome`, `AnswersAreTrue` (`FlagsAgree`, `SummaryIsTrue`). |
| `desktop` (480 k) | both kinds of job, 1 file of 2 pieces, 2 jobs, 2 shells one after the other, 2 builds | `KeptIsRight` (`SoloIsWhole`, `MemoryIsDisk`, `StoredKeyIsAccepted`), `NoStrayAgent`, `ComesThrough` (`JobsEnd`, `UpdateApplies`). |
| `updater` (1.2 M) | 3 builds, 2 checks, 2 applies | `OfferedIsApplied`, `SoloApplyIsSafe`, `NeverOlder`. |

Each also checks its module's type invariant (`TypeOK`, `WorldTypes`, `LayoutTypes`, `DesktopTypes`), in one of its invariants. A property followed by others
in brackets is their conjunction.

### Bounds, and why they are enough

* `MaxWorlds = 4` with a ring of 2 lets the ring fill while an update is held, drop
  one, and have one after it; three worlds and a ring of one do so for `feed_live`.
  `WireCap = 2` has a snapshot behind a hello and two deltas in a row, the least
  the gap detection can fail on. One lost frame and one disruption, in either order, and a second lost
  frame in `feed_live`, where it can be the answer to the first. The clients share only the
  watch channel and never write it, so one of them is enough; the proof is for any number.
* Two TTLs of 3 and 2 with steps of 1 and 2 reach a poll just before, at and
  after each, and a poll that jumps over both.
* Modulus 8 with capacity 2 makes both cursors wrap with every stale cache that
  can be held. Capacity 2 is the least the code builds.
* Four addresses and a cap of two let one request exceed the cap with a known, an
  unknown and a protected address; two failures break both commands of a request.
* Two commits in `layout` allow a second push before the worker's reply to the first.
* A queue of two in `warden` is an abandoned request before the one that is waited for.
* `access`: two codes are the one on the terminal and its successor, whether by expiry, rotation or
  restart; two pairings let two devices compete for a code or one of them pair again, and two
  attempts tell the guess that leaves a code from the one that removes it. Two pairings cannot exceed a budget of two guesses: that part of
  `CodeBudget` is proved, and was checked with three pairings (1,616,456 states, which is too many for the liveness of this run). A lifetime of one has every
  request meet a live and an expired code. One loss and one restart come at any step.
* `attribution`: the pid is used again because there is only one, and a second process is enough to
  be mistaken for the first. One permit and a cache of one make two addresses compete for both.
* `world`: two bits suffice for the boundaries of a prefix (0, 1, full, too long). The tables put
  each special address beside each kind of remote one, and one table has every flow encrypted, so that a summary over flows can be quiet. Policies of one matcher on each side
  are enough for precedence, since both sides of a policy are disjunctions; chunks of two cut
  a plan of three targets. Every policy is judged in every world, and the files of three policies are run
  over one another and over what an interrupted one has left.
* `desktop`: two pieces have a file created, half written and whole. Two jobs are the least that overlap, and two shells the least
  with which a stray agent can be in the way of a new one. A job that fails between two files is proved, and was
  checked with two files and one build (1,146,868 states).
* Three builds are an old, a running and a new one; two checks and two applies overlap pairwise.

### Fairness

Liveness is checked under weak fairness of what the scheduler or a timer runs:

* `feed_live`: the capture thread returns from `notify_one`; tokio polls ready tasks
  (coordinator, sessions, each ready branch of a `select!`, which tokio tries in
  random order); the browser delivers what has arrived and its retry timer fires.
  Nothing is assumed of the OS table, of users, of heartbeats or of sockets.
* `layout`: effects, animation frames, message delivery and the worker's timer run.
* `access`: the agent's tasks run, and the timers and continuations of its own pages; nobody
  has to ask for a code, and a foreign page is left to itself.
* `attribution`: the timer of a lookup fires and its task runs; a queued task gets its permit in turn
  (tokio's semaphore is fair). The OS resolver may never answer, and nothing makes a poll come.
* `desktop`: a job's thread runs on; the exit event follows a request to exit and a process a
  restart; the loop wakes. `SF` on `Install` says that a download which is tried for ever
  succeeds at last, without which no update could be promised.
* `warden`: the agent's timeouts fire and the browser runs the continuation of an
  answered request. The helper may hang for ever.

Deadlock is not checked where the bounds let the model stop (`MCFeed`, `AtomicSpsc`
after `drop`, `ForceLayout` at rest, `Desktop` once its launches are used up) and is checked everywhere else.

### Said and not kept

The modules end with further statements of the repository that the code does not
keep. Put one in place of the properties of the component's cfg (as a PROPERTY
where it is a formula over steps) to see it fail:

* `Feed!DropsHeal` ("every payload carries a full snapshot and the protocol's generation-gap
  resync heals any drop", `ring/src/lib.rs:20-22`): the full ring drops the newest update (`main.rs:1438`) and nothing changes afterwards:
  the watch channel and the clients stay at the older world, and a resync is answered from that same watch value.
* `Feed!EveryGapHeals` ("on a gap sends `resync` and heals on the snapshot", `docs/protocol.md:144-145`): the store asks once
  in a gap (`useNetscopeStore.ts:107`), so when the answer cannot be decoded either the gap stays open until the session next
  skips a generation or reconnects.
* `Enforcer!StopStops` ("Fail-open: drop every block, report stopped, and exit.", `enforcer/src/main.rs:247`):
  Stop arrives before the server thread has published its handle; it finds nothing to
  clear (`main.rs:228`) and nothing ends the process.
* `WardenPanel!UnblockReachable` ("'unblock all' is always one click away", `useWardenStore.ts:7-8`): a refresh that
  fails for any reason hides the buttons as if there were no helper (`warden.ts:146`); a block that timed out is carried out later and listed nowhere.
* `Updater!InstalledIsWhole` (apply "downloads ..., verifies ..., replaces", `update.rs:177-178`): two applies share one
  temporary file, which is named after the process only (`update.rs:234`): the second truncates what the first swaps in.
* `Access!PairedIsInUse` (`useNetscopeStore.ts:37`): `paired` stays true after an attach that holds no token.
* `Attribution!NamesStick` ("if one isn't already cached or in flight", `dns.rs:65-66`): the cache and the in-flight set are
  checked under two locks, so a lookup can begin just after one has ended, and its timeout replaces the name by an absence.
* `World!EncryptedIsRemote` (`explain.rs:308`): "n of m remote flows are encrypted" counts encrypted local flows, capped at m.
* `World!MappedStaysHome` (`narrator/src/lib.rs:9-17`): the IPv4-mapped form of a private address, as a dual-stack socket shows it,
  is taken for remote by every check, so its name and place are in the scrubbed session.
* `Desktop!NeverHalfWritten` (`setup.rs:52-53`): two overlapping downloads write through one temporary name, and one renames
  what the other has just truncated.
* `Desktop!KeyIsKept` (`main.rs:669`): an agent that dies while `fs::write` saves the config loses the key it had.
* `Desktop!NothingLingers` ("Quit ... also stops the agent so nothing lingers", `README.md:122`): after a shell was
  killed, the next shell's sidecar gives way to the stray one, and Quit kills only its own child; it also ignores a kill that fails.
* `Feed!DeltaHasBase` (gaps are found on the global seq line): the first snapshot of a session
  is lost before any seq was noted, and a delta is applied to no base. `noteSeq` requires
  `lastSeq >= 0`. The mirror is then untrusted until the next skipped generation.
* `Feed!TickSinceStart` ("since the agent started", docs/protocol.md:103): `tick` is a local of `serve_client` and
  begins at zero in each session.
* `AtomicSpsc!LenApproximate`: a third thread loads `tail`, a push and two pops
  follow, it loads `head`: the difference wraps. Only tests and the benchmark call `len`.
* `Enforcer!ViewIsAuthoritative`: a restarted nft helper lists nothing while the kernel keeps its set.
* `Enforcer!StopLeavesNothing`: a request served between Stop's clear and the exit adds rules.
* `ForceLayout!OfItsMode`, `NoFlash`, `TendrilsMeetNodes`: held positions survive a switch of
  mode; a second push before the reply loses the held positions; the tendrils'
  effect runs before the nodes' effect has set the spread.
* `WardenPanel!PreviewedIsApplied`: a plan stays on screen while the toggles change, and the toggles are applied.

Met while reading, and not stated in a module: the allowlist wins per flow and not per
address (`warden/src/lib.rs:16-17`), so a name that lands between two flows to one address during a poll leaves it blocked;
`OLLAMA_URL` may point off the machine while the menu says `local: true`; a feed that
cannot be read as text empties the whole threat set (`threat.rs:122` with `main.rs:785`), against "a feed
being down shouldn't zero the intel" (`main.rs:765`); the window is visible after the
restart that its comment calls invisible (`src-tauri/src/main.rs:75-77`); a sidecar that died is not spawned
again; a history file whose reopening fails after its rotation is never rotated again (`history.rs:99-110`).

## 4. Proofs

TLAPS checks these for every value of the constants that satisfies the
assumption named in the module (`FeedAssumption` and `UnknownAssumption`, `CaptureAssumption`,
`SpscAssumption`, `EnforcerAssumption`, `PanelAssumption`, `LayoutAssumption`, `UpdaterAssumption`,
`SetupAssumption` and `DesktopAssumption`, `AccessAssumption`, `AttributionAssumption`, `FlowsAssumption`
and `WorldAssumption`): any number of clients, flows, ring places,
worlds, losses; any lifetimes of flows and times between polls; any capacity and any cursor width that is
a multiple of it; any finite set of addresses and any cap; any length of the helper's queue; any number of
builds, checks and applies, of files, pieces and downloads, of devices, codes and guesses, of pids, sockets, permits and cached
names; any finite tables, any names, owners, feeds and policies. An address keeps its two bits. The
bounds on counters (`MaxWorlds`, `MaxRestarts`, ...) are constants too, so that a theorem holds for each of them.

| Module | Theorem | Result |
|---|---|---|
| `FeedProofs` | `Invariance` | `Spec => []IInv` |
| | `TypeCorrect`, `WakeupNotLost`, `Ordered`, `AccountedFor`; `HandOffHolds` | `TypeOK`, `NoLostWakeup`, `PipelineOrdered`, `NothingVanishes`; together `HandOff` |
| | `MirrorFaithful` | `FaithfulMirror`: a trusted mirror is an observed world |
| | `GapsAreReal` | `NoFalseGap`: no gap is announced unless a frame was lost |
| | `GapsAreAnswered` | `GapIsAnswered`: an open gap has its answer coming, unless a second frame was lost |
| | `GapDiscipline` | `GapsHold`: both |
| | `QuietFeedIsCurrent` | `QuietIsCurrent`: a client that has nothing left to hear shows the published world |
| | `ImplementsBroadcast` | `Broadcasts`: the feed implements `Broadcast` |
| `WorldProofs` | `Invariance` | of `CaptureEngine`: `Spec => []IInv` |
| | `LifetimesHold`, `MirrorsFollow`, `GenerationsCount` | `Lifetimes`, `MirrorFollows`, `GenerationCounts` |
| | `WorldInvariance` | of `World`: `WorldSpec => []WorldInv` |
| | `PlansAreRight`, `HomeIsKept`, `AnswersHold` | `PlanIsRight`, `LocalStaysHome`, `AnswersAreTrue` |
| | `FilesRun` | of `World`: `WorldSpec => []FileInv` |
| | `FirewallFollows` | `FirewallIsThePlan`: the firewall drops nothing but the last plan, and all of it when its file was run to the end |
| `AtomicSpscProofs` | `Invariance` | `Spec => []IInv` |
| | `RingIsSafe` | `RingSafe`: no access finds a slot in the wrong state, cached cursors lag |
| | `ImplementsFifo` | `IsFifo`: the ring implements `BoundedFifo` |
| `EnforcerProofs` | `Invariance` | `Spec => []IInv` |
| | `TypeCorrect`, `FloorHolds` | `TypeOK`, `NeverProtected`, both backends |
| | `CapIsHard`, `ListTellsTheTruth` | `CapHolds`, `ListedIsBlocked`, nft |
| | `ListIsComplete` | `UnlistedIsInherited`: what is dropped and not listed is from an earlier process, both backends |
| | `ListIsTheTruth` | `ListIsTrue`: both |
| | `ViewsStayTogether`, `StopIsThorough` | `ViewsHold`, `StopLeavesOnlyLate`, Windows |
| | `ImplementsBlockList` | `IsBlockList`: the nft helper implements `BlockList` |
| `HudProofs` | `Invariance`, `AuditIsKept` | of `WardenPanel`: `Spec => []IInv`, `AuditHolds` |
| | `LayoutInvariance`, `DrawnHolds` | of `ForceLayout`: `LayoutSpec => []LayoutInv`, `DrawnRight` |
| | `QuietMeansRest` | `QuietIsRest`: when all is quiet the drawing is the simulation of the present world at rest |
| `UpdateProofs` | `Invariance` | of `Updater`: `Spec => []IInv` |
| | `TypeCorrect`, `OfferHolds`, `SoloIsSafe`, `ForwardOnly` | `TypeOK`, `OfferedIsApplied`, `SoloApplyIsSafe`, `NeverOlder` |
| | `DesktopInvariance` | of `Desktop`: `DesktopSpec => []DesktopInv` |
| | `KeptHolds`, `NoAgentStrays` | `KeptIsRight`, `NoStrayAgent` |
| `AccessProofs` | `Invariance` | `Spec => []IInv` |
| | `CodePromises`, `OpenAuthorized` | `CodesHold`, `OpenIsAuthorized` |
| `AttributionProofs` | `Invariance` | `Spec => []IInv` |
| | `RowsHold`, `LookupsHold` | `RowsAreRight`, `LookupsBounded` |

The properties are proved from an inductive invariant (`IInv`, `WorldInv`, `LayoutInv`, `DesktopInv`), because none of
them is inductive as it stands. What each adds, and why:

**Feed.** A delta leads to the right world only from
the right base, and only the numbering of the frames says that the client has
it. `IInv` adds, for each client, what its session has sent (`SessionInv`), that
the frames on the wire are numbered without a hole and each delta continues the
frame before it (`WireInv`), and that when no frame is missing between the client's
last seq and the wire, the first frame continues the world shown (`CursorInv`).
Appending a frame (`WireAppend`), taking one (`WireTail`) and replaying a delta
(`DeltaLeads`) are lemmas; each action has a step. `NoFalseGap` needs a second invariant on top,
`GapInv`: as long as nothing was lost, a client whose session has sent it a snapshot has every seq up to
the first frame in flight, and one whose session has not will see the snapshot before any seq
it notes. That a quiet client is current follows from both: with an empty wire and no seq missing its cursor is the last frame its session
sent, which `SessionInv` ties to the watch. `GapIsAnswered` is inductive once gaps are known to be real: the frame that is lost
behind an open gap is then the second. For `Broadcast`, a poll or a restart maps to `Observe`, a frame that is taken to
`Show` or `Distrust` of its client or leaves its view alone, every other step to a stutter.

**CaptureEngine.** The properties speak of sightings and the engine of its maps. `UdpAges` says that
`udp_seen` has the age of the last row of each UDP flow, also of one that is no longer in
the table, and `PktAges` that `pkt_seen` has the age of the last packet exactly of the flows that packets
alone keep alive and a stale entry at most of others. Which of duplicate rows wins is the least index, taken from
`WellFoundedInduction`; that a delta replayed on the old world gives the new one is a lemma about worlds.

**AtomicSpsc.** The cursors wrap, so everything is first proved of remainders: the distances round
the circle (`Minus`, `Plus`), the arc that the four cursors keep their order on, and the window of slots from a cursor, which
grows and shrinks by one slot at a time and never meets itself while it is no longer than the capacity. `Underway` is what
a call in the middle has established (room for its item, an item to read, the item in the slot it is to publish). The
refinement maps the store of `tail` to `Store`, that of `head` to `Take`, and the checks that give up to `Refuse` and `FindNothing`.

**Enforcer.** The floor needs to cover every set an address passes through on its
way (`Floor`); the nft results need the order of steps in a request (`NftView`):
the list grows after the kernel, a Clear empties the kernel before the list, and
the cap is kept by the list together with what is about to be added. The Windows result needs that a crash empties the mirror
and the list together and that a Clear empties both of the others before the list (`WfwView`). When commands fail the three no
longer agree, but they keep an order (`WfwBound`): a script can lose rules and none can bring back what the list
has lost, so that what is dropped is listed or inherited, and after a Stop has cleared is among what came late, for the mirror
from which the next script is written as well as for the firewall.
For `BlockList`, a successful first command of a request maps to `Add`, a second to `Remove` (what it takes off is listed, which
`NftView` keeps up while the request is under way), the first half of a Clear to `Clear`, the end of the process to
`Forget`, and every other step, the failures among them, to a stutter.

**WardenPanel.** The audit log is true at rest because of what may still be in the helper's queue:
a request that is waited for is there exactly once (`OneEach`) and nothing that changes the set is behind it
(`OpInQueue`), since the panel sends one request at a time and the queue is served in order. An answer that
succeeded is then true of the set (`AnswerIsTrue`), and an entry stands until something to the contrary is asked for (`UnblockStands`,
`BlockStands`), which a reload does not change: what it leaves in the queue it notes in `unrecorded`. `PanelAssumption` says that `None` is not the name of a client: a request that was given up on belongs to nobody.

**Updater.** Every build on its way to the disk is newer than the running one
(`Forward`), and as long as applies have not overlapped only one is under way, it
opened the temporary file last, and the file is whole from the last byte written
to the swap (`Alone`).

**Desktop.** A download that is alone knows the file it writes (`Mine`): the temporary name is still that of its inode, which has the
pieces written so far, and the files after it have not been named by it. On the disk a file has one name at a time and a
final one only when it is whole (`DiskIsWhole`). All of it, and that memory is what the disk holds after a
success or a boot, stands as long as no two downloads have overlapped (`Undisturbed`). The agent and the shell are
proved apart and put together: the steps of `Setup` keep `AgentInv`, and `OneServes` says that a living agent is the one the shell
has a handle to or one that `lost` lists, and that at most one of them has the port, which is the agent of `Setup`. A shell
that is gone holds no handle, so a launch forgets no child.

**ForceLayout.** A reply is applied by index, so the proof is about what the index means. `Generations` says that a generation has one
node set, wherever it is (in the manager, on the way to the worker, in its simulation, on the way back), and that a reply of the
present generation has the positions of the present list (`OfTheList`). That the indices of a list are 1 to its
length, each once (`IndexOnce`, `IndexAll`), is a count of the flows up to each: the second follows from the first by the pigeonhole. `MgrRight`
and `Filled` carry it to the held positions and to the buffers. `QuietIsRest` is the safety half of `ComesToRest`; it needs to know
which message, simulation and positions are the newest (`RestInv`): what was pushed last is the last message to the worker, or else what the
worker simulates (`PushedLast`); the positions of its last step are the last reply, or else what the manager has, and the timer
stops only at rest (`PostedLast`).

**World.** A published flow is `Right`: it has its socket's address, is in the local category only at a private address, and has the flags that its
fields call for, whatever was known when it was enriched (`EnrichIsRight`); a socket is published once (`OneEachSocket`).
`PlanIsRight` then compares the code's decision with the reference, matcher by matcher: a masked comparison is one of quotients
(`SameQuotient`, `NetworkIsInterval`, with the prefixes of nothing and of the whole address apart), a
suffix in the set is a comparison label by label (`SuffixIsCompared`), what is loaded is what the usable feeds list (`ThreatIsListed`),
and the floor is `Home` (`FloorIsHome`, which needs that a local flow has a private address). A summary is true
because each scrubbed flow is on one side and an empty count is an empty set (`SessionIsTrue`, `NodeIsTrue`);
the world stays as it is while an answer is on screen.
What the firewall holds is a second invariant on top (`FileInv`): while a batch file is run it drops what the rules so far say,
which are the first `done - 1` chunks of the plan (`HalfRun`; `ChunksCover` is the arithmetic of the chunks and their last, shorter one), and
while a transaction is run it is still what the last file has left. No induction over the commands of a file is
needed, because each is a step. The first command makes room whatever an interrupted file has left, and the table that nft deletes is the one
it has just made sure of (`RoomIsMade`). `PowersAssumption` gives the provers the one fact of
arithmetic they lack, that a power of two is positive; TLC evaluates it.

**Access.** A kept code has lost exactly the guesses that missed and has sold nothing (`Budgets`), which a code that is
redeemed gives up by being taken out. Tokens are bounded by the requests that were made for them (`TokensAskedFor`, a count
of the devices whose request is with the agent), and no token of an earlier process is kept (`TokensOfNow`).

**Attribution.** A socket found under a pid was open by then, and so is either closed by now or that pid still has its
holder (`FoundRight`); the cache may hold a recycled pid under a later name, but only with a start that is past
(`CacheRight`), and starts are not used twice. For the lookups: at most two since the cache forgot an address, at most one while the capture
thread is between its check and the set in flight, and none for an address that is forgotten and has no lookup still to land
(`LookupsSince`). That `Addr` is finite is assumed to count permits and entries; there are finitely many addresses.

TLC checked each `IInv` before it was proved, on the instance of the module's run, in the course of
the proof (`Feed` 1,464,333 states, `CaptureEngine` 9,984 states, `AtomicSpsc`
1,230,602, `WardenPanel` 658,056, `Access` 329,204, and 1,616,456 with three pairings, `Attribution` 289,939, `World` with its `FileInv` 86,571,
`Enforcer` 18,382, `ForceLayout` and its `RestInv` 150,115, `Desktop` 479,784, and 1,146,868 with two files and one build; `GapInv` of `Feed` 148,075 with three worlds).

Only model-checked:

* liveness (`KeptWorldShown`, `GapHeals`, `ComesToRest`, `BusyEnds`, `GetsIn`,
  `PairingEnds`, `LookupsEnd`, `JobsEnd`, `UpdateApplies`) and everything under fairness, which
  is out of the prover's reach. `QuietIsCurrent`, `GapIsAnswered` and `QuietIsRest` are the safety halves of `KeptWorldShown`,
  `GapHeals` and `ComesToRest`: that a system which has stopped has stopped where it should is proved, that it stops is checked.

## 5. Not modelled, and the plan

Not modelled:

* drawing, shaders and panels without protocol state; the geometry of the force simulation, which
  `ForceLayout` takes as a function of its input; the mock transport's simulated feed; the exposure score, a formula;
* parsing (packets, the layout of `/proc` and of the system tables, feeds, archives, the wire codec, the frames
  of the helper's channel), whose results are inputs of the models; the named pipe of Windows, I/O without state of its own;
* the wording of prompts and answers, and the offline evaluation of models (`eval.rs`);
* the packet observer's thread, whose drained traffic is an input of `CaptureEngine`;
* the flow history: one task appends lines and renames one file, so that a property would restate two
  file operations;
* CORS headers, the bundled page and the launch of a browser.

In this order, most important first:

1. Two tabs in `WardenPanel`, and its requests taken from `World`'s plans, so that the
   flows change between preview and apply there too.
2. Two pids in `Attribution` beside one address.
3. The exposure score as operators.
