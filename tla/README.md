# QED64, specified

QED64 runs Lean 4 in the browser: a Monaco editor speaks LSP over a message
port to a page-side relay, which keeps one Lean session alive in a Web Worker,
where a wasm64 build of Lean's FileWorker reads its standard input from a ring
in shared memory.  This directory specifies that program in TLA+, checks it with
TLC and proves the safety of ten of its parts with TLAPS.  The source is the reference:
every definition that models code is listed with the lines it stands for in
`PROJECT.json` (`map`).

Paths below are relative to the repository.

## 1. The system

```
 Monaco / InfoView            page                     |  lean.worker.js (JS thread)      | wasm threads
 ----------------             -----                    |  --------------------------      | ------------
  LSP frames  <-> LspRelay <-> ResidentSession         |                                  |
              (taps: cache,    EditCoalescer ----------+-> front door -> pump -> ring ----+-> FileWorker
               status sink)    LeanSession <- replies -+-- frames <- mailbox <------------+-- stdout
                                                       |  liveness watchdog               |
```

| part | source | state | operations |
| --- | --- | --- | --- |
| LSP relay | `lib/lsp-relay.ts`, taps in `frontend/src/relay-taps.ts` | state (`serving`, `rebooting`, `halted`), current session, pending requests, last document and header, deaths | frames from the client, restart, rearm, unload; session events: ready, reply, death, boot outcome |
| Edit coalescer | `lib/edit-coalescer.ts`, fed by `lib/resident-session.ts` | held change, its timers, queue of waiting frames, requests in flight, pool sample | send, settle, observe, flush, dispose |
| Front door | `public/workers/lsp-front-door.js` | phase of the LSP hand-shake, queue, document, two version spaces, last progress, parked backlog | step on a client frame, a server frame, arm, ring drained |
| Resident host and stdin ring | `public/workers/lean.worker.js` 160-300, 780-960 | pump queue, parked flag, READ/WRITE/WAKE words of the ring | apply an outcome, arm, pump, die |
| Liveness watchdog | `lean.worker.js` 380-655 | ages of the last frame, requests and probe; the scheduled confirmation | tick, confirm, client request, server frame |
| Lean session | `lib/client.ts` | pending calls, turn, heartbeat timer, dead and detached flags | call, dispatch, heartbeat, dispose, terminate |
| Resident session's boot | `lib/resident-session.ts`, `lib/qed64-boot.ts` | the boot stage, the packs installed, the snapshots loaded | preflight, prefetch, install, boot, load, warm, write files |
| Raw snapshot cache | `lib/raw-cache.ts`, `public/workers/snapshot-prefetch.worker.js` | flights per key, a cross-tab lock, partial and complete files | prefetch, close, evict |
| Pack installer | `lib/profiles.ts` | OPFS files of a pack, the staging file, the completion marker | install, read the cache, cut into segments, hand over, remove |
| Runtime lifetime locks | `lean.worker.js` 1380-1480, `client.ts` 205-216 | one *wanted* lock per runtime, one *alive* lock per Worker | hold, release, wait |
| Runtime operations | `lean.worker.js` boot, compile, loadSnapshot, writeFiles | who owns the runtime | one call at a time, BAD_STATE otherwise |
| Page | `frontend/src/main.ts`, `self-widen.ts`, `check-fallback.ts`, `page-api.ts` | boot card, fallback timer, last session and death told, calls of `settled()` | a status handed through the page, widen, restart, settled |
| Snapshot choice | `lib/snapshots.ts` | none (pure) | choose for a header, the target of a widen |
| Widget sources | `frontend/src/widget-source-cache.ts` | cache of one session, flights with a leader and waiters | request, cancel, reply, new session |
| Edge worker | `infra/edge-worker.js` | none (the bucket) | GET and HEAD with ranges and preconditions |
| Release pipeline | `pipeline/release/`, `scripts/` | `public/`, the bucket's indexes and snapshots, the deployed worker | fetch, adopt, promote, upload, deploy, roll back |

**How they interact.**  The relay owns which session exists: it starts one,
attaches handlers that check they are still the current session's, replays the
document, arms it, and replaces it when it dies.  `ResidentSession` puts the
coalescer between the relay and `LeanSession`, which posts messages to the
worker.  In the worker the front door is a pure reducer: the host gives it a
frame, writes the frames it returns to the ring and posts the frames for the
client.  A full ring cuts a frame in two and parks the pump; while it is parked
the host tells the reducer to keep a backlog.  The FileWorker's output comes
back as proxied calls in the mailbox of the worker's JS thread.

**What is hard.**  Callbacks re-enter the relay in the middle of an operation;
every asynchronous step may end after its session was replaced; the client's
document moves on while a boot replays it; a re-opened document changes the
version space of frames in both directions; JS and wasm threads share three
words without a lock; wakeups of the mailbox can be lost; the only evidence of a
freeze is silence, which a long elaboration, a suspended laptop or lost output
also produce.  Around the session, tabs share storage with no process that
outlives them, scripts may stop between any two uploads while readers boot, and
an embedder's listener may replace the session inside the very event that tells
of it.  `PROJECT.json` lists these hazards by line, with the properties
that cover them.

**What makes each part correct.**

* Relay: every request is answered exactly once, whichever session it was sent
  to; at most one session is alive; a session that serves holds the client's
  newest document; the crash-loop breaker counts the deaths of its window and
  only a re-arm ends a halt; no boot is left undecided.
* Coalescer: the newest text always gets through; a frame is never served
  against another text than it was sent for; frames are not overtaken; requests
  in flight respect the cap; nothing waits for ever.
* Front door and host: the FileWorker reads a legal stream (`initialize`, then
  `didOpen`, then increasing versions); no status or diagnostic is shown for
  another text than it was computed for; no request is lost or doubled by queues
  and parks; an armed session settles.
* Ring: the FileWorker reads exactly the bytes of the frames, whole and in order;
  an acknowledgement means *written*; no wakeup is lost.
* Session: runtime calls reach the worker one at a time; the loop opens after the
  last of them; every call settles, whatever ends the session.
* Watchdog: only a frozen runtime is declared wedged, and every frozen one is; a
  lost wakeup heals.
* Raw cache: one writer at a time over all tabs; a complete region stays complete
  and no partial file outlives the last writer, but one the clean-up found held;
  every caller is answered.
* Pack installer: no worker mounts bytes that were transferred to another, and a
  boot is refused for such a pack only when another boot took one during its loop;
  storage fails an install only when another overlapped it.
* Page: a status or verdict told to the embedder is the current session's; a
  session is widened at most once for a document's imports; every `settled()`
  ends.
* Release: no index names an artifact that is not there, whichever write a script
  stopped after; a boot fails for its pairing only when it could not read a copy
  or the site was deployed under it; `public/` switches its runtime last.

## 2. The modules

| module | models | extends / refines |
| --- | --- | --- |
| `Relay` | `LspRelay`, with listeners that call back in | - |
| `FrontDoor` | the reducer as a pure operator: state and frame to state and outputs | - |
| `ResidentHost` | the host of the reducer, a ring of `RingCap` frames and an abstract FileWorker | `FrontDoor` |
| `ByteChannel` | what a ring promises: an unbounded sequence of bytes, accepted and delivered | - |
| `StdinRing` | pump and reader, one action per access of shared memory | implements `ByteChannel` |
| `EditCoalescer` | the coalescer between a page and a worker | - |
| `Liveness` | watchdog, mailbox, abstract Lean side | - |
| `RuntimeOps` | the worker's handlers of boot, compile, loadSnapshot, writeFiles, arm, and its death, as operators from a state and a call to results | - |
| `LeanSession` | one session: the page's half, the boot run through it, the worker behind two queues of messages | `RuntimeOps` |
| `RawCache` | one raw region in the storage tabs share, its lock, its disposable worker | - |
| `PackInstall` | every page's map of packs, installed pack by pack by tabs and sessions with no lock, and given to workers | - |
| `Release` | promotion, upload, deploy and rollback, and a reader's boot in the middle | - |
| `Snapshots` | the choice of environments for a header, as operators | - |
| `Page` | a status on its way through the page's listeners, widening, `settled()` | `Snapshots` |
| `ResidentHostProofs`, `EditCoalescerProofs`, `RawCacheProofs`, `PackInstallProofs` | theorems about the module they are named after, with their proofs | that module, `TLAPS` |
| `LeanSessionProofs` | theorems about `LeanSession`, `WorkerBoot`, `SnapshotLoad`, `CompileOutput` and `Failures` | these, `TLAPS` |
| `RelayPageProofs` | theorems about `Relay`, `Page`, `Snapshots` and `WidgetSources` | these, `TLAPS` |
| `ReleaseProofs` | theorems about `Release`, `EdgeWorker` and `FetchArtifacts` | these, `TLAPS` |
| `WorkerProofs` | theorems about `StdinRing` and `Liveness` | both, `TLAPS` |
| `MC...` | symmetry sets and constants for TLC; the checks of the operator modules | the modules they name |

Pure code is modelled by modules of operators, without variables.  What they must
satisfy is stated as named assumptions over bounded inputs in the module of the
run that extends them: TLC evaluates an `ASSUME` before it explores a state, so a
false one fails that run.

| operators | model | checked in |
| --- | --- | --- |
| `WorkerBoot` | a boot's chunks, memory ladder, packs, wait for replaced runtimes, threads, guards | `MCLeanSession` |
| `SnapshotLoad` | `loadSnapshot`: cached region or inflated stream into one allocation | `MCLeanSession` |
| `CompileOutput` | a batch compile's lines, diagnostics and answer | `MCLeanSession` |
| `Failures` | the table from codes, statuses and words to causes; the retry after an outage | `MCLeanSession` |
| `LspFrames` | the decoder of Lean's standard output, with junk and resynchronisation | `MCStdinRing` |
| `PackSegments` | how a pack is cut for the worker's memory, and assembled from a stream | `MCPackInstall` |
| `EdgeWorker` | one request for an artifact: key, ranges, preconditions, caching | `MCRelease` |
| `FetchArtifacts` | runs of fetch-artifacts that share a tree, with signals and kills | `MCRelease` |
| `WidgetSources` | leaders, waiters, cancellations, replies, new sessions | `MCPage` |

### Relay

`state` (`serving`, `rebooting`, `halted`), `session`, `doc`, `lastText`,
`pending`, `deaths`, `lastDeath` and the restart options are the relay's fields;
`phase[s]` is the await `boot(s)` is suspended at, for the boots of replaced
sessions too.  `disposed`, `dead`, `atWorker`, `ghosts` and `workerText` are the
sessions: who was disposed, who reported its death, which requests and which
text they hold.  `clientText`, `sent` and `answered` are the editor.

A JavaScript handler runs to its end, so an action is a whole handler
(`ClientChange`, `Rearm`, `SessionReplies`, ...), except that `failInFlight`'s
replies and `halt()`'s status sink run page listeners, which may call the relay
again.  `busy` names the handler that is making such calls (`death`, `restart`,
`halt`): while it does, only `Call` (what a listener can call) and `Resume` (the
rest of that handler) are enabled, and `Event` (a boot's await settles, a session
replies or dies, the clock) waits.  `Next` is `Call`, `Resume` and `Event`.

Sessions are external: one may die once, at any moment of its boot or later; the
promise of `start()` of a disposed session may still resolve; the sessions that
were replaced may still reply or die (`GhostReplies`, `SessionDies`).

### FrontDoor and ResidentHost

`FrontDoor` is the reducer of `lsp-front-door.js` as operators on a record, one
per handler: the client's frames, the server's frames, arming, the park and the
drain of the ring, death.  A text is the number of the edit that made it; a frame
carries its version *and* its text, so a property can compare the two.
`ResidentHost` is the host: it performs a step's writes in order, skips those it
refuses as oversized (`TooLarge`), parks when a frame does not fit (`RingCap`),
and steps the reducer again when the pump has drained.  The FileWorker reads
frames, refuses headers (`RefusedTexts`), reports progress and diagnostics,
answers, and exits.  The two are separate modules because the source separates
the pure reducer from its effects.  What the reducer's loops over a queue give
(the frames a filter leaves, the texts a later one supersedes, the document that
is opened again) are recursive functions and selections of positions, so that the
proofs can speak of them.

### StdinRing and ByteChannel

One action per access that another thread can observe: the pump's read of READ,
its copy, its store of WRITE, its increment of WAKE and its notify; the reader's
load of WAKE, its check, its copy, its store of READ, its wait.  Bytes are pairs
of a frame and an offset; indices wrap at `Cap` as in the code, one slot stays
empty.  The refinement maps the ring's content between READ and WRITE to the
channel's bytes in transit.

### EditCoalescer

A frame is a full-text change, a request, a notification or a keep-alive of one
of two documents.  The three timers are Boolean (set or not), their firing an
action; the pool's sample is `pressured` or `drained`, with its memory.  What leaves
and what stays of the queue are sets of its positions (`Picked`).  The
constant `Windows` says whether runs start with a coalescing window or with a
window of zero.  `rebase` and `supersede` follow what Monaco and the coalescer
do to queued requests; the worker answers requests in any order, or the client
cancels them.

### Liveness

Ages are in ticks of the watchdog's timer.  The environment is as strong as the
code's comments argue it to be: a message that is not lost arrives, and a live
FileWorker answers a probe, within two ticks.  Wakeups are lost at will, the
confirmation timer may be late, the mailbox word may be unreadable, and the
machine may sleep.  Every call in the mailbox is served at once, so what they
leave is stated of the set of calls: which request they answer, the last progress
among them, the first that ends the process.  `mailboxTick`, `mailboxConfirm` and `livenessTick` are the
three pure functions of the source.

### RuntimeOps and LeanSession

A handler of the worker is an operator: `loadSnapshot(w, k)` is the set of
results a load request `k` may have, each the worker's next record and the
messages it posts.  `w.state` is the source's `state`, `w.job` the request that
owns the runtime; boot and loadSnapshot await, so other requests are served in
between, a compile blocks the thread.  An error that is not recoverable is the
message `fatal`.  A front door that cannot be loaded (`WORKER_DEP_MISSING`) is
left out: it ends the session like any other fatal error.

`LeanSession` has `calls` (the promises of `request()`, with who made them and
how they ended), the turn (`queue`, `running`), the facts `dead`, `reported`,
`detached`, the heartbeat's `timer` and `probe`, and the place of the boot
(`step`, `awaits`, `loads`).  Tasks of the page are actions; the continuations
of promises (`TakeTurn`, `BootResumes`, ...) are microtasks, which run before
the next task.  The relay is what surrounds a session: the replay and the arm
when the boot resolved, the disposal in the turn of a death.  `PageCalls` are
the runtime calls a host makes through the session it is handed
(`relay.session.lean`); the source asks that none follow the arm, and the model
keeps to it.

### WorkerBoot, SnapshotLoad, CompileOutput, Failures

The details of the handlers whose outline is `RuntimeOps`.  An operator that may
throw returns the set of what it resolves with, empty when it throws.  Bytes are
abstract (`sha256` of a body is the body); a page of memory is two units and a
GiB four, so that a cap which is no whole number of pages is among the inputs.
A response is what arrived of a body that is the region, the region gzipped or a
page of HTML.  `MCLeanSession` states, over every small input: what is handed to
the runtime is the manifest's bytes whatever the HTTP cache held
(`MaterializedIsTheManifests`); memory is found whenever a rung of the ladder can
be had (`MemoryIsFound`); the mounted files are the pack's
(`MountsWhatIsInThePack`); a new runtime waits for every replaced one that is
named and lives, up to its deadline (`WaitsForTheReplaced`, `NamesAreAdvisory`);
nothing but a region is loaded and a cut stream is the transfer's failure
(`LoadsOnlyARegion`, `CutIsTheTransfers`); the details' results are the outline's
(`BootIsTheOutline`, `LoadIsTheOutline`); lines are shown once
(`EveryLineIsShownOnce`) and a clean compile succeeds (`SuccessIsClean`); the
causes on which a retry acts are causes a retry helps (`NetworkIsWhatARetryHelps`,
`DeathsAreNotTheNetworks`, `AnOutageCostsOneRuntime`); the threads fit the pool
(`ThreadsFitThePool`).

### LspFrames

The decoder's fields byte by byte and its fast path chunk by chunk.  `HEADER` has
four bytes for the fifteen of `Content-Length:`, chosen so that a mismatch may
leave a shorter match, as there; the cap on a junk line is twelve bytes.  Over
every short stream: no frame is lost behind junk (`NoFrameIsLost`), junk or a
line over the cap leaves the channel working (`TheChannelSurvives`), and how the
stream is cut into chunks changes nothing (`ChunksDoNotMatter`).

### RawCache

`call[c]` and `flight[c]` are the awaits of `prefetchRaw` and of the flight the
call began or joined; `current` is each tab's map of flights, `holder` and
`queue` the Web Lock, `worker` the step of the prefetch worker, `mail` its last
message.  `raw`, `partial` and `handle` are the storage.  Every await and every
storage call is a step; a removal the worker does not await (`removals`) lands
at any later moment.  Tabs close at any moment and take their flights, locks and
workers along; a caller may abort or run out of its wait; a worker may fail,
hang or be terminated for its silence; the region may be removed from outside.

A terminated worker's access handle closes at a later moment (`HandleCloses`),
which may come after the flight's removal of the partial: `raw-cache.ts:253`
swallows "absent or held", and so does `Clears`.  `kept` (ghost) remembers that
the last removal found the file held.  The partial then stays until a next
writer; `CacheIsSound` says so, and that nothing else leaves one.  Whether a
handle outlives its worker is the browser's to say.  A removal that is not
awaited is taken to land some time.

### PackInstall and PackSegments

`installed[g]` is tab `g`'s `artifacts.installed`, a map from packs to what the page
holds of each: nothing, its bytes, bytes it gave away (`Spent`), or a stored file,
named by the session that wrote it.  All sessions of the tab share it.  A boot
first installs what it lacks for exact imports, then loops over a snapshot of the
map and installs the spent packs again, one await each (`plan`, `at`, `todo`;
`ahead` are the packs the loop has not reached, whose state it will read then),
then hands the map to `boot()`: `Boots` refuses it when a pack is spent
(`PACK_CONSUMED`, `client.ts:407-412`), or transfers what is in memory.  Another
boot of the page may take packs at any await of the loop; `robbed` (ghost) holds
the sessions it happened to, which alone may be refused.  A disposed session's boot
runs on, so a restart is another session and nothing more.

`pc[s]` is the await inside `installProfile`.  `staging`, `writers`, `pack`,
`marked` are the files of each pack, with the browser's rules for open writers.
A marked, whole pack may prove unreadable (`Reads`, the catch of `readCached`): it
is installed over, which may replace a file another worker has mounted; `misread`
(ghost) names these packs.  A first write that fails records a ceiling of 0, which
reads back as none, so the next install tries storage again (`RecordsCeiling`).
`contended` (ghost) holds the sessions whose install of a pack overlapped another,
`cut` the packs an install of which a closed tab ended: `BlockedOnlyByAnother` excuses
the first of these three alone, `StoreIsSound` nothing beyond them.

The pack for exact imports is the last of the packs, so the loop's order is by
number.  The branch that drops a spent pack the index no longer lists is left out: a
page's index never changes, so it cannot be taken.  A superseded release's files are
one flag (`old`); a manifest that cannot be had and one that pairs with another
release fail the boot alike.  `PackSegments` is the plan of a
pack's segments and their assembly; `SegmentsHoldTheFiles` holds for the tables
the bakery writes, in ascending order.

### Release, EdgeWorker, FetchArtifacts

`pub` is what the four mutable files of `public/` name, `snapIndex` and
`profIndex` the bucket's indexes (the site's own and one copy per runtime),
`deployed` the release of the deployed shell.  A script is a sequence of writes
(`job`), one at a step, and may stop at any; the operator may start any script
when none runs, with the checks the scripts make.  `reader` is a boot that reads
the runtime manifest, the indexes and the manifests through the edge worker, one
after another, with the deployment it began under.

`EdgeWorker` answers one request; a ranged one reads the bucket twice, and the
operators take the bucket as it was at each.  `FetchArtifacts` returns the states
a step of a run may lead to; `MCRelease` explores all of them for two runs (with
the process id of the dead one used again) by a fold to a fixed point and states
that what a target holds under its name is what the manifest pins, and that a
run that succeeds leaves the whole tree (`TreesAreFilled`).

### Snapshots, Page, WidgetSources

`relay` is what the page sees of the relay and its session; `page` the boot card,
the fallback timer, the last session and death told; `turn` the status on its way
through the page: the sink that widens, the session's event, the card, then the
events, in the source's order.  After every event the embedder's listeners may
restart the session; the pass of the replacement's first status runs inside that
call and, since a relay that reboots accepts no restart, is one function
(`Hears`).  The outer pass then goes on with a status that is no longer true,
which is what the guards of `relayStatus` are for.  `due` are the microtasks of
`settled()`.

`Snapshots` is `chooseSnapshots` and `widenTarget`; `ChoiceIsBest` and
`WidenIsFinal` compare them with their definitions over every small index.  Without
an index the code offers one umbrella environment (`self-widen.ts:33-35`);
`LegacyIsAnIndex` shows that this choice and its widen are those of an index with
the base and that entry, so `Page` needs no rule of its own for it.
`WidgetSources` holds the handlers as operators and, external, what is around
them (`onPage`): a client that asks for each request's hash and cancels at any time,
sessions that follow one another, a relay that answers what it was handed in any
order.  It is explored like `FetchArtifacts`: every request is answered once, or
went to the worker and is answered by it (`SourcesAreAnswered`).

## 3. What TLC checks

| run | module | what it shows | properties |
| --- | --- | --- | --- |
| `relay` (passes) | `MCRelay`, `MCRelay.cfg` | Two requests, two headers, three sessions and a breaker that trips at two deaths inside a moving window: every interleaving of client messages, listeners calling back in, deaths, restarts, halts and late replies and of two edits with the boot, its replay and a halt, keeps requests answered once, sessions disposed and the served document the client's, and no boot is left undecided. | `AnsweredOnce`, `OneLiveSession`, `ServesTheDocument`, `NoOrphans`, `Breaker`, `HaltEndsByRearm`, `BootIsDecided` |
| `host` (passes) | `MCResidentHost`, `MCResidentHost.cfg` | The front door's reducer driven by its host, with a ring of one frame, an oversized later text, a refused header, an early arm and a death: the FileWorker's stream stays legal and in order, statuses and diagnostics belong to the text they are shown for, requests are neither lost nor doubled, and an armed session with a document settles. | `WorkerKeepsUp`, `ReadyIsNewest`, `RequestsKept`, `ShownForTheirText`, `Settles` |
| `host_oversize` (violated) | `MCResidentHost`, `MCResidentHostOversize.cfg` | The opening text's frame exceeds half the ring: initialize is written, didOpen refused, and the next change reaches the FileWorker where it reads didOpen. | `WorkerKeepsUp` |
| `ring` (passes) | `MCStdinRing`, `MCStdinRing.cfg` | Four frames through a ring of six bytes, the pump and the reader interleaved at every shared access: bytes in order and whole, acknowledgements true, what the pump accepts is delivered unless the session dies, and the ring implements the byte channel. | `FramesWhole`, `AckedAtTheEnd`, `ImplementsChannel`, `Delivered` |
| `coalescer` (passes) | `MCEditCoalescer`, `MCEditCoalescer.cfg` | Two documents, a token request, another request, a notification and a keep-alive over one request slot, with a window and with none, under windows, pressured pools, caps, barriers, cancels and a disposal: no text is lost or merged, no frame waits without cause, is overtaken or is served against the wrong text, and under any pressure every frame gets through or is answered while the timers fire and the worker answers. | `NewestTextHeldOrThere`, `SentOrderKept`, `ServedAtItsText`, `SlotsKept`, `NothingIsHeldForever` |
| `liveness` (passes) | `MCLiveness`, `MCLiveness.cfg` | One request, two Lean threads, lost wakeups at will, late confirmation timers, a readable or unreadable mailbox word, a suspension of the machine, an exit and a freeze: only a frozen Lean side is declared wedged, and is; only lost wakeups count as rescues; every output is served. | `VerdictsAreTrue`, `OutputIsServed`, `FrozenIsFound` |
| `session` (passes) | `MCLeanSession`, `MCLeanSession.cfg` | A session's boot with one snapshot, one runtime call of the host's own at any time, a client that opens its document at any time, a worker that fails, aborts, dies or vanishes and a page that is disposed or frozen: the loop opens last, the turns keep runtime calls apart, only a worker that is gone is declared dead by its silence, and every call settles. | `OneOwnerAtATime`, `HeartbeatDeathIsReal`, `SilentDeathIsFound`, `CallsSettle` |
| `session_early` (violated) | `MCLeanSession`, `MCLeanSessionEarly.cfg` | A runtime call the host makes before the boot has resolved is refused BAD_STATE, and a refused compile ends the session. | `RefusesNone` |
| `storage` (passes) | `MCRawCache`, `MCRawCache.cfg` | Two tabs and three calls for one snapshot, with closing tabs, aborting callers, waits that run out, workers that fail, hang or are terminated between any two steps, and a removal from outside: one writer at a time, a complete region stays complete, no partial file is left but one still held when it was to be removed, every caller is answered. | `EveryCallIsAnswered`, `OneWriter`, `CacheIsSound` |
| `packs` (passes) | `MCPackInstall`, `MCPackInstall.cfg` | Two tabs with one or two packs, and one tab with four sessions: the page's map installed again and handed over pack by pack, over one store with no lock, with failing downloads, full disks, unreadable files, closing tabs and restarts: no worker mounts a pack given away and a boot is refused one only when another boot of its page took it, storage fails an install only when another overlapped it, and without overlap the store is sound. | `MountsItsBytes`, `BlockedOnlyByAnother`, `StoreIsSound` |
| `release` (passes) | `MCRelease`, `MCRelease.cfg` | Two toolchain releases and three bakes promoted, uploaded, deployed and rolled back by scripts that may stop between any two writes, while a tab's boot reads indexes, manifests and snapshots one after another: the bucket's indexes never dangle, public/ switches its runtime last, and a boot is paired whatever it straddles. | `NothingDangles`, `ReaderIsPaired`, `RootsSwitchLast` |
| `page` (passes) | `MCPage`, `MCPage.cfg` | A document, two edits' worth of imports, a settled() call, three sessions and listeners that may restart in every event of a status's pass: what an embedder hears is true, a widen is final, every settled() ends; and the choice of snapshots is checked against its definition over every small index. | `WidensOnce`, `VerdictsStand`, `CallsEnd` |

### Bounds, and why they are enough

* `relay`: two requests meet in one failing pass and in the pending set of a
  replaced session; two headers tell options that are kept from options that are
  dropped; two edits are the open and a change, so that a change of text or header
  meets a boot, its replay, a reboot or a halt; three sessions let a
  second death happen after a reboot, trip a breaker of two deaths, and leave a
  session to re-arm with; the last session still dies, of what halts the relay
  (`MayDie`); one clock tick separates a death inside the window from
  one outside (the clock is the window's unit).  The proofs need none of this.
* `host`: a ring of one frame parks on every second one; four edits give a text
  that is superseded in the backlog, one that is oversized, one whose header is
  refused and one after it.  One request is enough for loss and duplication.
* `ring`: six bytes, frames of one, two and three bytes: frames wrap, exactly
  fill the ring and are cut by it.
* `coalescer`: one slot, so that a second request waits; one id of each kind; two
  documents; two edits per document (held and newest).
* `liveness`: one tick before a probe, three before a stall: the shortest times
  for which an answer can arrive in between, and a suspension longer than all.
* `session`: one snapshot, one call of the host's, one probe of a live worker.
  The boot awaits each of its calls, so the turn holds one of the boot's (the arm
  included) and the host's, in either order, one of them at the worker: the
  second is what could overtake the first.
* `storage`: two tabs and three calls: one that holds the lock, one that shares
  its flight or queues behind it, one that comes when either is over.  One removal
  from outside meets each of them.
* `packs`: four groups of worlds.  Two tabs, one pack, three sessions: two of a tab
  share its map, one of the other shares only storage.  Two tabs, two packs, two
  sessions, with no known ceiling or one that sends the larger pack to memory.  One
  tab, one pack, four sessions: a pack is spent, installed again and spent again
  while others are in their loops.  One tab, two packs in memory, four sessions: a
  boot takes the packs between two steps of another's loop.
* `release`: two releases, so that a switch and its rollback are there, and two
  trees of one of them, so that a snapshot may change under a runtime that stays.
* `page`: three sessions, so that a widened or restarted session is replaced once
  more; at the bound a widen is not taken.  Two versions give a verdict that the
  next edit makes old.
* The assumptions: memory caps up to three rungs; packs of six bytes with three
  files; lines of four bytes around frames of one; compiles of up to four lines;
  the first chunk of a body has at least the five bytes the code looks at; three
  requests for widget sources, of one hash or of two, over three sessions; two runs of fetch-artifacts.

### Fairness

* Relay: the current session's `start()` and `arm()` settle, and a handler that
  called a listener runs on.  A replaced session's may hang, as they do when its
  boot posts to a terminated worker.  Nothing else is assumed of sessions: they
  may die at any time, or serve for ever.  Deaths further apart than the breaker's
  window never trip it, and the relay then boots again for ever
  (`lsp-relay.ts:176-177`): `BootIsDecided` says that each boot comes to an end or is
  replaced, not that reboots do.  `session` shows where the assumption
  comes from, and its limit: a worker that vanishes without a message while it
  boots is watched by no timer, and its `start()` never settles.
* Host: the FileWorker reads its input and finishes the newest text; the pump runs.
* Ring: each thread runs while it can; a wait ends only when it is notified, so a
  lost wakeup would be a deadlock.
* Coalescer: set timers fire, the worker answers the requests it has.
* Session: promises, timers and downloads run; a worker that lives serves its
  messages and ends what it began.  A worker may vanish, and a page may freeze.
* Watchdog: time passes; messages that are not lost arrive.
* Raw cache: the browser goes on with promises and timers of open tabs; a worker
  may hang for ever (its silence ends it).
* Page: a pass and the checks of `settled()` run on; a session boots and reaches a
  verdict or dies; the fallback's timer fires.

The coalescer's fairness is weak fairness of its timers and replies with the
guard `IsDue` written out, which TLC evaluates where `ENABLED` of the action is
costly.

A comment of `client.ts` (line 198) says that a frozen page's timer "fires
late, never falsely".  The probe's timer may be due before its answer when the
page goes on, so `HeartbeatDeathIsReal` admits that case; whether the browser
runs the timer or the message first is not the program's to say.

`CHECK_DEADLOCK FALSE` is stated in every configuration because each of these
systems really stops: bounded clients run out of edits, disposed sessions do
nothing more.  Liveness properties, not deadlock freedom, say what must still
happen.

### Violations, each a statement of the repository that the code does not keep

* `session_early` / `RefusesNone` (`lib/client.ts:399`): boot() posts its request without taking a turn, so a compile or loadSnapshot called before the boot resolves is posted at once and reaches a worker that is idle or booting: it is refused BAD_STATE, and a compile's refusal there is not recoverable (public/workers/lean.worker.js:1760), which ends the session; the comment says of the turn queue "Serializing here makes that guard unreachable from a single session regardless of caller timing." (lib/client.ts:242-243).
* `host_oversize` / `WorkerKeepsUp` (`public/workers/lean.worker.js:810`): The code writes initialize and then refuses an oversized didOpen (residentRingWrite throws, the loop over ringWrites goes on), so the next full-text didChange is read where the FileWorker expects didOpen; the comment says the refusal heals: "the machine's version bookkeeping already moved on, so the next full-text didChange resyncs the FileWorker's document" (public/workers/lean.worker.js:213-215), while the front door says "the FileWorker reads `initialize` then `didOpen` DIRECTLY and nothing may come between them" (public/workers/lsp-front-door.js:319-320).

### Seen on the way, kept in the models

These are exceptions the properties name, or what an assumption states as it is.

* `docs/EMBEDDING.md:152-156` says that superseded statuses are never reported,
  and line 250 that a death is reported once per session.  `relayStatus`
  (`page-api.ts:496-527`) looks for a replacement after the `status` event and the
  card; a listener that restarts in `fileProgress`, `death` or `liveness` is
  followed by the events of the status it replaced.  `VerdictsStand` names them.
* `lean.worker.js:1859-1860` promises that a failure of the cache is never a failed
  load.  That is so until the cached region is open: a truncated or foreign one
  fails the load with `SNAPSHOT_FAILED` (`CacheIsOptionalUntilOpened`).
* A memory cap below every rung that is no whole number of pages gets no memory at
  all (`PartialPageCapGetsNone`).
* `If-Range` is held against the first of the two reads of a ranged request: when
  an upload comes between, the part returned is of the new object, under its own
  validator and size (`AnAnswerIsOneObject` states both).
* A body of no bytes and no announced length is `corrupt`, not `network`
  (`NetworkIsWhatARetryHelps`); `docs/EMBEDDING.md:881` says that what is corrupt
  arrived in full.
* `planSegments` needs its table ascending: an empty file that shares a start with
  a later-listed one is cut off (`SegmentsHoldTheFiles` is stated for the tables
  the bakery writes).
* Lines of an earlier compile that come late are the next compile's
  (`LateLinesGoToTheLastStarted`).
* A waiter's cancellation reaches the worker when a newer session's flight has
  replaced its own, though `widget-source-cache.ts:20-22` keeps cancellations of
  waiters from it (`SourcesAreAnswered` admits it).
* An interrupted run of fetch-artifacts deletes its own temporary files
  (`fetch-artifacts.mjs:36`), except what a second signal leaves after the first
  cleared the list (`TreesAreFilled` admits it).

* `lean.worker.js:375-376` promises that a long elaboration "is never mistaken for
  a wedge".  A machine that sleeps twice within one probe, while the answer waits
  behind a lost wakeup, makes two ticks in a row late: the first begins the stall,
  the second finds the grace over, and the confirmation that would have served the
  answer has not fired, or fired late and watches again.  `VerdictsAreTrue` holds for the one suspension of the run
  and under the hypothesis of its theorem.

## 4. What is proved

For every value of the constants that their modules' assumptions allow:

* `RelayTypeOK` (`RelayPageProofs`): Type correctness of the relay for any number of sessions, requests, headers, edits and clock ticks.
* `RelayAnsweredOnce` (`RelayPageProofs`): Every client request is pending or answered exactly once, across deaths, restarts, halts, listeners and late replies.
* `RelayNoOrphans` (`RelayPageProofs`): Outside a failing pass every pending request is held by the current, undisposed session.
* `RelayOneLiveSession` (`RelayPageProofs`): Every session before the current one was disposed.
* `RelayServesTheDocument` (`RelayPageProofs`): A serving relay's session lives and holds the client's document.
* `RelayBreaker` (`RelayPageProofs`): The crash-loop breaker trips exactly at the threshold, with deaths all inside the window.
* `RelayNote` (`RelayPageProofs`): The halted note is published only over disposed sessions.
* `RelayHaltEndsByRearm` (`RelayPageProofs`): A halt ends only by re-arming with a new session and no deaths counted; no superseded boot ends it.
* `WidensAtMostOnce` (`RelayPageProofs`): For every index of snapshots and every document, a session is widened at most once until the imports change, the embedder asks for environments, or the breaker forgets: what widenTarget chose serves all of the header that any entry claims.
* `ToldVerdictsStand` (`RelayPageProofs`): Whatever the embedder's listeners replace, a status told is the current session's, a ready its verdict, and the session told never goes back, but in the events named.
* `HostInvariant` (`ResidentHostProofs`): For any number of texts and requests, any ring and any refused or oversized frames: what is held, parked, in the ring or on its way to the FileWorker is one stream that opens legally and whose versions rise to the last one given out, each with its own text; and every request sent to a session that lives is in one place or answered.
* `HostKeepsUp` (`ResidentHostProofs`): When the opening text fits the ring, the FileWorker never reads a stream it would break on: initialize, then the open, then only requests and changes of rising version, through parks, backlogs, refused frames and documents opened again.
* `HostKeepsRequests` (`ResidentHostProofs`): When the opening text fits the ring, no queue, park, filter or drain loses a request or sends it twice, whatever is superseded around it.
* `HostReadyIsNewest` (`ResidentHostProofs`): A front door that says ready has the FileWorker drained on the client's newest text, with no change of it held, parked or in the ring.
* `HostShownForTheirText` (`ResidentHostProofs`): Diagnostics are shown under a version the client gave their own text, or under an older one: shifting two version spaces never aliases two texts.
* `FramesStayWhole` (`WorkerProofs`): For every capacity and every list of frames: between two bytes of a frame the ring takes no byte of another, whatever was sent while the pump was parked in its middle.
* `AcksAreTrue` (`WorkerProofs`): An accepted frame is queued, or acknowledged once its last byte is in the ring, or aborted by the death.
* `RingKeepsOrder` (`WorkerProofs`): The bytes accepted are those read followed by those between READ and WRITE, modulo the capacity: nothing is lost, doubled or reordered by two threads that share three words.
* `RingIsAChannel` (`WorkerProofs`): Refinement: the ring of shared memory implements the unbounded channel of ByteChannel, each access a step of the channel or a stutter.
* `WatchInvariant` (`WorkerProofs`): For any requests and any delays of the clock, the probe, the stall and the confirmation: a Lean side that is not frozen and owes the probe is heard within the ticks its mailbox leaves it, and a watched word is served, lost or a tick old.
* `RescuesAreReal` (`WorkerProofs`): Whatever the delays, a rescue is counted only for a wakeup that was lost, never for one in flight.
* `WatchdogVerdicts` (`WorkerProofs`): Only a frozen Lean side is declared wedged and only lost wakeups are counted, when the grace outlasts two late ticks, or when probe and grace are three ticks and the machine sleeps once at most.
* `WorkersMountBytes` (`PackInstallProofs`): For any number of tabs, sessions and packs, no worker boots with a pack whose bytes the page has given away, and a boot is refused for one only when another boot of its page took it during the loop.
* `StorageNeverBlocks` (`PackInstallProofs`): Storage fails an install only when another overlapped it, whatever closed tabs left behind.
* `StoreStaysSound` (`PackInstallProofs`): Where no two installs of a pack overlapped, its mounted file is not replaced under a session unless it could not be read, and installs that are over leave no staging file and no pack without its marker.
* `IndexesNeverDangle` (`ReleaseProofs`): Whichever write a promotion, an upload, a deploy or a rollback stopped after, every index of the bucket names snapshots that are there, and each copy is its own runtime's.
* `BootsArePaired` (`ReleaseProofs`): A reader's boot fails for its pairing only when it could not read a copy or the site was deployed under it, and one that ends well runs its own packs.
* `PromotionsCommitLast` (`ReleaseProofs`): In every promotion public/ names another runtime only when that runtime's snapshots and packs are served, and the profile index only the runtime that is served.
* `CacheHasOneWriter` (`RawCacheProofs`): Over any number of tabs and calls, one prefetch worker at a time is at work, and its flight holds the lock and has callers.
* `CacheStaysSound` (`RawCacheProofs`): A region told to be complete stays complete but for a removal from outside, no commit publishes a part, and no download leaves its partial behind unless its tab was closed or the browser still held the file when it was removed.
* `SessionInvariant` (`LeanSessionProofs`): For any number of snapshots, host calls and probes: turns are taken in order, the arm is the last of them, every posted call is in exactly one place between page and worker, the worker's state says who owns its runtime, and a dead runtime has told so before it refuses anything.
* `SessionOneOwner` (`LeanSessionProofs`): The loop opens last, over every snapshot and with no runtime call left to serve, and once the runtime has booted no call is refused because another owns it.
* `SessionHeartbeat` (`LeanSessionProofs`): Only a worker that is gone, or a page that was frozen between probe and answer, makes the heartbeat declare a session dead: never a busy worker.
* `CoalescerInvariant` (`EditCoalescerProofs`): For any documents, frames, slots and texts: what waits is in the queue in the order it was sent, each change on its way is older than its document's newest text, and every queued frame's text, or for a token request exactly that text, will be at the worker before it.
* `CoalescerNewestText` (`EditCoalescerProofs`): Inside a window no text is lost or merged into another document's: the newest is at the worker or is the one held change.
* `CoalescerSentOrder` (`EditCoalescerProofs`): No frame but a keep-alive is at the worker while one sent earlier waits.
* `CoalescerServedAtItsText` (`EditCoalescerProofs`): No frame is served against a text older than the one it was sent after, and a request whose reply Monaco rebases against exactly that text.
* `CoalescerSlotsKept` (`EditCoalescerProofs`): For every cap on requests in flight: a frame waits behind no held change only while every slot is taken, and only a flush takes the worker past the cap.
* `ChosenIsBest` (`RelayPageProofs`): For every index and header, a session loads the base and one entry more: of those that claim most of what the base does not serve the smallest, of one size the first; and none when no entry claims any of it.
* `WidenIsFinal` (`RelayPageProofs`): For every index, header and refusal: a widen's entry serves what was refused and all of the header that any entry claims, is the smallest not loaded that does, and the session it boots is never widened again for that header, whatever the kernel then refuses.
* `CommitIsBounded` (`RelayPageProofs`): For every index, the memory a session asks for is above nothing and within the cap, and covers each loaded entry that declares no more than the cap.
* `SourcesAreAnswered` (`RelayPageProofs`): For any requests of any hashes, cancelled or not, over any sessions and in any order of the relay's answers: each request is answered at most once and until then is with the relay or waits for one that is; a result is of the session it was asked in; one request of a hash at a time is at a session; a waiter's cancellation reaches the worker only past a newer session's flight.
* `AnAnswerIsOneObject` (`ReleaseProofs`): For every bucket, before and after an upload between the two reads, and every request: validator, size and bytes of an answer are those of one object under a key the path may be read from; a part is of bytes the range asks for; If-Range was the validator of the object looked up.
* `ErrorsAreTrue` (`ReleaseProofs`): A 416 names a range the object looked up has not, a 404 over a bucket that did not change a path with no object, and a 500 comes only of an upload between the reads.
* `ErrorsAreNotKept` (`ReleaseProofs`): No cache keeps an error of a release's path, nor any with the hardened options; and only digest-named files that are no manifest are kept for good.
* `HeadIsOfTheGet` (`ReleaseProofs`): HEAD says status, validator, length and caching of the GET without a range.
* `TreesAreFilled` (`ReleaseProofs`): For any number of runs of fetch-artifacts over one tree, killed, interrupted or failing anywhere: no pinned file is taken away, the copy never stands over files that are not, no run loses the temp file of its own to another, and one that says OK leaves the tree as pinned.
* `LoadsOnlyARegion` (`LeanSessionProofs`): For every index entry, cache and response: a region that reaches the runtime is of this site, for this runtime or of an index that names none, has the declared bytes, begins as regions do and is the beginning of what cache or server held; what fails leaves no allocation.
* `NetworkIsWhatARetryHelps` (`LeanSessionProofs`): For every response and index entry: a load is called the network's only when promised bytes did not come or the server asked to be tried again; corrupt, once the length is known, only of bytes that all came or were wrong, or of a body of none whose length was not announced; and a cut transfer of a region is told nothing but its early end.
* `MaterializedIsTheManifests` (`LeanSessionProofs`): Whatever the HTTP cache and the network answer for each chunk: what a boot hands to the runtime is the bytes its manifest names, whole, or nothing; and a good network boots through any poisoned cache, unless the manifest's chunks are not its file's.
* `ThreadsFitThePool` (`LeanSessionProofs`): Whatever concurrency a browser tells, or none: Lean gets at least one worker, and with the main thread, the parked threads and a burst they are no more than the pool is made with.
* `MemoryIsFound` (`LeanSessionProofs`): For every ladder of whole pages, largest first, and every engine: a session gets memory exactly when the smallest rung can be had; it is the first rung that can, and what is committed of it is what was asked, to the page, and never more than the rung.
* `BootIsTheOutline` (`LeanSessionProofs`): Refinement: every boot the detailed guards and failures give is one the session's model allows, at once or at the end of its awaits; and one that is ready runs the very wasm whose id it answers with, over a memory and its packs.
* `LoadIsTheOutline` (`LeanSessionProofs`): Refinement: every snapshot load is one the session's model allows, refused at once or owning the runtime and answered at its end; a result is answered only of a load with no reason to refuse and a region.
* `CompileIsTheOutline` (`LeanSessionProofs`): Refinement: however a compile ends and whatever Lean printed, its call is answered exactly once and as the session's model allows; a result that says success is of a run that returned with exit code zero and no error among its diagnostics.

The assumptions are the named `ASSUME`s of the modules: bounds that are naturals,
a ring of at least two bytes and frames of at least one, a breaker that counts at
least one death, requests that are frames and finitely many, bakes that belong to a
release, a tab to start in.  Every run evaluates those of its module.  Three
theorems about specifications have a hypothesis of their own, stated with them:

* `HostKeepsUp` and `HostKeepsRequests` assume `OpensFit`: the ring refuses no text
  the document is opened with.  The code does not see to that; the violation run
  `host_oversize` shows the property fail without it.
* `WatchdogVerdicts` assumes `Patient`: either the grace outlasts two late ticks,
  however many times the machine sleeps, or the delay before a stall and the grace
  are three ticks at least and the machine sleeps once at most.  The source's twelve and
  four seconds against a tick of one satisfy the second for a session that met one
  suspension of any length, and the first while ticks are less than two seconds apart.
  Without either the verdict may be false (section 3, *Seen on the way*).
  `RescuesAreReal` needs no such hypothesis.

Theorems about operators have no specification; what they take for granted of
their arguments stands in front of them:

* `ChosenIsBest`, `WidenIsFinal`, `CommitIsBounded`: the index is a list whose sizes
  and commits are naturals (`AnIndex`).
* `AnAnswerIsOneObject`, `ErrorsAreTrue`, `ErrorsAreNotKept`: the bounds of a range
  header are what its digits can say (`AHeader`), objects have a size (`Sized`), and
  `ERROR_CACHE_CONTROL` is absent or `no-store`, as in the two configurations the
  repository has; `HeadIsOfTheGet`: the configured methods include both.
* `TreesAreFilled` and `SourcesAreAnswered` are inductions spelt out, as the model has no
  variables there: `FInv` (`WInv`) holds of the tree (the page) that starts, each
  step keeps it, and it gives the rest.  TLC checked both over all the states the runs'
  assumptions explore.
* `LoadsOnlyARegion`, `NetworkIsWhatARetryHelps`: a length a server announces of what
  it sends unencoded is that of what it sends, and an index that gives the size of the
  gzipped file gives the right one (`AResponse`, `AnIndexEntry`).  With an index that
  is wrong about it, a whole transfer may be told to have ended early.
* `MemoryIsFound`: the rungs are whole pages, largest first, as every ladder is whose
  cap is whole pages.  A cap that is not makes a rung that cannot be had
  (`PartialPageCapGetsNone`, checked by TLC).  `LoadIsTheOutline`: the worker
  satisfies `Owner`, the part of the session's invariant that ties its state to its
  job.

**The argument** is the same everywhere.  None of the properties is inductive by
itself; each proof module states one inductive invariant, `IInv` (`PageIInv` and
`WatchIInv` where a module holds two proofs), as a conjunction of named facts, shows that `Init` gives it and that each action keeps each conjunct
it can disturb, and derives the properties from it, action properties included.
TLC checked each `IInv` on its run's instance before it was proved.

* **Relay.**  That a pending request is answered once more, and no more, needs
  `Tracked`: the current session holds exactly the pending requests, except while
  a failing pass is answering them; a halted relay has none.  That a serving
  relay's session lives and has the client's document needs `Modes` (which await
  and which handler go with which state; when a session can be disposed or dead)
  and `Given` (the recorded text is the client's, and a session past its replay
  has it).  The breaker needs `Past`: no death is counted in the future.
* **ResidentHost.**  What the FileWorker has still to read is one line of frames:
  what is in the ring, what the pump holds, and the backlog that will follow it.
  `Flow` states of that line what makes it legal whatever is read next: it opens the
  document once and first (`Leads`), its versions rise (`Rises`), those of the
  backlog above those before it (`Below`), each frame's text is that of its version,
  and the last one is the client's newest (`Dated`).  The reducer filters, supersedes
  and rewrites its queues in loops, so the lemmas before the steps say which
  positions a loop keeps (`Picks`) and that a selection of a legal line is a legal
  line; each handler is then a lemma about the record it returns (`Keeps`,
  `Onward`).  Requests are counted over all the places they can be in (`Tally`):
  `Kept` says that the sum is one.  The verdict `ready` and the versions under which
  diagnostics are shown follow from `Flow`, since it dates the text of the FileWorker
  too (`Said`).
* **Watchdog.**  `Left` is the number of ticks that can pass before the next frame
  of a Lean side that owes the probe is served: two when its message may be lost
  and nothing watches the word yet, one or none once it is watched, none when the
  word cannot be read, because the tick serves it then.  A tick in which nothing is
  served takes one of them and cannot come when none is left (`LeftFalls`).  `Heard`
  bounds the ages by the ticks gone: the age of the probe with what is left is at
  most three while the machine never slept, and a stall is no older than the ticks
  it has seen, each late by a suspension (`Lag`).  `Confirming` says that a watched
  word which nobody served was lost or is a tick old, which is the whole proof that
  rescues are real.
* **StdinRing.**  The pump works from a READ that may be old by the time it stores
  WRITE.  `Round` says what survives that: the bytes of a round fit whatever the
  reader took since, and between copy and store they are there.  With `InOrder`
  (accepted = read, then the bytes between READ and WRITE modulo the capacity) each
  access maps to a step of `ByteChannel` or to a stutter, which is the refinement.
  `GoesOn` ties the last byte written to the first queued frame.
* **EditCoalescer.**  Every step moves frames along one line: the held change, the
  queue, and the frame that comes.  A step selects the positions that reach the
  worker (`D`) and those that wait (`K`); `Moves` says which selections are legal,
  and `MovesKeep` shows once that they keep the invariant; each action is then a
  lemma that finds its `D` and `K`.  The invariant's core is `Ahead`: the texts
  that reach the worker before what stands at a position of the queue.  `Newest`
  says the newest text is among them and `Served` that a queued frame's own text
  is, and for a token request none newer.  `Slots` (requests in flight are at the
  worker, and nothing waits beside a free slot) gives the action property: a drain
  takes the longest prefix whose requests find room, so its last request found some.
  A few facts about naturals (a bounded set has a maximum) come from the well-founded
  order of the library, through sets rather than predicates.
* **LeanSession.**  A call is in one place, on its way to the worker, its job, or
  on its way back (`Sent`, `Once`); the queue holds the calls that wait for a turn
  in their order and no other call is posted (`TurnsInOrder`); the arm is the last
  of them (`ArmIsLast`); the worker's state names the owner of its runtime
  (`Owner`).  The worker's handlers are operators, so what each leaves is a lemma
  about `RuntimeOps` (`Keeps`), cited by every step of the worker.
* **RawCache.**  `HandleHeld` and `Lingers` say whose an open handle is: the worker
  that writes, or one that is gone.  `LockHeld` and `WorkerHeld` tie the cross-tab lock to the flight
  and the flight to its worker; `WorksOnAbsent` says a worker past its probe works
  where no complete region is, so no answer of *whole* can be undone by a later one.
* **PackInstall.**  `SeesSpent` is about the loop: what a boot will hand over and is
  spent, it still has to install, unless the session was robbed; with it the refusal
  of `Boots` blames only another boot.  Storage has no lock, so what the invariant
  says of each pack is conditional on what has overlapped: an install no other overlaps is
  alone (`Alone`) and meets only the files its own steps left (`ItsFiles`); while
  none ever overlapped and the file could be read, the marker stands for a whole
  pack and what pages hold and workers mounted is the file that is there (`Kept`);
  while none was cut short, nothing is left between two (`Tidy`).
* **Release.**  The invariant reads the script's remaining writes: what an index
  will name is written before it (`SnapshotsFirst`, `CopiesFirst`), the mutable
  index last (`EndsWithLatest`), the runtime after what it pairs with
  (`SwitchOrder`).  A reader's boot keeps what it has read by how far it is
  (`HasRead`).
* **Page.**  `Passing` lists, for each stage of a status's pass, the events that
  can have replaced its session by then; `WidenedOnce` holds because the widen's
  target claims all of the header that any entry claims (`TargetServes`).
* **Snapshots.**  That one entry is better than every other that claims something (by
  count, by size, by place) is an induction over the list; it is made through the
  least prefix without a best entry, in a set of naturals rather than by a predicate
  (`BestOne`).
* **WidgetSources.**  Every request made is in one of three places: handed to the
  relay, where it leads a flight, waiting in one, or answered; `WInv` says so together with what ties a flight to its leader and its
  session (`LeadersIs`, `WaitersIs`, `FlightsIs`) and each reply to its request
  (`AnswersIs`).
* **EdgeWorker, SnapshotLoad, Failures.**  No induction: the answers are split by
  the branch of the code they come from, and each branch is followed to its end.  Where
  a table's first matching rule decides, the least position that matches does.
* **WorkerBoot, CompileOutput.**  The details refine the outline: the guards are a
  list whose first true one decides, so a code says which conditions held before it;
  what remains is that each reply is one of those that `RuntimeOps` lets a call end
  with (`OwnedIs`, `BootEndsAre`, `OwnerEndsAre`).  So `SessionInvariant` holds
  with these details in the outline's place.
* **FetchArtifacts.**  `FInv` ties every temp file to the run and the target that
  opened it (`TempsInv`) and says, by how far a run is, which targets it has left as
  pinned (`RunOK`); `Keeps` is what a step may not take from another run.

**Only model-checked**, and why:

* Liveness (`BootIsDecided`, `Settles`, `Delivered`, `NothingIsHeldForever`,
  `OutputIsServed`, `FrozenIsFound`, `SilentDeathIsFound`, `CallsSettle`,
  `EveryCallIsAnswered`, `CallsEnd`): fairness and `ENABLED` are out of the prover's
  reach.
* That the raw cache's queue of waiting flights is a sequence without repetition:
  no property proved needs it, so it is no part of the invariant.
* What folds and recursive functions compute for every input (the decoder of
  frames, the cutting of packs, the wait for replaced runtimes, the lines of a
  compile, a page's boots through an outage, the rungs under a cap): an induction
  over data needs theorems the installed provers cannot instantiate.  The runs
  evaluate them over bounded inputs.

## 5. What is not modelled

`PROJECT.json` lists every component with its status.  Not modelled and not
planned: DOM and Monaco wiring, text completion, vendored codecs, test hooks, the
embedding entry point and its parsing of parameters, the development server, the
bundle writer, the snapshot bakery and the packing of toolchains (offline tools
around the Lean binary), the counters that log a pool's growth.

Abstracted in the modelled parts: texts and headers are small numbers, ids are
model values, logging and counters are left out, time is the firing of timers.
The FileWorker is external, modelled from how the code uses it.

* Page: a page that never comes up (`BOOT_FAILED`), the offers, `setDocument` and
  `whenForwarded`, the search hint and the memory meter are left out.
* Release: one operator; the toolchain releases themselves are complete in the
  bucket; a promotion that stopped may be run again; a deploy after its upload is
  the order `docs/DEPLOY.md` asks for, which no script enforces.  Left out are the
  local per-build copies of the indexes, a runtime manifest per build, the Lean
  version a pack states itself, and a 404 that a cache kept.  That a promotion
  keeps every pack the site lists (`KeepsPacks`) is the adoption's rule
  (`adopt-helper.mjs`, `adopt-release.sh:151-152`); `promote-staging.mjs` run by hand
  compares the Lean versions only (191-198, 291-303), and is modelled under that rule.
* Session: labels, progress events and telemetry are left out.

## 6. Keeping it

A change of the source that moves a mapped line is a change of `map`; one that
alters a guard or an order is a change of the module, and its run says at once
whether a property still holds.  A proof breaks where its step does: each step of
a module is one lemma, named for its action, and no other lemma depends on how it
is proved.  What would extend the project is listed in section 5 and under
`hazards` without a property.
