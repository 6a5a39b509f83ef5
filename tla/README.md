# Verification of abstraction-download

TLA+ models of the download layer (Go, `src/go`), checked with TLC, and
theorems about them proved with TLAPS. `PROJECT.json` lists every component,
run, theorem and hazard, and maps each definition to the lines it models.

1. The system · 2. The modules · 3. How each corresponds to the code ·
4. The runs · 5. Theorems · 6. Where code and comments disagree ·
7. Not modelled

## 1. The system

A download is a **record** in a job store that several processes and machines
share (the store is another repository, abstraction-job). Whoever works on a
record claims it: the claim raises the record's **epoch** and starts a
**lease**; every later write presents the epoch and is refused once the lease
lapsed or another owner claimed. Bytes go to a **partial file** beside the
destination; the record's **checkpoint** says which of them are proven and
which version of the artifact (ETag or date) they came from.

| component | state | operations | talks to |
|---|---|---|---|
| runner (`runner.go`, `resumepoint.go`, `ranges.go`) | memory of one attempt; the partial file; the destination | Run, stream, fetch, report, restart, keepProven, deliver, honour, TakeDelivery, Adopt | store, file system, fetchers |
| parallel ranges (`parallel.go`) | landed and proven ranges, one worker per range | parallel, fetchRange, proved, keepLanded | store, fetchers, keeper |
| lease keeper (`keeper.go`) | last beat, fence, timer | keep, hold, beat, refused, stop | store |
| intent watch (`intent_watch.go`) | - | reads the record every 750 ms | store |
| fetchers (`fetcher.go`, `fetchers.go`, `validators.go`) | none | Fetch, FetchRange, Ranged | sources over HTTP and files |
| delegation (`delegator.go`, `tiers.go`, `bits/`, `nas/`, `serve/remote_delegation.go`) | the record's delegation handle; the external job | Delegate, Reconcile, Finalize, abandon | store, external systems |
| client (`client.go`, `resume.go`, `handle.go`, `local.go`) | jobs it runs in this process | Get, Submit, ResumeOrSubmit, Deliver, runHere | store, runner |
| network gate (`network.go`, `netcost/`, `serve/network_late.go`) | last cost heard | gateNetwork, networkAllows | cost source, runner |
| service (`serve/`) | - | Pass: reconcile, delegate, adopt, take delivery | runner |
| drop folder (`wanted.go`) | request and answer files | sweep | store |
| slices (`slice.go`) | counters, the length asked for once | ReadAt | fetchers |
| refusals (`reach.go`, `credentials.go`, `trust.go`, `reserved.go`, `nesting.go`) | none | predicates on a source or a spec | - |
| spec and paths (`spec.go`, `samepath.go`, `store.go`) | none | encoding, identity of paths | file system |

What is hard: two owners of one record after a lapse, sharing one partial file;
crashes and power losses between a write, its sync and the claim of it; a
source that changes its artifact between two requests; a stop asked for at any
moment; answers of the store that are looked at late, or not at all; work that
must be picked up by somebody in the end. The list is in `PROJECT.json` under
`hazards`, each at its line.

What makes each component correct:

- **runner**: what is delivered is the artifact, byte for byte; a claim of
  bytes is durable and names their version; proven bytes are not forgotten
  while the file holds them; a delivery is final; a cancel and a pause are
  carried out; wanted work ends.
- **parallel ranges**: only synced bytes are claimed; a fenced owner writes no
  claim; what landed is kept by whichever way the transfer ends.
- **keeper**: no renewal lands after the write that ends the work; a silent
  transfer gives its lease up.
- **delegation**: no external job is lost or started twice across a crash
  between its start and its record; delivered bytes are hashed before the record
  says so.
- **client**: one live record per destination; a waiting caller gets an end.
- **network gate**: a transfer stops when the path does not allow it and goes on
  when the path does; the record says why it waits; the cost it reads is the one
  of the last notice.
- **drop folder**: a request is taken once, is never lost, and is answered with
  what is true of its jobs.

Two repositories are used and not contained: the job layer (records, leases,
histories of a job service) and the platforms (BITS, D-Bus, a share). They are
modelled from how `src/go` uses them and marked external in the map.

## 2. The modules

| part | specification | instance | invariants and proofs |
|---|---|---|---|
| job record: states, claims, leases, intent | `JobStore` | - | - |
| one runner at a time, several owners | `Runner` | `MCRunner` | `RunnerInvariant`, `RunnerProofs` |
| what a download promises | `Promise` | - | implemented by `Runner` |
| several connections of one owner | `ParallelRanges` | `MCParallelRanges` | `ParallelInvariant`, `ParallelProofs` |
| sweep, delegation, adoption | `Delegation` | `MCDelegation` | `DelegationInvariant`, `DelegationProofs` |
| in whose hands work is | `Custody` | - | implemented by `Delegation` |
| a NAS as delegate | `NasDelegate` | `MCNasDelegate` | `NasInvariant`, `DirectoryProofs` |
| BITS as delegate | `BitsDelegate` | `MCBitsDelegate` | `BitsInvariant`, `BitsProofs` |
| a remote job service as delegate | `RemoteJob` | `MCRemoteJob` | `RemoteProofs` |
| client and handles | `Client` | `MCClient` | `ClientInvariant`, `ClientProofs` |
| the path's cost, per platform | `CostSource` | - | `NetworkInvariant`, `NetworkProofs` |
| the network gate | `NetworkGate` (over `CostSource`) | `MCNetworkGate` | the same |
| drop folder | `DropFolder` | `MCDropFolder` | `FolderInvariant`, `DirectoryProofs` |

`JobStore` is what everybody else shares: `Runner`, `Delegation`, `Client`,
`NetworkGate` and `NasDelegate` extend it. `Disturbances` is the budget of what
befalls a component from outside, for those that need nothing more of it:
`CostSource`, `NasDelegate`, `BitsDelegate`, `RemoteJob`, `DropFolder`. `Delegation` says which call a sweep
makes of a delegate and what it does with the answer, over delegates that may do
anything their interface allows; `NasDelegate`, `BitsDelegate` and `RemoteJob`
open the call itself, against the system behind it, with a claim and a write
around it. In the same way `Client` and `NetworkGate` take the transfer as a step
or a number of requests, and `Runner` takes an owner's fetch as one connection,
which `ParallelRanges` opens. A file `X_y.cfg` belongs to module `X`; each
instance module has the constants of its configurations and nothing else. Where
there is a module of invariants the instance extends it, so that TLC can check
every one of them (and each was, before it was proved): add its name to the
configuration's `INVARIANTS`. For `NasInv` take `Spec` and one job or two of one
artifact as well, since the scenes of `MCNasDelegate` begin with some agents gone.
`DirectoryProofs` holds the proofs of two components that have nothing in common
but their shape, files in a directory that several machines reach; `FolderInit`,
`FolderNext`, `FolderSpec` and `FolderTypeOK` are the drop folder's.

A disturbance (a crash, a lost answer, a lapse, an outage, a change of mind) is an
action that takes one from `faults`, which `MaxFaults` bounds. Where a property
does not survive some kind of disturbance, it says so in its antecedent
(`faults.seen` is the kinds there have been) or the kind is a constant of the
run; section 6 says for each what happens otherwise.

## 3. How each module corresponds to the code

### How Runner corresponds to the code

The artifact is a row of chunks. A chunk of a file holds the version of the
artifact it came from, or `Hole`: the digest of a file is right exactly when
every chunk is of the wanted version and there is none past its end. Sets of
proven ranges are sets of chunks, and a gap of the resume plan is a first and
a last chunk (or open), as `gapsFor` divides them.

`own[o]` is the memory of one `Runner.Run`: the claim's epoch, the proven
ranges, the validators the next request presents, the gaps left, whether the
digest is taken as bytes are written (`rolling`), and where it is (`pc`). One
action is one stretch of code between two touches of shared state:

| `pc` | code | actions |
|---|---|---|
| `idle` | before `Claim`, after `Release` | `Claim`, `TakeClaim` |
| `begin`, `plan`, `planned`, `hash` | `run`, `stream` up to the first request | `Begin`, `Trim`, `RecordPlan`, `HashPrefix` |
| `gap`, `restart`, `body` | `fetch`, source after source | `AskContinues`, `AskRestarts`, `RestartRecord`, `AskFails`, `Write`, `Report`, `BodyEnds`, `BodyDrops`, `GapsDone`, `NoticeStop` |
| `end` | after the transfer, in `stream`, `transfer` and `run` | `EndStopped`, `EndFailed`, `EndWrongSize`, `EndDigest` |
| `deliver`, `mark`, `remove`, `unclaim` | `deliver` and the writes around it | `Deliver`, `MarkTransferred`, `RemovePartial`, `UnclaimBytes` |
| `honour`, `fail`, `release` | the end of `Run` | `Honour`, `RecordFailure`, `Release` |
| `take` | `TakeDelivery` | `TakeComplete` |

`file` is the partial file as a reader sees it and `disk` as a power loss may
leave it: a write changes `file`, a sync copies it to `disk`, and `PowerLoss`
takes each chunk from one or the other. `Crash` ends a process at any point.
`Lapse` ends the lease of an owner that goes on working; `LapseDead` that of
one that is gone. `faults` bounds the disturbances of a behaviour: a crash, a
lapse, a power loss, a dropped or wrong answer, a change of intent.

**AfterLapse and Overtaken.** Nothing asks the store before the code cuts,
writes, empties, renames or removes a file; an owner finds out that it lost the
lease at its next write to the record or from the watch. `AfterLapse` names the
file operations a lapsed owner may still do, and `Overtaken` says whether it may
do them even after another owner claimed. With `Overtaken` TRUE
the digest is fooled (section 6); the runs and the theorems say what holds when it
is FALSE, that is, as long as a lapsed owner stops touching the file before
another one starts. `ByName` lets a client run a record by name, whatever its
state (`Runner.Run`), where a sweep runs orphans only; `Leftovers` is what a
parallel transfer of an earlier run may have left proven.

`kept` is history: no action reads it.

### How ParallelRanges corresponds to the code

`Runner` lets an owner take one step at a time; `ParallelRanges` opens
`Runner.parallel`, where several goroutines of one owner share the proven set
(`have`, under `mu`), the landed offsets (`landed`, under `lmu`), a context and
the file. The plan is a set of chunks after which a range may end (`Cuts`);
how `gridPlan` and `publishedPlan` choose it is left open, so any cut is.

| variable | code | actions |
|---|---|---|
| `pc` = `out` .. `whole` | `Runner.parallel` and the end of `run` | `Open`, `Feed`, `FeedEnds`, `Join`, `StopKeeper`, `Whole`, `Return`, `KeepProven`, `Release` |
| `conn[w]` | a worker: `fetchRange`, `rangeWriter`, `proved` | `Arrive`, `Arrived`, `NextSource`, `WorkerFails`, `WorkerStopped`, `SyncRange`, `Prove` |
| `saver` | `keepLanded`, by the timer and once more at the end | `SaverRead`, `SaverSync`, `SaverAdd` |
| `keeper` | the fence, and the renewals since the last beat | `KeeperTick`; beats in `Arrive`, refusals in `Prove` and `SaverAdd` |
| `ctx` | the cancelled context, the `fail` channel, what `onIntent` was told | `Watch` and the above |
| `rec`, `file`, `disk` | the record and the partial file | `SetWant`, `Lapse`, `Other`, `Crash` from outside |

An action is what happens between two points where another goroutine can see a
difference: `keepLanded` is three (the offsets are read, the file is synced, the
set is written under the lock), `proved` two. A write to the store is either
refused, because the lease is gone, or with `Transient` fails for the store's
own reasons. `landed` holds the chunks of the offsets rather than the offsets;
a range has one start, so they say the same. `NextSource` also happens after a
range arrived whole: a source that goes on sending (`ErrOverrun`).

Sources hold one version here; a second one is `Runner`'s subject. Only one
owner is seen from inside; another one, after a lapse, is `Other`, which proves
chunks at any time. `ParallelRanges` hands over to the digest at `whole`, from
where `Runner` goes on.

### How Delegation corresponds to the code

One record, several supervisors, several external systems. `own[s]` is what a
supervisor holds in one `Pass`: the stage of the pass (`turn`: reconcile, delegate,
adopt, take delivery), the place in it (`pc`), what it loaded, what the system
answered. Steps are split at every call of the store or of a system.

| stage | code | actions |
|---|---|---|
| delegate | `DelegateAll`, `Delegate`, `resolve` | `ListWork`, `DelegateClaim`, `Offer`, `OfferNothing`, `StartAccepted`, `StartRefused`, `StartEchoed`, `LocateStart`, `Located`, `Unhand`, `RecordHandle` |
| reconcile | `Reconcile`, `resolve`, `claimDelegation`, `restarted`, `honourDelegated`, `abandonDelegated` | `Load`, `Tell`, `Ask`, `AskFails`, `ClaimDelegation`, `Settle`, `Note`, `StillRunning`, `CarryOn`, `HandBack`, `StartedOver`, `Finalize`, `Verify`, `Mark`, `CancelThere`, `CancelHere`, `Pause`, `NothingToHonour` |
| adopt | `Adopt`, `Run` | `ListOrphan`, `RunClaim`, `LocalProgress`, `LocalAsked`, `LocalHonour`, `LocalFail`, `LocalFenced`, `LocalDeliver`, `LocalMark` |
| take | `TakeDelivery` | `TakeClaim`, `Take` |
| outside | the systems, people, the lease, the process | `ExternalStep`, `SetWant`, `Lapse`, `Crash` |

`ext[e]` is the external job behind handle `e`, `doubt[s]` what `Disbelieve`
remembers, `told[s]` the handles `s` has told to stop. A system is of a kind
(`Locators`, `Suspenders`, `Resuming`, `Liars`, `Hopeless`, `Releasing`): what the
optional interfaces of `delegator.go` promise, and who breaks the promise.

`Delegation` implements `Custody` under `where <- Where, moving <- Moving`: the
record and the systems together say who has the work, and only that side moves
bytes. That is claimed for one sweeping process; with two it is false (section 6).

### How NasDelegate, BitsDelegate and RemoteJob correspond

**NasDelegate**: `far` is the store on the share, `work` the far side's runner
there (`Far...`), `loc` the local records, `agent` the calls of this machine's
supervisors, split where they touch the share or the disk: `Start`, `StartFails`,
`Locate`, `RecordHandle`, `Poll`, `Suspend`, `Resume`; `Finalize` is `Open`,
`Create`, `CreateThere`, `Copy`, `Rename`, `Verify`, `Deliver`; `Abandon` is
`LoadRemote`, `LookForOthers`, `RemoveFinal`, `EndRemote`. Local files are names
(`dest`, `tmp`) for inodes (`data`), since a rename by one process moves a file
another has open. `Unmount` and `Mount` take the share away and bring it back.
`met` of an agent is history, the records that were there when it looked for others.

**BitsDelegate**: every call is a PowerShell script, and a script is a process.
`script` holds what it is to do and how far it is; `Script` runs one cmdlet of it,
`TimedOut` kills it with its call's clock, and when the caller dies (`Crash`) the
script goes on by itself. `job` is the queue of the service, with its own life
(`Transfer`, `Trouble`, `ServiceStops`, `ServiceStarts`). `Take`, `Started`,
`Located`, `Polled`, `Finalized` are the sweep around the calls.

**RemoteJob**: `there` is the remote's history epoch and what it knows of the one
identity the record has there; `refused` is the adapter's memory of refusals.
`Start` is `Handoff`, `Window`, `Submit` and `RecordHandle`; `Locate` is
`LocateStart` and `Resolve`; the rest is `Poll`, `ReadChunk`, `Mark`, `Abandon`.
One service sweeps, so there is no lease.

### How Client corresponds to the code

Callers are goroutines of applications in several processes; `running[p]` is
`client.running`, `work[p][i]` the worker `runHere` started for record `i`. The
first `MaxGen` ids are the names `claimDestination` makes of a destination (512 in
the code), the others those `Submit` makes up.

| code | actions |
|---|---|
| `Submit` | `Look` (a finished record), `Scan` (an unfinished one), `Create` |
| `ResumeOrSubmit`, `claimDestination` | `Recall`, `Make` |
| `begin`, `clearLastError`, `runHere` | `Begin`, `Clear`, `Reclaim`, `Cleared`, `GiveBack`, `Launch` |
| `Deliver`, `TakeDelivery` | `Wait`, `Take`, `Taking` |
| the worker | `WorkerClaim`, `WorkerOpen`, `WorkerPlace`, `WorkerFenced`, `WorkerHonour`, `WorkerFail`, `WorkerMark`, `WorkerRelease`, `WorkerLeave` |

All claims of a process are made under one owner name, which the store lets take
over a lease of its own; `by` in the record tells a caller's claim from a worker's.

### How CostSource and NetworkGate correspond

`CostSource` is one platform source of `netcost/`: `wire` what the platform has
sent and nobody has read, `src` how far the source is open and what its hub says,
`late` the stand-in of `serve/network_late.go`. Linux has a reply and signals on
one stream, applied by two goroutines (`ReadReply`, `ReadReplyLater`,
`ReadNotice`); Windows reads, advises and reads again; macOS has callbacks.
`NetworkGate` puts over it one record, the sweep that adopts it (`Adopt`), the gate
a run asks first (`Gate`, `GateCancelled`), its watcher (`GateNotices`), the check
before each request (`Check`, `OpenRequest`, `Move`, `Cut`, `SourceFails`), the end
of the run (`Stop`, `Word`, `Fail`, `Honour`, `Put`, `Release`), the observer of
what is wanted (`Observe`) and a restart.

### How DropFolder corresponds to the code

One name in `wanted/` and the names made of it by an answer (`Names`). `TakeIn` is
`Read`, `Shelve` (not a request, too big), `Accept` (the rename), `Submit` for each
line, `Submitted`, `Write`, `Remove`; `Answer` is `Follow` and `Rewrite`. A person
may put a text, save another over it and rename a refused one back (`Put`, `Edit`,
`Retry`); jobs end (`JobEnds`); supervisors die (`Crash`).

## 4. The runs

All twelve must pass. Deadlock is not checked: a finished or paused record, a
caller that was told and a behaviour out of disturbances legitimately stop.

| run | properties | instance |
|---|---|---|
| `safety` | `TypeOK`, `DeliveredIntact`, `ClaimsHold`, `NothingForgotten` | 2 owners, 2 versions of 2 and 3 chunks, both with strong validators, 4 disturbances |
| `live` | `DigestSpeaks`, `PromiseKept`, `Finishes`, `IntentHonoured` | 2 owners, 3 and 2 chunks, one version without a validator, 2 sources, holes left behind, every file operation after a lapse, 2 disturbances |
| `ranges` | `ClaimSynced`, `WholeAtSuccess`, `KeptAtReturn`, `ProvenGrows`, `NoByteTwice` | 2 workers, 2 sources, 3 chunks in two ranges, sources one chunk too long, 3 disturbances |
| `returns` | `Returns` | 2 workers, 2 chunks, store writes that fail by themselves, 2 disturbances |
| `one` | `Accounted`, `KeptProven`, `InOneCustody`, `Ended`, `OverThereToo` | 1 supervisor, a NAS that starts over and a BITS that forgets, 2 handles, 3 disturbances |
| `two` | `NoStray`, `DeliveredGood` | 2 supervisors that know different systems, one hopeless, refused stops, 2 disturbances |
| `client` | `OneForDestination`, `DeliveredIsThere`, `Answered` | 3 callers in 2 processes, 3 names, 1 disturbance of 5 kinds |
| `gate` | `Truthful`, `WordWhileWaiting`, `OnlyFailuresFail`, `Follows` | 3 platforms, 2 changes, 2 messages on the way, 2 requests, 2 disturbances of 5 kinds |
| `nas` | `OneForRequest`, `SoundFile`, `BytesKept`, `Delivers` | four scenes, see below |
| `folder` | `TakenOnce`, `FolderTrue`, `Answered` | 2 supervisors, a request of 2 lines, nonsense, a file too big, 2 disturbances of 4 kinds |
| `queue` | `OneKnownJob`, `HandleKept`, `Delivers` | 2 processes, 3 jobs, 2 disturbances of 10 kinds |
| `remote` | `NoneForgotten`, `Ended` | 2 histories, results of 2 chunks, 4 disturbances of 8 kinds |

**What they show**, beyond the types:

- `DeliveredIntact`: transferred or complete only over the artifact, byte for byte.
  `ClaimsHold`: what the record claims survives a power loss (`ClaimDurable`) and is
  of the version the record names (`VersionOfProven`). `NothingForgotten`: a proven
  chunk leaves the record only with its bytes. `DigestSpeaks`: the rolling digest
  is that of the file. `PromiseKept`: `Runner` implements `Promise`. `Finishes`,
  `IntentHonoured`: wanted work ends; a cancel is carried out; paused work is let
  go of and stays so.
- `ClaimSynced`: the record claims flushed bytes only. `WholeAtSuccess`: no error
  means all of it. `KeptAtReturn`: what landed is in the record, however the
  transfer ends. `ProvenGrows`, `NoByteTwice`: nothing is unproven, or fetched again
  in one run. `Returns`: silence does not hold a transfer for good.
- `Accounted`: one transfer at most (`OneTransfer`), and the record leads to it
  (`NoStray`). `KeptProven`: handing over loses no proven byte. `Ended`,
  `OverThereToo`: work settles at home if nobody outside does it, and systems stop
  for records that are over. `DeliveredGood`: the same as `DeliveredIntact`, with
  delegates.
- `OneForDestination`: racing callers make one live record. `DeliveredIsThere`: a
  finished record is believed about a file that is there. `Answered`: every
  caller is told something.
- `Truthful`: an open source, its notices read, reports the path. `OnlyFailuresFail`:
  waiting is no failure. `Follows`: a metered path stops a transfer though its
  request never ends (`StopsMoving`), a free one lets it finish (`Moves`), the
  record says why it waits (`SaysWhy`), a cancel reaches waiting work (`Cancelled`).
- `OneForRequest`: one far job for a request, whatever answers were lost.
  `SoundFile`: no short file under a final name (`NeverShort`), and the digest
  keeps another artifact's bytes out (`RightBytes`). `BytesKept`: nobody removes
  what a record he looked at still needs. `HandleKept`: an outage does not lose a handle.
  `NoneForgotten`: remote work is on the record. `Delivers`, `Ended`: it arrives.
- `TakenOnce`, `FolderTrue` (`TextKept`, `DoneIsDelivered`), `Answered`: section 1.

**Bounds and why they are enough.** Two owners, supervisors, workers or agents are
all a race here needs: each compares itself with whoever came after. (Runs
without liveness properties use the symmetry of owners, workers or handles.) Three chunks give a prefix, a hole and
something behind it; two versions, of different lengths, a longer and a shorter
change. Two handles, histories or names allow a second attempt after a lost first
one; three jobs in `queue` one more. Disturbances are what behaviours are long in;
two suffice for the pairs that matter (a lost answer and a crash, a crash and a
lapse), and where more fit into minutes there are more. `nas` splits what is too large
for one instance: a job alone with two supervisors and one disturbance, alone with
one supervisor and two, two jobs of one artifact with one, two artifacts of
one name with none. Its `Inodes` are as many as can be in use at once (two
for each job, one for each agent) and one more, so that a new file is always new.
Sizes run from 20 thousand to five million states.

**Fairness** is of steps the code takes by itself, and never of a source, a person
or a disturbance:

- `Runner`: the sweep comes every second and on every change
  (`serve/execution.go`), so an orphan is claimed by somebody and a delivery taken;
  an owner's goroutine goes on; the lease of a dead owner lapses.
- `ParallelRanges`: goroutines run, the keeper's timer ticks, a request whose
  context was cancelled returns. A source owes nothing.
- `Delegation`: a supervisor's sweep goes on; a system finishes what it runs and a
  lease lapses (outside disturbances, `Calm`).
- `Client`: callers and workers of a live process go on; leases lapse.
- `NetworkGate`: notices are delivered, the sweep and the run go on; a request may
  take for ever. Only `Moves` and `SaysWhy` assume that requests are answered
  (`Answers`), as an antecedent.
- `NasDelegate`: both sides sweep for ever, and the share comes back.
  `BitsDelegate`: sweeps go on, scripts end, the service is started on demand and
  moves bytes. `RemoteJob`: the service sweeps, the remote finishes its work.
- `DropFolder`: a supervisor finishes what it began; strong fairness of `Read` and
  `Follow`, since each sweep calls both `TakeIn` and `Answer` whatever the other
  supervisor does; jobs end.

## 5. Theorems

Each holds for every value of the constants its module's assumption allows:
`RunnerAssumption`, `ParallelAssumption`, `DelegationAssumption`,
`ClientAssumption`, `CostAssumption` and `RequestsAssumption`, `BitsAssumption`,
`RemoteAssumption`, `FolderAssumption`, `NasAssumption`. They say of what sort a
constant is, and which values differ, and no more (`NasAssumption` also that a
disk has a file to spare); TLC evaluates them in every run. A theorem that
needs more of the constants names it as its hypothesis; section 6 says what
happens without it.

**Runner.**

- `RunnerProofs!TypeCorrect`: `Spec => []TypeOK`. The invariant is
  `TypeOK /\ Memory`: `Memory` ties an owner's `pc` to the rest of its memory (it
  has a gap and a version while it reads a body), without which a write could
  fall outside the file.
- `RunnerProofs!Intact`: `Spec => []DeliveredIntact`, and `DigestTellsTheFile`:
  `Spec => []DigestSpeaks`, assuming `~Overtaken`. The invariant is `DigestSpeaks`.
  `DeliveredIntact` says nothing of the moments before delivery, so it carries: no
  two owners have one epoch (`Epochs`); the latest owner, from its digest on, has
  the artifact in the file or at the destination (`Verified`); and a rolling
  digest of the latest owner covers exactly the chunks of the file, in order, and
  there is nothing behind them (`RollingIsFile`). The latest owner preserves it by
  its own steps (one lemma per stretch of code, `Speaks...`), nobody else touches
  the file (`FilesKept`), and a claim makes another owner the latest, with nothing
  in hand.
- `RunnerProofs!KeepsPromise`: `Spec => PromiseKept`, the refinement of `Promise`,
  assuming `~Overtaken` and `~ByName`. It needs `Owing`: as long as the latest owner
  is at work the record reads `running`, so that failure and cancellation only
  happen to owed work.
- `RunnerProofs!CheckpointsHold`: `Spec => []ClaimsHold`, and `ProvenStays`:
  `Spec => NothingForgotten`, assuming what the run `safety` has. `Fenced`: an owner
  that lost its lease does not write, and touches nothing once overtaken.
  `Vouched`: every version has a validator, and no parallel transfer left
  scattered ranges behind (with them the second is false). `ClaimsHold` looks at
  the record and the disk and nowhere else, and the next write of the record is
  made from somebody's memory; so the invariant `ClaimsAgree` ties the two. The
  record claims a prefix of one version (`RecordClaims`), and so does the memory of
  its latest owner (`OfOneVersion`); on the way to a write they say the same, or
  the file is empty (`Abreast`); an owner the store would accept a checkpoint from
  has all the record claims (`HasTheClaim`), so its checkpoint is never a step
  back. For `PowerLoss` the record says that nothing is on the disk where the file
  has a hole.

**ParallelRanges**, assuming `~Transient` but for the types and `RestOnly`.

- `ParallelTypes`: `Spec => []TypeOK`.
- `ClaimsAreSynced`, `SuccessIsWhole`, `NothingTakenBack`, `LandedIsKept`:
  `ClaimSynced`, `WholeAtSuccess`, `ProvenGrows`, `KeptAtReturn`. The invariant is in
  `ParallelInvariant`. `ClaimSynced` alone is not inductive: a checkpoint writes
  what goroutines remember, so what each remembers must be on file (`landed`,
  parts not yet synced) or on disk (`have`, parts and ranges after the sync),
  which is `Synced`. `keepProven` writes a number of chunks as a prefix, harmless
  only as long as it never has more than the record (`InHand`). For success,
  `Covered` says that each chunk is proven, to do, or in a worker's hands until
  something stopped the run, which `Stops` and `Ended` carry to the end; that it
  holds at the start is the lemma `PlanCovers`: the ranges cut from the gaps leave
  no missing chunk out, for every set of cuts. For what landed, a chunk stays in
  `landed`, in the saver's hands or in `have` from its arrival to the return.
- `RestOnly`: `NoByteTwice`, whatever the store does. That a worker writes no chunk
  again is a matter of all workers: `landed` is one set, and a chunk of it could
  have come from another worker whose range overlaps. `Apart` says that the ranges
  in hand and to do are disjoint (at the start by `PlanParts`: two ranges of a plan
  that meet are one), that what landed belongs to a worker, and that a worker
  whose range is not whole is where it broke off.

**Delegation.** Hypotheses are about the processes and the systems: `Alone` (one
process), `Orderly` (alone, or no process stalls past its lease), `Undivided`
(nor asks about a handoff that another one is making), `Answering` (every system
can be asked what it did with a request: the ones that hold a job, BITS, a NAS
and a remote, can). The run `one` is alone and stalls, `two` has two processes that
do not and stops that are refused.

- `DelegationTypes`: `Spec => [](TypeOK /\ Memory)`, without hypothesis.
- `Delivered`: `DeliveredGood`, and `ProvenBytesKept`: `KeptProven`, for `Orderly`.
  `Kept` says that whoever is between a claim and its end has the last claim, and
  the lease if nobody stalls; `Destination` that from `Finalize` to the mark the
  record is `running` and the file is what was verified.
- `Strayless`: `NoStray`, for `Undivided` and `Answering`. `NoStray` speaks of what is
  active; the record leads to it because whoever acts knows where it is (`Knows`):
  nothing is active while a start is about to be made, only the handle in hand
  when it is about to be recorded, nothing but what was found when a handoff is
  settled. That an answer is still true when it is acted on is `Undisturbed` (of a
  handoff) and `Stopping` (of a job that ended).
- `AllAccounted`: `Accounted`, and `InCustody`: `InOneCustody`, the refinement of
  `Custody`, for `Alone`, `Answering` and systems that carry out a stop (`~Leaks`).
  They need `Solitary`: who works at home has a record with no delegation, and a
  record that is over has nothing active. Each action is then shown to be one of
  `Custody`'s or to change neither who has the work nor what moves. With two
  processes both are false.

**Client.** `ClientProofs!OneRecordOfDestination`: `Spec => []OneForDestination`, for
any number of callers, processes, generations and disturbances. `OneForDestination`
counts, and says nothing of a caller about to make a record. `ClientInv` adds that
a caller trying the names in turn has passed over ended records only
(`PassedOver`), that a name is taken only after all before it ended (`InTurn`), and
that callers past the search have a record (`HasRecord`). Every other step leaves
records where they are: it makes none, and opens none that has ended (`Steady`).

`ClientProofs!TheBytesAreThere`: `Spec => DeliveredIsThere`, as long as everybody asks
for the same artifact at the destination. A caller is told from a record and from
there being a file; that the file is the one the record speaks of is `OnlyAsked`:
no record and no file is of anything nobody asked for. With two artifacts it is
false.

**Network.** `NoticesAreKept`: `Spec => []Truthful`, except on Windows. The wire ends
with the path as it is, or is empty and the hub has it (`InOrder`). `GateTypes`,
`WordsSpeakOfWaiting` (`WordWhileWaiting`) and `WaitingIsNoFailure`
(`OnlyFailuresFail`) rest on `UnderWay`, a run at work has a record that is
`running`, and `Unasked`, nobody but the path stops a run no person asked to.

**BITS.** `Agreement`: `Spec => []OneKnownJob`, and `HandlesKept`: `Spec => HandleKept`,
without hypotheses: what they except (orphaned scripts, failed jobs) is in the
antecedent `Findable` of the first, and the second has no exception. An answer is
printed by a script, and acted on later by a process that may have been killed and
restarted, while the queue moves on. `Agreed` says of every answer on its way
what stays true of it whatever happens (`Holds`: a handle given is a job that was
in the queue, "gone" and "failed" are for good); `Attended`, that while no script was
orphaned whoever is in a call holds the lease; `Sole`, that under `Findable` there is
one job at most, none while a start is about to create one, and the one that
`Locate` found otherwise. `BitsAssumption` says that the words a script may print
are no jobs: a job is named by a GUID.

**NAS.** `OneFarRecord`: `Spec => []OneForRequest`; `FilesAreSound`:
`Spec => []SoundFile`; `OnlyAbandonedGoes`: `Spec => BytesKept`; for any number of
jobs, agents, records, blocks and disturbances. The invariant, `NasInv`, has three
parts, each used by the next.

- `Calls`, whatever happens: a call past `Locate` has the id of a record of its own
  job (`Sane`), the far side works only on what it holds (`FarSide`), and who is
  about to remove the file saw nobody that counts on it (`LookedWell`). With the
  lemma that records only go forward (`Forward`) this gives `BytesKept`, stalls
  included.
- `Soundness`, while nobody stalls past a lease. A short file is never renamed, but
  why that is so spans two agents and two names: whoever is in a call has the lease
  of its job (`Attended`), hence nobody else writes the `.partial` it copies to; no
  two names are one file (`OwnFiles`, which rests on there always being a file in
  nobody's use: a count, `FreshIs`); so what is renamed is what it copied, in
  full. For the bytes, the hash that was taken must still be that of the file
  when the record is written (`Verified`).
- `OneRecord`. `OneForRequest` counts and says nothing of an agent about to make
  one. `Sole` says what may be underway of a job, by what its record and its call
  say: nothing when no handle is recorded or a call is about to start one, only the
  handle otherwise; `Undoubted` that without a lost answer or a crash nobody has to
  ask what became of a handoff; `Fetches` that what is fetched has arrived, so that
  an agent which drops a record leaves nothing underway behind.

**Remote.** `RemoteWorkIsKnown`: `Spec => []NoneForgotten`. The invariant,
`Whereabouts`, says where the process can be while something runs over there:
under an unsettled handoff or with the handle of the present history, never while
it remembers a refusal.

**Drop folder.** `RequestTakenOnce` and `FolderTellsTruth`: `TakenOnce`, `FolderTrue`.
While nobody saves over a name being answered, one text is ever there (`OneText`);
whoever renamed it is the only one to submit, and with what it has left never
exceeds the lines (`OneTaker`); jobs named anywhere are all there are (`Named`),
so an answer written under one name is right under the next (`Answers`).

**Only model-checked**: the liveness properties (`Finishes`, `IntentHonoured`,
`Returns`, `Ended`, `OverThereToo`, `Answered`, `Follows`, `Delivers`) and whatever
else needs ENABLED, which the prover cannot do. Every other property of the runs is
a theorem. `live` checks `DigestSpeaks` and `PromiseKept` on an instance with
scattered ranges and a version without a validator, which those two theorems
allow and `CheckpointsHold` does not.

## 6. Where code and comments disagree

Met while modelling. The models contain this behaviour; the properties exclude it
by an antecedent or the configurations by a constant, so that everything else can
be checked and proved. The last column says what to change for TLC to show it.

| code (`src/go/`) | what happens | what is said | to see it |
|---|---|---|---|
| `runner.go:493` | an owner that stalls past its lease cuts, empties or renames the file its successor is writing; the successor's rolling digest covers what passed through it, not the file | the digest over the whole artifact decides (`CONTRACT.md:31-32`) | `Overtaken = TRUE` in `safety`: `DeliveredIntact` |
| `runner.go:422` | `keepProven` compares the total of scattered ranges with a prefix and replaces them by it: ranges behind a hole are forgotten | "written upwards only" (`CONTRACT.md:107-110`) | `safety` with `MaxLen = 4`, `Length <- LengthFour`, `Leftovers <- FromLast`: `NothingForgotten` |
| `runner.go:312` | `resumed` is read at the claim and not reset when the bytes are thrown away, so a mismatch over bytes all fetched from zero stays retryable | such a mismatch ends (`CONTRACT.md:142-144`) | modelled in `EndDigest`; no property states it |
| `runner.go:331` | after a checkpoint failed for the store's own reasons, `keepProven` may write a total as a prefix over scattered ranges: bytes never written are claimed | "never ahead of the bytes" (`parallel.go:581-583`, `runner.go:415-417`) | `Transient = TRUE` in `ranges`: `ClaimSynced` |
| `parallel.go:549` | `keepLanded` sets `have` before the write; a write that failed is not made again by timer or end | "the next tick to try again" (`parallel.go:570-571`) | the same: `KeptAtReturn` |
| `runner.go:275` | a run asked to stop while it asks its gate is recorded as a failure | stopping because asked is not a failure (`runner.go:318-321`) | drop `"ask"` from `OnlyFailuresFail` |
| `runner.go:1105` | `Adopt` runs a record from a list that is as old as its transfers; one delegated since is fetched here and there | `runner.go:1075-1077` | `two` with `Accounted` |
| `delegator.go:712` | `Delegate` looks neither at the state it claimed nor at what is wanted: delivered work is fetched again, cancelled work started | `runner.go:1306-1307`, `CONTRACT.md:282-283` | `two` with `InOneCustody` |
| `delegator.go:929` | `resolve` asks about a handoff whose owner has yet to call `Start`; its "never accepted" is acted on after that owner started and died | `delegator.go:946-947` | `Overlap = TRUE` in `two`: `NoStray` |
| `delegator.go:1354` | `restarted` drops the error of `Abandon` and takes the work back beside a transfer that goes on | `delegator.go:1332-1333`, `863-864` | `two` with `Accounted` |
| `delegator.go:999` | a record that ended while its handoff was unsettled can no longer be claimed, so the external job is never told | `delegator.go:1012-1013` | `two` under `FairSpec` with `OverThereToo` |
| `delegator.go:1226` | a crash after `Finalize` and before the record says so: a system that forgets is asked, answers gone, and the finished file is fetched again | `delegator.go:1046-1049` | a behaviour of `one`; harmless to its properties |
| `delegator.go:1328` | the transferred branch of `Reconcile` returns without releasing: nobody can take delivery until the lease lapses | `runner.go:210-213` | a behaviour of `one` |
| `serve/pass.go:39` | work a delegate failed is offered to the same delegate by the same pass, so a job BITS cannot do is submitted for ever | carried on in-process (`delegator.go:1152-1155`) | `Hopeless = {bits}` in `one`: `Ended` |
| `client.go:363` | two `Submit` of one thing both look before either has made its record | "one piece of work, not two" (`client.go:348`) | two callers outside `Resuming`; `OneForDestination` counts names made from the destination only |
| `resume.go:395` | a caller whose create comes after the winner's record finished makes the next generation and fetches again | `resume.go:179-182` | a behaviour of `client` |
| `client.go:438` | clearing an old failure claims the lease from under a worker another caller started | `client.go:439-440` | a behaviour of `client` |
| `client.go:458` | a request made while the failed worker is still in the set starts none, and is told that nobody works on it | `client.go:217-221` | the answer "nobody" in `client` |
| `store.go:131` | a finished record is believed about any file of its size | "the bytes are the identity" (`client.go:337-339`) | a second artifact in `Artifacts`: `DeliveredIsThere` |
| `netcost/dbus.go:544` | a bus that breaks leaves the source with its last cost for the life of the process | `CONTRACT.md:1410-1412` | drop `Hears` from `Moves` |
| `netcost_windows.go:171` | the second read of the cost undoes a notice between read and set | `netcost_windows.go:170`, `netcost.go:53` | drop "windows" from `Truthful` |
| `nas/nas.go:428` | two processes copy to one `.partial`: a short file at the destination | `nas.go:410-411` | drop `InTime` from `NeverShort` |
| `nas/nas.go:161` | two artifacts whose destinations share a base name overwrite each other on the share; without a digest the other's bytes are delivered | `nas.go:360-361` | `Digest = FALSE`, and `Digest` dropped from `RightBytes` |
| `nas/nas.go:371` | who else names the file is looked up first and the file removed afterwards: a record another job made in between loses what it has finished | `nas.go:370` | two jobs, two agents, 1 disturbance from `Init`: drop `met` from `BytesKept` |
| `nas/nas.go:379` | `Abandon` is satisfied when the far record cannot be claimed: the far side goes on for a cancelled job | `nas.go:510-511` | a behaviour of `nas` |
| `nas/nas.go:217` | a share that is not mounted reads as a job that is gone, and it is handed over again | `delegator.go:113` | drop "unmount" from `Findable` |
| `nas/nas.go:199` | `Locate` may find an older record of a request that has ended: failed, cancelled, or complete over bytes the digest refused; the one the lost answer was about is forgotten, and another made | `nas.go:170-171` | one job, 4 disturbances from `Init`: the last conjunct of `Findable` |
| `wanted.go:262` | jobs are submitted before the file names them; after a crash it is refused, corrected, and submitted again. A second supervisor's `follow` refuses it so even without a crash | `CONTRACT.md:614`, `617-618` | drop `Untouched` from `TakenOnce` |
| `wanted.go:244` | a text saved between the read and the rename is overwritten by the answer to the old one | `CONTRACT.md:628-629` | drop `Untouched` from `TextKept` |
| `wanted.go:352` | `.failed` is said once every job has ended, also while a paused one never does | `CONTRACT.md:631-632` | drop the fairness of `JobEnds`: `Answered` |
| `bits/bits.go:359` | the script of a process that died goes on and creates its job after `Locate` found none | `bits.go:356-358` | drop "orphan" from `Findable` |
| `bits/bits.go:368` | `Locate` may find the failed job of an earlier start | `bits.go:217-220` | drop "fail" from `Findable` |
| `serve/remote_delegation.go:156` | one lost request seals the identity, and the record fails for good though no admission refused it | `runner.go:258-259` | a behaviour of `remote` |
| `serve/remote_delegation.go:157` | a remembered "unavailable" answers for a later start that was accepted | `remote_delegation.go:153-155` | drop "unavailable" from `NoneForgotten` |
| `serve/remote_delegation.go:204` | a failed operation is taken back and the same identity submitted, for ever | `delegator.go:1536-1540` | drop "failed" from `Ended` |

A lapsed owner that goes on *writing* (`"write"` in `AfterLapse`, which `safety` leaves
out and `live` has) breaks `ClaimsHold`: it puts bytes over chunks its successor
claimed. The digest catches it before delivery, as `live` checks.

## 7. Not modelled

- **Slices** (`slice.go`): bounded reads of one source; nothing
  is written that another component reads.
- **Request admission and results**, **spec and paths**, **generated codecs**:
  translations and encodings, pure functions of their arguments.
- **Reach, credentials, trust, reserved names, nesting**: predicates asked before a
  request. In `Runner` they are sources that fail before a byte, in `Delegation`
  systems that refuse.
- **Tools** (`cmd/`, release and replay): no part of a running system.

Modelled in part:

- The plan of a parallel transfer is a constant, any plan; how `gridPlan` and
  `publishedPlan` choose one by size and checksums is left out.
- A keeper's intervals are reduced to which of two periods ends first; a fetcher to
  what a source may answer and what becomes of the answer.
- `deliver` is a rename: its fallback, a copy across volumes, leaves nothing any code
  looks at again. What a directory entry survives without a sync is the file
  system's; `PowerLoss` leaves the destination as it is.
- A client's opening and listing of jobs and the summary of a resume point change no
  state. `nas/find.go` looks for a share and keeps nothing.
- The service's reading of its configuration and its reports; what D-Bus, COM,
  PowerShell and the Network framework look like on the wire.
