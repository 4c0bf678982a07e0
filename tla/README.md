# Verification of netwatcher

`netwatcher` lists a host's network interfaces and tells its users when they
change, through a callback, an async method or a blocking one, on Linux, macOS,
the BSDs, Android and Windows. This directory holds TLA+ models of it, TLC
configurations that check them on small instances, and TLAPS proofs. Paths such
as `lib.rs:373` are relative to `src/src/`.

## The system

| Component | State it keeps | Operations | Talks to |
|---|---|---|---|
| Update cursor (`lib.rs:358-388`) | the last snapshot, whether the initial Update is due | `advance` | every watcher owns one, except Android callbacks, which share a snapshot |
| Snapshot diff (`lib.rs:205-356`) | none | `update_from`, `addrs_added`, `addrs_removed`, `normalise` | the cursor, users |
| Event socket (`watch_linux.rs`, `watch_route.rs`) | the kernel's queue of notifications, its overrun flags | open, drain | the kernel; the fd watchers |
| fd callback watcher (`watch_fd.rs:89-105, 138-193`) | a thread, a pipe to stop it, a channel that reports its end | construct, poll loop, drop | socket, listing, the user's callback |
| fd async / blocking watchers (`watch_fd.rs:38-87, 107-136`, `async_adapter.rs`) | initial Update, `readiness_failed`, the runtime's readiness | construct, `changed`, cancel, drop | socket, listing, Tokio / async-io |
| Latest-snapshot queue (`async_callback.rs`) | one snapshot, one waker, a condition variable | push, async next, blocking wait | Android and Windows watchers |
| Callback quarantine (`callback.rs`) | `failed` | initial call, call from a notification, dispatch to many | Android and Windows watchers |
| Android watchers (`watch_android.rs:1-256, 371-404`) | process-wide: registered, initialising and queued watchers, the current snapshot, the Java object | register, catch up, unregister, `interfaces_did_change`, `changed` | ConnectivityManager's thread, listing |
| Android support (`watch_android.rs:258-369`, the Java class) | a file in the app's code cache, the support object and its subscription | start, inject the class, stop | the file system, ConnectivityManager |
| Windows watchers (`watch_win.rs`) | pinned state behind a mutex, two OS registrations, `initialising`, `disabled` | register, notification, drop | IP Helper's threads, listing |
| Unix listing (`list_unix.rs`) | none between calls | `list_interfaces`: copy, resolve, gather, collect | the kernel, which moves on meanwhile |
| Windows listing (`list_win.rs`) | none between calls | `list_interfaces`: size the buffer, copy, walk | the IP helper |
| Android context (`android.rs`), errors, build script | a slot for JVM and Context | set, use | JNI |

What is hard, and hard to test:

* **A change races the code that looks for it.** Subscribing comes before the
  first listing, draining before every later one, and a listing is itself not
  atomic. Whatever happens in between has to be in the snapshot or still on its
  way. (`NoLostChange`, `ChangesAreDelivered`, `ChangedReturns`)
* **Bounded buffers.** A netlink socket overruns, reports it once and then says
  nothing until it is emptied; the latest-snapshot queue overwrites.
  (`NoLostChange`, `ChangedReturnsAsDocumented`)
* **The end of a watcher.** A drop meets a callback that runs, is about to run,
  panics, or has panicked; interfaces may flap faster than callbacks return.
  (`NoCallAfterDrop`, `DropIsPrompt`, `DropTerminates`, `StateOutlivesCalls`)
* **One diff for many watchers.** On Android a diff is computed once, against a
  process-wide snapshot, and dispatched to all; a watcher that registers
  meanwhile has seen other snapshots. (`RegisteredAreCurrent`,
  `ImplementsUpdateStream`)
* **First and last watcher.** They start and stop the Java subscription, while
  others are in the middle of registering. (`JavaFollowsWatchers`)
* **Sleeping and cancelled calls.** A push may come between the look into an
  empty queue and the waker left there; a waker or an edge may be used up by a
  call that no longer exists. (`NoLostChange`, `ChangedReturns`, `ChangesAreDelivered`)
* **A process killed at any step.** Android kills apps; the file the support
  class comes from stays on disk as it was. (`LoadsWholeFile`)
* **Giving up half-way.** A construction fails or panics after some resources
  were acquired; a Java subscription is not to be had, or cannot be stopped.
  (`NothingIsLeaked`, `SubscriptionFollowsWatchers`, `WatchersAreSubscribed`)
* **A listing that races the configuration.** Names are resolved one by one
  after the copy; the buffer is sized for adapters that come and go.
  (`InterfacesAreWhole`, `ListingIsExact`, `ListingIsASnapshot`,
  `BufferIsNeverOverrun`, `WindowsListingEnds`)
* **Drift.** A user who applies diffs must end with the snapshot, after any
  sequence of them. (`RecordIsCurrent`, `DiffIsExact`, `OrderNeverMatters`)

`PROJECT.json` lists each hazard at its line with the properties that cover it.

## The modules

```
UpdateCursor ---- UpdateStream                  what every watcher promises
  |    \
  |     Host                                    configuration, non-atomic listing
  |      |  \
  |      |   EventSocket                        notifications, buffer, overrun
  |      |      |         \
  |      |   FdCallbackWatch   FdPullWatch      watch_fd.rs
  |      |
  |   AndroidWatch   WindowsWatch               watch_android.rs, watch_win.rs, callback.rs
  |      |              |                       (both on Host and AsyncCallbackQueue)
  |   AsyncCallbackQueue                        async_callback.rs
  |
InterfaceDiff -- DiffReplay                     lib.rs

AndroidSupport                                  the rest of watch_android.rs, android.rs, Java
ListUnix                                        list_unix.rs
IpHelper -- ListWindows                         list_win.rs
```

`M`'s theorems are in `MProofs`, which extends it. `MCAndroidWatch` adds a symmetry set and
`MCListUnix` the configurations to begin with; `MCListInterfaces` is
`list_interfaces` of `lib.rs`, one of the two listings depending on the target.

**UpdateCursor** is `UpdateCursor` of `lib.rs` as operators on a record. A
snapshot is opaque, and an Update is named by the two snapshots its diff is
computed from. That is enough for everything about watchers, because the diff is
a function of that pair; what the function does is the subject of
**InterfaceDiff**, and **DiffReplay** runs it: platforms return address vectors
in any order and with duplicates, `normalise` (`Sorted`, then `Kept` from left to
right) and the cursor process them, and a subscriber keeps its own record from
diffs alone.

**UpdateStream** is the abstract specification: an initial Update against no
interface, then Updates each of which differs from the one before and is a diff
against exactly that one, then nothing. Each watcher is shown to implement it
with `last` mapped to what its owner received and `closed` to the states after
which nothing may come.

**Host** is the configuration and a listing of it in two steps: `getifaddrs`
copies the configuration, `if_nametoindex` resolves names against what it has
become. If it changed in between, the listing may fail or be any mixture; if
not, it is exact. A listing may also fail by itself. That this is what
`list_unix.rs` does is the subject of **ListUnix**: its `ListingIsExact` is the
second half of the assumption, labelled addresses apart.

**EventSocket** adds the kernel's notifications. A change is made first and
notified later. A full netlink socket records an error, which the next `recv`
returns without taking anything off the queue, and loses everything else in
silence until the queue has been emptied; a full routing socket just drops.
`Received` and `DrainEnds` are one round of `drain_event_socket`.

**FdCallbackWatch** has one action per step of `start_watcher_thread` that
others can observe: `OpenSocket`, `CreatePipe`, `BeginInitialListing`,
`FinishInitialListing` (which enters the callback), `ConstructionUnwinds`, `SpawnWatcher`; of the
thread: `Poll`, `Drain` (one `recv`), `BeginListing`, `FinishListing`,
`CallbackReturns`/`CallbackPanics`, `CheckPipe`, `DropSender`, `DropSocket`; of
the owner: `DropBegins` closes the pipe, `DropReturns` waits for the channel.
Two ghost variables serve the properties: `missed` (the last listing failed by
itself) and `lateCalls`.

**FdPullWatch** is `changed()` with its three ways of waiting, `mode`: `poll`
and AsyncIo look at the socket, Tokio looks at a readiness flag its runtime sets
on an edge. A pending async call may be dropped (`CancelChanged`) at its only
await. `fresh` stands for Tokio's tick, which keeps `clear_ready` from erasing a
readiness newer than the guard. A `readable()` that fails closes the stream:
every call from then on is `pending`, also after a cancellation.

**AsyncCallbackQueue** and **AndroidWatch** model the process-wide `State` with
its mutex (`holder`). A critical section is one action unless it lists the
interfaces, starts Java or runs a callback, in which case it is several and
`holder` keeps the others out. Callback watchers go through `initial`, `catchUp`
and `catchUpCall` without the mutex, as `register_callback_watcher` does.
ConnectivityManager's calls are `events`, made by one thread.

**WindowsWatch** is one watcher of either kind with its owner and the threads of
its two registrations; nothing is shared between watchers there. `holder` and
`poisoned` are the mutex, which is held through every listing and every
callback. `Register` is tried for the two registrations in turn, and may fail
for each. `Cancel` waits for the calls of its registration in progress, or
`CancelFails`; then `FreeState` drops the state or `LeakState` disables and leaks it. The
destructors run in the order Rust gives them: the mutex's guard before the
registration, whatever ends the construction.

**AndroidSupport** is what happens around the first and the last watcher of an
Android process: `start_java_watching` with `inject_dex_class` step by step
(`WriteDex`, `SealDex`, `LoadClass`, `RemoveDex` and so on, in the order the code has them),
`stop_java_watching`, which may fail and leave an object subscribed, the Java
class with and without a ConnectivityManager, and the slot of `android.rs`. The
file survives `Kill`, everything else is of the process.

**ListUnix** is `list_interfaces` of `list_unix.rs` with the kernel beside it:
`Getifaddrs`, one `Gather` per entry with its `if_nametoindex`, `Collect` with
the prefixes lent within a family. Links are unplugged, plugged and renamed in
between. A name is the name of a link and a label, as on Linux an IPv4 address
can carry one. `CandidateOf` says under which name an entry is gathered.
`HashMap`'s order is any order.

**ListWindows** is `list_interfaces` of `list_win.rs`: `BufferOverflow` grows
the buffer to what was asked for, and adapters may have come by the next call;
`CallSucceeds` copies them and `VisitAdapter` is one round of the walk. Sizes
are counted in adapters and addresses. What the IP helper knows and how much
room it takes is **IpHelper**.

Definitions named as slips (`DropReturnsAtOnce`, `CatchUpForgets`, ...) are
plausible mistakes in the code, kept next to the definition they would replace;
`PROJECT.json` pairs each with a property it breaks. They are in no
specification.

## The runs

| Run | Instance | Question |
|---|---|---|
| `fd_callback` | 3 snapshots, 4 changes, queue of 2 | is anything lost, leaked or called too late, is the stream the promised one, do changes arrive and drops return |
| `fd_pull` | 3 snapshots, 4 changes, queue of 2, 3 modes | does a sleeping watcher know the configuration, does `changed()` return, and what |
| `fd_pull_overrun` | 2 snapshots, 3 changes, queue of 1, 3 modes | is the documented promise kept without an excuse for overruns (it is not) |
| `diff_replay` | 2 interfaces, 2 names, 2 hardware addresses, 2 addresses, vectors of up to 2 | do diffs add up |
| `android_safety` | 2 callback watchers, 1 queued, 3 snapshots, 2 changes | is the shared state consistent in every order |
| `android_live` | 1 callback watcher, 1 queued, 2 snapshots, 2 changes | is each stream the promised one, does everything end that should |
| `windows` | both kinds of watcher, 3 snapshots, 2 changes | all of the above for Windows, and does the shared state outlive the calls into it |
| `windows_abort` | 2 snapshots, 1 change | does an initial panic unwind as documented (it may abort) |
| `android_support` | 2 watchers, 2 support objects per process, 2 kills | what is loaded, who is subscribed |
| `android_support_manager` | 1 watcher, 1 support object, no kill | is an error returned when the watcher cannot be configured (without a ConnectivityManager it is not) |
| `list_interfaces` | Unix: 2 links, 6 addresses, 2 changes; Windows: 2 adapters, 2 addresses, a buffer for 1 adapter to begin with | is a quiet listing exact, is a torn one whole; is the buffer ever overrun, is the listing one moment's, does it end |
| `list_unix_alias` | the same for Unix | is every address listed as documented (a labelled one may not be) |

Bounds. `MaxChanges` bounds how often the configuration changes; `QueueCap` the
socket's buffer. Three changes overrun a queue of one while a listing is being
resolved, four overrun a queue of two and still leave one for after the recovery.
Three snapshots are what a wrong base needs: two that were delivered and one
delivered against the wrong one of them. On Android two callback watchers are
needed for one to register while the other is dispatched to, and a third watcher
to be neither first nor last; one change to be caught up with and one to arrive
meanwhile. On Windows each change may concern one registration or both, so two
changes already give four calls on two threads. `MaxVector = 2` is the shortest vector that can be unsorted or hold a
duplicate. Two kills let a half-written file meet a second and a third process, and two
support objects let one outlive a failed stop beside its successor. In
`list_interfaces` two prefixes of a family make the choice of the lender matter, an
address of each family without a prefix shows that none is lent across families,
and two changes swap a name between links. On Windows the buffer is
outgrown up to five times. `CHECK_DEADLOCK FALSE` is set everywhere because the systems do stop:
the bounded number of changes is used up and a watcher waits, or was dropped.

Symmetry is used for invariants only, over snapshots other than the empty one
and over watchers of a kind.

Fairness. The watcher thread runs, and the user's callback returns or panics;
the kernel queues its notifications; a drop whose channel is closed returns; a
wait that is over is acted upon; Tokio's runtime looks at its edges;
ConnectivityManager and the IP helper notice changes; the thread that lists the
adapters on Windows runs. All of it is weak fairness
on steps that stay possible until they are taken, except on Android and Windows, where a thread that wants
the mutex is disabled while another holds it; there the bounded number of
changes bounds how often the mutex can be taken, and weak fairness suffices. The
adapters of `ListWindows` may come and go for ever; the listing ends because
the buffer only grows and adapters are bounded. No
fairness makes the configuration change, an owner call `changed()` or drop
anything, a listing fail during a watcher's loop, or a callback panic. On
Windows only a cancellation that succeeds is fair, not `CancelFails`:
`DropTerminates` has to come from the calls in progress ending and not from a
cancellation that gives up.

### What the runs show

All properties of the passing runs hold. `missed`, a listing that failed by
itself, is the one excuse in `NoLostChange` and the liveness properties; the
library documents that it swallows such failures.

Four disagreements with the documentation were found.

**Under Tokio a netlink overrun silences the
watcher** (`fd_pull_overrun`). `drain_event_socket` stops at any error,
`ENOBUFS` included (`watch_linux.rs:62`), so the queue is still full when
`clear_ready` is called (`watch_fd.rs:58`). A full netlink socket drops
everything and wakes nobody, and the edge-triggered readiness is never set
again, although `lib.rs:413-414` says that `changed()` waits "until there is a
change". `poll` and AsyncIo look at the socket, find it readable and recover.
`TokioOverrun` names the condition, and the passing properties of `FdPullWatch`
excuse it by name.

**On Windows a panic of the initial callback may abort the process**
(`windows_abort`). The callback runs with the state's mutex held, so its panic
poisons the mutex; the unwinding drops the registration, and if a cancellation
fails, which that destructor provides for, `lock().unwrap()`
(`watch_win.rs:115`) panics during unwinding. `lib.rs:458` says that
construction unwinds.

**On Linux an interface with a labelled address is listed in part**
(`list_unix_alias`). The addresses of one interface are gathered under as many
names as they have labels, all names resolve to one index, and the map keyed by
index (`list_unix.rs:97`) keeps one of them, whichever `HashMap`'s order has
last, although `lib.rs:438` promises all enabled interfaces "and their IP
addresses". `InterfacesAreWhole` says what does hold: what is listed is all of
what one name has.

**On Android a watcher may be registered that watches nothing**
(`android_support_manager`). Without a ConnectivityManager
`startInterfaceWatch` logs that and returns
(`NetwatcherSupportAndroid.java:33-36`), so `start_java_watching` succeeds and
the caller gets a watcher that is never notified, although `lib.rs:464` says
that the function "will return an error if there is a problem configuring the
watcher". `WithoutManager` names the condition, and `SubscriptionFollowsWatchers`
excuses it by name.

One consequence of a kill contradicts nothing that is documented and is no
property: a process that dies between making `netwatcher.dex` read-only and
removing it leaves a file no later `fs::write` can overwrite, and first
registrations return an error until somebody removes it. The model has these
behaviours, and `LoadsWholeFile` holds in them.

## The proofs

The theorems hold for all values of the constants, under the named assumptions
of the modules: `ListsAssumption` (`EmptyList` is a snapshot, `NoList` and
`NoUpdate` are none; `NoUpdateAssumption` in `DiffReplay`), `HostAssumption`,
`SocketAssumption` (`QueueCap` is positive), `WatchersAssumption` (watchers and
the other holders of the mutex are different things), `SupportAssumption`,
`ListAssumption` (initial configurations are configurations),
`AdaptersAssumption` (there are finitely many addresses, so that sizes are numbers),
`AddrsAreOrdered` (addresses have a total order, as `IpRecord` does; they are
numbers here), `MaxVectorAssumption` (the bound on a vector's length is a number).

`FdCallbackWatchProofs` proves `TypeOK`, `NoCallAfterDrop`, `NoLostChange`,
`DropIsPrompt`, `NothingIsLeaked` and the implementation of `UpdateStream`. None is inductive by
itself. The invariant `IInv` joins:

* `SocketOK`: a loss is recorded only on a full queue and is reported before the
  queue can be emptied, so a notification sent to an open socket always leaves
  it readable;
* `PhasesOK`: where owner and thread can be relative to each other and what is
  open there, which gives `NothingIsLeaked`; `completed` implies that the thread has left its loop, which gives
  `NoCallAfterDrop`;
* `CursorOK`: the cursor's snapshot is the one last delivered, which gives the
  implementation of `UpdateStream`;
* `FreshOK`: after the snapshot is taken, a configuration that has moved on
  since has a notification pending. It says nothing between draining and
  listing: that is why the order of the two matters. It gives `NoLostChange`;
* `LateCallsOK`: how many calls can have begun since the drop did, at each place
  of the loop, given whether the poll before it saw the pipe closed.

`FdPullWatchProofs` proves `TypeOK`, `NoLostChange` and the implementation of
`UpdateStream` for the three ways of waiting. `CursorOK` relates the cursor to
what was returned and to the initial Update that is still to be; `EdgeOK` says
that under Tokio a readable socket that is not full is known to the runtime or
flagged, and before `clear_ready` by an edge the guard does not cover; `FreshOK`
is as above; `FailureOK` that a failure comes after the initial Update was
returned and leaves no call that could look at the socket again, so that the
stream, which it closes, stays closed. The congested socket left out of `EdgeOK` is the overrun finding.

`AndroidWatchProofs` proves all five invariants and the implementation of
`UpdateStream` for any number of watchers of both kinds, which TLC only sees
three of. Parts of its invariant:

* `LockOK`, `MembersOK`: who holds the mutex, and in which of the three lists a
  watcher is, as functions of where its owner is; they give
  `CallbackIsExclusive`;
* `JavaOK`: the subscription while a first registration is under way, which
  gives `JavaFollowsWatchers`;
* `CallbacksOK`: a registered callback was last called with the current
  snapshot, or with the base of the diff in hand if it is still to be called;
  one that initialises with its own `seen`. It gives `RegisteredAreCurrent`, and
  it is why a diff computed once is a step of every stream;
* `QueuesOK`, `FreshOK`: a queue holds what its cursor has not seen, and
  somebody will still look if the snapshot is not the configuration;
* `WakeOK`: a parked owner found its queue empty and left its waker there, and
  what was pushed since has used it. With the above it gives `NoLostChange`. It
  is kept apart from `IInv` and proved relative to it, as only the queues are
  concerned.

The refinement is proved for one arbitrary watcher against an arbitrary step of
any other: an action delivers at most to its own watcher, or is `DispatchOne`.

`WindowsWatchProofs` proves its four invariants and the implementation of
`UpdateStream`. `RegistrationOK` says which registrations exist at each stage of
construction and destruction and that one that is gone does not call, whichever
attempts failed, which gives `StateOutlivesCalls`; `EndOK` that at the end the
state is disabled or nothing calls any more and nobody is inside the callback,
which gives `NoCallAfterDrop`; `LockOK`, `PhasesOK` and `StreamOK` carry the
mutex, the flags and the cursor, and `FreshOK` gives `NoLostChange`, with
`WakeOK` for the parked owner as on Android. `NobodyWaitsWithTheLock` is the safety half of
`DropTerminates`: whoever holds the mutex is listing or in the callback, never
waiting for a cancellation, which waits for calls that wait for the mutex. No
run checks it; `LockOK`, from which it follows, was written for the proofs.

`AndroidSupportProofs` proves the three invariants of `android_support` for any
number of kills, objects and watchers, from `FileOK` (what the file holds at the
step that seals it) and `ObjectOK` (the object in `State` is there while there
are watchers, and only it is subscribed unless a stop has failed).

`ListUnixProofs` proves `ListingIsExact` and `InterfacesAreWhole` for any links,
addresses, labels and any number of changes. `GatheredOK` says that a candidate
is the sum of the entries gathered under its name, and `CandidateIsPart` that
with all entries gathered it is what one link has under that name; `ResolvedOK`
that without a change names resolve to the link they belong to.

`ListWindowsProofs` proves `BufferIsNeverOverrun` and `ListingIsASnapshot` for
any adapters, indices, sizes and any number of them. `SizesOK` says that the IP
helper is told of exactly the buffer there is and that what was copied fits it;
`WalkOK` that nothing is copied or collected while the call is being repeated
and that what the walk has before it is the end of the copy; `CollectedOK` that
the interfaces collected are those of the part behind it. An adapter does not
overwrite another because no two copied at one moment share an index
(`VisitCollects`).

`DiffReplayProofs` proves about `update_from` itself, for any sets of
interfaces, names and addresses, that the iterators return exactly the
difference, that an empty diff means equal snapshots, and that replaying a diff
gives the newer snapshot; from these `RecordIsCurrent` and `DiffIsExact` follow
by an invariant that only adds the types. `OwnersOfStreamsAreCurrent` is the
same for the owner of any watcher: whatever behaviour of `UpdateStream` it is
given, its record is the last snapshot delivered. Together with the four
theorems that watchers implement `UpdateStream` this closes the gap between the
opaque snapshots of the watcher models and the lists of `lib.rs`.

`NormaliseIsCanonical` and `OrderDoesNotMatter` are about `sort` and `dedup`, on
vectors of any length. Sorting is a rearrangement that ascends; that there is
one (`SortingExists`) is proved by taking the least length without one and
removing a greatest member, which turns the induction into the library's least
element of a set of numbers (`LeastNatural`). What `Kept` keeps of the first `n`
addresses ascends strictly and has the same members, again by the least `n` for
which it would not (`KeepingIsExact`), and a strictly ascending vector is
determined by its members (`AscendingIsUnique`). Hence vectors are equal exactly
if the sets are, which is what `OrderNeverMatters` says of two listings.

Every safety invariant and every action property of the passing runs is thus
proved. Only model-checked are the liveness properties (`ChangesAreDelivered`,
`ChangedReturns`, `DropTerminates`, `RegistrationTerminates`, `WindowsListingEnds`),
which are beyond the prover: it knows neither ENABLED nor fairness. The four
violations are TLC's counterexamples.

## Not modelled

* Errors, conditional compilation, `build.rs` and JNI plumbing, which have no
  behaviour of their own to check; the tests, the example and the Android test
  application, which use the library and are no part of it.
* `android.rs`: that a missing `ndk_context` panics in a crate outside this
  repository, and the mutex of the context slot, which nothing called with it
  held takes again.
* Callbacks that drop their own handle (documented as a deadlock) or, on
  Android, create or drop other watchers, which the process-wide mutex turns
  into a deadlock too; hazards in `PROJECT.json`.
* Panic payloads with panicking destructors (`drop_panic_payload`), poisoned
  mutexes on Android, which nothing in the code leads to (the slip
  `CallbackEndsOrPoisons` shows what one would do).
* Unicast addresses of a family other than `AF_INET` and `AF_INET6` on Windows.
  Asked for `AF_UNSPEC` the IP helper returns these two only, so `VisitAdapter`
  takes an adapter's addresses in one step and has no counterpart of the
  `_ => continue` at `list_win.rs:92`, which does not advance `unicast_ptr`.
* `ipv4_ips`, `ipv6_ips`, names and hardware addresses as text (`format_mac`).

## Plan

Done, in this order: `UpdateCursor`, `UpdateStream`, `Host`, `EventSocket`;
`FdCallbackWatch` with its proofs; `FdPullWatch` with the overrun finding;
`InterfaceDiff` and `DiffReplay` with their proofs; `AsyncCallbackQueue`,
`AndroidWatch`; `WindowsWatch` with the finding about an initial panic;
`AndroidSupport` with the finding about a missing ConnectivityManager;
`ListUnix` with the finding about labels; `ListWindows`; the
proofs of `FdPullWatch`, `AndroidSupport`, `WindowsWatch`, `AndroidWatch` and
`ListUnix`.

Then the proofs of `ListWindows` and of `normalise`, the sleeping owner in
`NoLostChange`, the failure that closes the stream, and the owner who replays any stream.

Left: that `ListUnix` implements the two-step listing of `Host`, as a refinement
and not only as `ListingIsExact`; the mutex of the context slot if
`with_android_ctx` ever calls back into the library.
