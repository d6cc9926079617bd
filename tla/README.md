# Verification of the inline concurrency, messaging and numeric code of webrtc-android

The repository is a binary distribution of WebRTC for Android: the headers of
the native library under `src/include`, and prebuilt libraries under `src/lib`.
Most classes are only *declared* in the headers. What can be verified against
source is the code the headers define: templates and inline classes. Those are
the ones everything else in WebRTC stands on: the lock-free queue between audio
threads, the signal/slot mechanism, the proxies that move calls between
threads, the copy-on-write packet buffer, sequence number arithmetic, and the
containers and locks of Chromium's `base` that ship with it.

TLA+ modules model these classes. TLC checks them on small instances. TLAPS
proves the most important properties for every value of the constants.

## 1. Inventory

| Part (header) | State | Operations | Talks to | What is hard | Module |
|---|---|---|---|---|---|
| `SwapQueue` (`rtc_base/swap_queue.h`) | ring of buffers, two indices, atomic count | `Insert`, `Remove`, `Clear`, `SizeAtLeast` | one producer, one consumer, no lock | a test of the count is used after the other thread has run; `Clear` in two steps | `SwapQueue`, `SwapQueueOrders` |
| sigslot (`rtc_base/third_party/sigslot/sigslot.h`) | per signal a list and an iterator, per object a set of senders | connect, disconnect, `disconnect_all`, `emit`, copy, destroy | every WebRTC class with events | slots change the list that `emit` walks, nested `emit`, lifetime | `SigSlot` |
| sigslot thread policies (same file) | a mutex per signal, and perhaps one per object | the same, locked | several threads | lock order, destruction during `emit` | `SigSlotLocks` |
| `MediaChannel` (`media/base/media_channel.h`) | interface pointer, DSCP preference, mutex | send, set option, `SetPreferredDscp`, `SetInterface` | worker and engine threads, network interface | a call into an interface that is being replaced; failure halfway | `MediaChannel` |
| proxies (`api/proxy.h`) | a call on the caller's stack, an event | marshal, run, destroy | signaling and worker threads | lifetime of the posted call, re-entrant destruction, waiting for ever | `Proxy` |
| `CopyOnWriteBuffer` (`rtc_base/copy_on_write_buffer.h`), `RefCounter` | slices of counted storage | copy, move, swap, slice, `SetData`, `AppendData`, write | threads that own copies of one packet | check of the count, then write | `CopyOnWriteBuffer` |
| `mod_ops.h`, `sequence_number_util.h` | last value | `Add`, `Subtract`, `AheadOf`, `Unwrap` | every RTP receiver | underflow, ties, odd moduli | `ModOps`, `SeqNumUnwrapper` |
| `Unwrapper` (`modules/include/module_common_types_public.h`) | last value | `Unwrap`, `UpdateLast` | RTP timestamps and numbers | integer promotion, floor at zero | `Unwrapper` |
| `MovingMaxCounter` (`rtc_base/numerics`) | monotone deque | `Add`, `Max`, `Reset` | statistics | window boundary, equal samples and times | `MovingMaxCounter` |
| `PercentileFilter`, `MovingMedianFilter` (`rtc_base/numerics`) | multiset, iterator, index | `Insert`, `Erase`, `Reset` | estimators | iterator and index must move together over equal values | `PercentileFilter` |
| `OperationsChain` (`rtc_base/operations_chain.h`) | queue of operations | `ChainOperation`, completion callback | peer connection | synchronous completion and chaining from inside an operation | `OperationsChain` |
| `RollingAccumulator`, `RunningStatistics` (`rtc_base`) | a ring of samples, a mean and a cumulant, cached extremes | add, remove, merge, `Reset`, `ComputeMax`, `ComputeMin` | statistics | a stale extreme, removing the last sample | `RollingAccumulator`, `RunningStatistics` |
| `scoped_refptr` (`api/scoped_refptr.h`) | a pointer, a count | assign, copy, move, swap | every counted object | assignment to itself | `ScopedRefptr` |
| `SpinningMutex` (`base/allocator/partition_allocator`) | one atomic state | `Acquire`, `Try`, `Release` | threads, the futex | a wake-up lost between unlocking and waking | `SpinningMutex` |
| callback lists (`base/callback_list.h`) | a list, null callbacks, `iterating_` | `Add`, `Notify`, cancel, destroy | callbacks | the notified change the list that is walked | `CallbackList` |
| observer lists (`base/observer_list.h`) | adapters, live iterators | add, remove, `Clear`, iterate, destroy | observers | the same, in nested iterations | `ObserverList` |
| `circular_deque` (`base/containers`) | a buffer that wraps, two indices | push, pop, insert, erase, resize, copy, assign, ... | containers of tasks | the spare slot, moving elements across the end | `CircularDeque` |
| `LazilyDeallocatedDeque` (`base/task/sequence_manager`) | a list of rings | push, pop, clear, `MaybeShrinkQueue` | task queues | merging rings, the spare slot | `LazilyDeallocatedDeque` |
| `IntrusiveHeap` (`base/containers`) | an array, handles in the elements | insert, erase, `Update`, `Replace`, `ReplaceTop`, clear | delayed tasks | moving both ways, handles that follow | `IntrusiveHeap` |

Not modelled, with the reason, is the rest of `PROJECT.json`'s components
(section 8).

## 2. Modules

**`SwapQueue`** has one action per access to shared memory: the load of the
count, the read and the write half of the swap, the fetch-and-add, the private
index update. `Fill` and `Drink` are the callers' own use of their buffer
between calls. `FreeSlot` and `FirstSlot` name the slots each thread's index
stands for in the middle of a call. Memory is sequentially consistent here.
**`BoundedFifo`** is the promise: an atomic queue of at most `Size` values that
refuses when it is full or empty. `ImplementsBoundedFifo` maps the counted slots,
in ring order, to the abstract queue; `Insert` takes effect at the
fetch-and-add and `Remove` at the fetch-and-sub.
**`SwapQueueOrders`** is about the memory orderings alone. The modifications of
`num_elements_` are a sequence; a load returns any of those not older than one
that its thread has seen; each modification carries the slots whose last access
is ordered before whoever acquires it. A relaxed exchange, being a
read-modify-write, passes on what was released before it and adds nothing.

**`SigSlot`** gives list nodes increasing numbers, so that a list is a set and
its order is the order of the numbers; `push_back` allocates the next number.
`m_current_iterator` is a node or `End`. The stack holds the emissions in
progress, each with the history of what it owed (`due`) and called (`done`).
Every operation a client can make is enabled between emissions and inside a
slot, except that a signal is not destroyed while it is firing. `Repeated` says whether clients connect an object twice to one signal.

**`SigSlotLocks`** models the lock acquisitions of the same operations for several
threads. Signals are `multi_threaded_local`; `SlotsLock` says whether objects
are as well, or are `single_threaded`, as the objects connected to the signals
of `AsyncSocket` are (`rtc_base/async_socket.h:33`). The mutexes are default
pthread mutexes and block also the thread that holds them, so the slots that
`emit` calls here leave the firing signal alone. What the header asks of clients
is in `Clash`: objects without a mutex are not connected or disconnected by two
threads at once. Nor is a signal changed while it is copied, since the copy
constructor locks the new signal and reads the list of the other one.
Destruction has two steps, the derived part first.

**`MediaChannel`** models each method under `network_interface_mutex_` and the
calls it makes into the interface as separate steps, since the interface runs
arbitrary code. `SetInterface` is external. An owner may destroy an interface
as soon as it is no longer installed. Setting a socket option may fail.

**`Proxy`** gives each thread a stack of frames and a queue of tasks.
`CallMethod` runs the method directly on the object's thread, and otherwise
posts the call and blocks. `RunTask` is the message loop (external) running
`Run`; `RunReturns` sets the event. `MayCall` restricts which threads call which.

**`CopyOnWriteBuffer`** gives each buffer an owner thread. Operations that
write begin with `Check`, the read of the reference count, and end with the
write; other owners act in between. **`ValueBuffers`** is the promise: each
buffer is a value of its own. Capacities follow `BufferT`.

**`ModOps`** has the operators, with unsigned underflow modulo `Word` and the
integer promotion of narrow types. **`SeqNumUnwrapper`** and **`Unwrapper`**
drive them with a stream whose true position is known, so that "exact" is
compared with something the code does not see.

**`MovingMaxCounter`** keeps, besides the deque, the set of all samples.
**`PercentileFilter`** models the multiset as a sorted sequence and the iterator
as a position that shifts when elements before it come and go; the index is the
code's own. **`OperationsChain`** has the stack of executing functors, and where
each functor lives: in its operation, in `Run`'s local variable, or no more.
`OnOperationComplete` is external, modelled from the class comment and members.

**`RunningStatistics`** and **`RollingAccumulator`** compute with exact
fractions and not-a-number in place of doubles: that the updates are the mean
and the sum of squares of the samples is an identity of rationals, and division
by zero is kept; rounding is left out.

**`ScopedRefptr`** changes counts in the order the assignments do and deletes an
object with its last reference. **`SpinningMutex`** has one action per atomic
access of `Try`, `Acquire` and `Release`, and the spin count and the backoff of
`Acquire`. `LockSlow` and the futex are external; a futex wakes one sleeper, and
may wake for no reason.

**`CallbackList`** numbers the callbacks in the order of the list; a call of
`Notify` on the stack is a frame with its iterator. A once callback that runs
moves to `null_callbacks_`. **`ObserverList`** keeps the adapters in a sequence
and the iterations, innermost last, with what they still owe (`due`) and who
came late (`late`). Between two steps of a loop the notified may do anything
that a client may do.

**`CircularDeque`** translates the arithmetic on `begin_` and `end_`, the
branches of `erase` and `MakeRoomFor`, the growth and the shrinking rule; slots
without an object hold `Raw`, so that a move from or a destruction of the wrong
slot shows. **`LazilyDeallocatedDeque`** is the list of rings; time is whether
the next resize is due. **`IntrusiveHeap`** moves holes up and down and sets the
handle of every element it places.

Three modules put several components in one specification, for TLC:
**`Threads`** (`CopyOnWriteBuffer`, `SpinningMutex`, `SwapQueueOrders`,
`ScopedRefptr`, `SigSlotLocks` with the policies of `AsyncSocket`, `MediaChannel`),
**`Numerics`** and **`Containers`**; **`Tasks`** joins `Proxy` and
`OperationsChain`. The components of one module do not interact: one moves while
the others are as built, the states are the sum of theirs, and each is checked
as if alone.

## 3. Runs

| Run | Instance | What it shows |
|---|---|---|
| `swapqueue` | 2 slots, 4 buffers, 2 values | no slot is touched by both threads, buffers are conserved, `SizeAtLeast` is a lower bound; the steps implement `BoundedFifo`; what is inserted is handed over |
| `sigslot_dispatch` | 2 signals, 2 objects, 4 connections, 2 nested emissions | consistent connections, no dead object called, every slot called once, emissions end |
| `sigslot_repeated` | 1 signal, 2 objects, repeated connections | **violated**: a destroyed object is called |
| `threads` | 2 buffers, 3 storages, 2 bytes, length 2; 3 threads that lock; a queue of 3 slots; 3 pointers, 3 objects; 2 threads, 2 signals, 2 objects; 2 threads, 2 interfaces, 2 values | buffers are independent values with exact counts and exclusive access while writing; the mutex excludes, loses no wake-up, and somebody gets it; slot accesses are ordered; pointers never dangle; `emit` never calls an object that is gone, though others connect and destroy objects meanwhile; only live interfaces are called and sockets follow the preference |
| `siglocks_local` | 2 threads, 1 signal, 1 object | **violated**: opposite lock orders |
| `mediachannel_failure` | 2 threads, 2 interfaces, 2 values | **violated**: a repeated `SetPreferredDscp` reports success that never happened |
| `tasks` | 3 threads, calls 3 deep; 3 operations | a posted call runs once while its caller waits, finds its object, and returns; operations run one at a time and in order, their functors live just as long as they execute, and all complete |
| `cow_empty` | 2 buffers, empty data allowed | **violated**: `AppendData` of no bytes breaks `IsConsistent` |
| `numerics` | modulus 8; window 3 over 4 samples; 4 values, 7 observations, 4 percentiles; median window 5; 4 samples in 2 statistics; rolling window 3 | exact unwrapping; `Max` is the window's maximum; the iterator stays at the percentile and the median is the window's; exact mean, variance and extremes |
| `containers` | 4 elements in 2 deques; 6 tasks; 6 items; 3 observers, 2 nested iterations; 4 callbacks, 3 nested notifications | the deques are the sequences they stand for; the heap is ordered and its handles right; nobody is missed and no iterator is invalidated |
| `callback_once` | 3 callbacks, 2 nested notifications | **violated**: a once callback that notifies invalidates the outer iterator |
| `rolling_one` | a rolling window of 1 | **violated**: the mean becomes not a number |

The six violations are findings: `PROJECT.json` quotes the comment each one
contradicts.

**Bounds.** Two slots let both indices wrap, the queue be full, empty or in
between, and `Clear` remove more than one element; the proofs cover every size.
Three slots in `SwapQueueOrders` let a thread be a whole round behind, and
`MaxUnseen` lets it miss six modifications, two rounds of three.
Four connections and two nested emissions allow a connection before, at and
behind the iterator and one made during the emission. Two threads suffice for a
lock cycle between two mutexes; three on one mutex are a holder, a sleeper and
a newcomer in the window that `Release` leaves, and the proofs cover any number.
A spin count of two makes `Acquire` try twice before it sleeps. Three threads,
calls three deep, are one of each kind of caller and the longest chain of calls
downwards. Two buffers are a writer and a sharer that comes and goes; the
storages number one more than the buffers, so that a copy always finds storage.
Modulus 8 is a 3-bit type; positions reach several moduli on both sides of zero.
Windows and value sets are large enough to hold equal elements on both sides of
the iterator. The clock of `MovingMaxCounter` passes the window twice.
A deque's initial capacity is 3, so four elements make it grow, `MaxReserve`
makes it larger than its elements need and it shrinks again; insertion and
erasure happen at every offset from every position of `begin_`. Rings of 3 that
hold two tasks, with a threshold of 2 (4 and 16 in the code), let six tasks
spread over three rings and be merged; six items make a heap of three levels,
where an erased element's replacement must move up. In `SwapQueue`,
`MediaChannel` and `SigSlotLocks` the state is finite without bounds on the
history. `SeqNumUnwrapper` and `Unwrapper` are bounded by `MaxPosition`.
Explicit even and odd moduli and types that are not promoted are left to the
proofs, which hold for all of them.

**Deadlock** is checked in every run except `tasks`, where all operations may be
done, and `containers` and `callback_once`, where a list may be destroyed.

## 4. Fairness

* `SwapQueue`: the consumer keeps calling `Remove`. Nothing is assumed of the
  producer, which may stop in the middle of `Insert`.
* `SigSlot`: a thread inside `emit` runs, and slots return. Strong fairness,
  for each depth of nesting, is for a slot that emits again before it returns.
  Because `MaxConn` bounds the connections of a behaviour, `EmissionEnds` does
  not speak of slots that reconnect for ever: such an emission need not end.
* `Proxy`: methods return, message loops return to their queues, a thread whose
  event is set wakes up. Strong fairness, because a thread may run other calls
  in between. Calls go from application threads to the signaling thread and
  from there to the worker; the code does not enforce this, and threads that
  call each other wait for ever.
* `OperationsChain`: the class comment's contract, that an operation invokes its
  callback.
* `SpinningMutex`: every thread that has called goes on, and a holder releases
  (weak fairness of each thread). Spurious wake-ups and new calls are not
  assumed. Only that *somebody* gets the mutex (`SomeoneLocks`) follows: the
  code says that it is not fair.

## 5. Proofs

All proofs are for arbitrary constants under the named assumptions.

* **`SwapQueueProofs`** (any `Size` above zero): `IInv` joins the types,
  `IndexesAgree`, `CheckStillHolds` and what is known of the values in flight.
  None is inductive alone: that the slots are disjoint follows from the
  indices being `num_elements` apart, which the steps between a test and its
  index update preserve only if the test still holds. From `IInv` follow
  `TypeCorrect`, `IndexesAlwaysAgree`, `SlotsNeverShared`, `ChecksStayValid`
  and `SizeAtLeastSound`; `BuffersAlwaysConserved` adds one induction.
* **`SwapQueueProofs`**, second part: one simulation lemma for each action; theorem
  `Refinement` is `Spec => ImplementsBoundedFifo`. The lemmas say what the
  counted part of the ring, read as a sequence, becomes under each step.
* **`SigSlotProofs`, `SigSlotMirrorProofs`** (any number of signals, objects,
  connections, depths):
  `DispatchInv` adds to the validity of the iterator that what an emission
  still owes is at or after it (`DueInv`) and what the innermost emission of a
  signal has called is before it (`DoneInv`). `MirrorInv`, for clients that do
  not connect an object twice (`~ Repeated`), gives `ConnectionsStayMirrored`
  and `NoCallOfTheDead`; that no two connections join the same pair is the
  strengthening `disconnect` needs.
* **`NumericProofs`**, sequence numbers (any modulus and word): `Add` and
  `Subtract` are exact in spite of the underflow; exactly one of two different
  numbers is ahead; the unwrapper follows the position.
* **`NumericProofs`**, `Unwrapper` (any even modulus, promoted or not): never negative, and
  exact up to one modulus for each time the floor at zero was met.
* **`LockProofs`**, the spinning mutex (any threads, any spin count): exclusion
  is inductive once `state_` is tied to the holder (`MutexExcludes` says both).
  For `NoLostWakeup` each step that takes away one of the three reasons for
  which a sleeper may hope leaves another: `Release` of a contended mutex puts
  its thread at the wake-up, the wake-up puts the sleeper at `LockSlow`, and
  `LockSlow` marks the mutex contended.
* **`LockProofs`, `MediaChannel`** (any threads, interfaces and values, with
  `NoInterface` and `NoThread` outside of them): `ChannelInv` says that at most the holder of
  the mutex is in a call, what each step of that call has already applied to
  which socket, and that the interface installed is alive. Without the middle
  part `SocketsFollowPreference`, which speaks of the moments when the mutex is
  free, is not inductive. It gives `OnlyLiveInterfacesCalled` and
  `SocketsAlwaysFollow`.
* **`SigSlotLocksProofs`** (any threads, any signals and objects that are
  different things, `SlotsLock` or not): `EmitNeverCallsTheGone` is
  `LocksSpec => []EmitFindsItsSlots`. The two ends of a connection are changed
  in two steps, so that they agree is false in between; `LocksInv` says that
  a connection which the object does not know of is one that some thread is
  about to complete or to remove (`Linked`, `Mends`), what each thread knows
  while it holds a signal's mutex (`SoFar`), and that operations which must not
  overlap do not (`Clash`). `StepKeeps` reduces each action to what it does to
  its own thread and what it leaves alone.
* **`SharingProofs`** (finitely many variables and buffers): `scoped_refptr`
  keeps an object exactly while it is pointed to (`NoObjectDanglesOrLeaks`).
  Inside an assignment one reference is held by nobody's variable; `HeldBy`
  counts it, and the two steps `RefAdded` and `RefReleased` are lemmas about
  it. For `CopyOnWriteBuffer`, `CowInv` ties counts to sharers and adds what a
  pending operation has seen (`Protected`); it gives `StorageCounted` and
  `WritersAreAlone`.
* **`ReentrancyProofs`**: callback lists (any bounds, for once-lists that
  their callbacks do not notify again): `CallbackInv` gives
  `CallbackIteratorsStayValid` and `EveryCallbackNotified`.
  `OperationsChain` (any operations): `ChainInv` says that the chain is the end
  of the order in which operations were chained, and how far each place of
  that order is; it gives `OperationsRunInOrder`. `FunctorInv` adds where
  each functor is and that none is twice on the stack, for
  `FunctorsLiveUntilTheyReturn`; that an operation starts only once comes from
  `ChainInv`.

## 6. Only model-checked

Liveness (`InsertedIsHandedOver`, `EmissionEnds`, `CallsReturn`,
`EveryOperationCompletes`, `SomeoneLocks`) is out of the prover's reach, and so
is what a recursive definition or a fold computes for every input: the
containers, the statistics and the filters. `Proxy`, `SwapQueueOrders` and
`ObserverList` have no proofs, and that `CopyOnWriteBuffer` implements
`ValueBuffers` is checked, not proved.

## 7. Abstractions to know of

* Outside of `SwapQueueOrders`, memory is sequentially consistent. In
  particular the orderings of `RefCounter` and of `SpinningMutex` are taken to
  do what their comments say.
* Percentiles are exact fractions; with the sizes checked, rounding of the
  `float` product does not change the index. Statistics are exact fractions.
* Data is passed to buffers by value, so a buffer appended to itself is not
  covered. `SetSize`, `Clear` and `EnsureCapacity` are compiled elsewhere.
* `ObserverList::Clear` during an iteration marks every adapter, also one that
  is marked already, which `CheckedObserverAdapter::MarkForRemoval` forbids in
  debug builds (`observer_list_internal.h:63`); the model is of release builds.
* Callbacks that were added with `AddUnsafe` to a `OnceCallbackList` stay in
  `null_callbacks_` when they have run, although the comment at
  `callback_list.h:312` speaks of live subscriptions only; no property depends
  on it.
* Debug-only checks (`DCHECK`, `RTC_DCHECK`) appear as properties, not as steps.

## 8. Not modelled

The headers have 310,516 lines. Most are declarations of classes whose code is
in the prebuilt libraries, and copies of other projects' headers (Abseil, V8,
libvpx, protocol buffers, BoringSSL, generated files): of these there is nothing
to translate, and the share of all lines that the models cover stays small
whatever is modelled. What is left out although it has inline code:

* `PendingTaskSafetyFlag`, `ToQueuedTask`, `RepeatingTaskHandle`, `AsyncInvoker`,
  `WeakPtr` and the callback list of `rtc_base`: the templates wrap closures and
  forward to functions that are compiled elsewhere, and a model would be of the
  guesses about those.
* `BufferT`, `UsedIds`, `OneTimeEvent`, `StreamCollection`: sequential code or a
  single flag, of which a property would restate the code.
* Fake transports and network interfaces: doubles for tests.
* `AudioDeviceTemplate`: forwards to its template parameters.
* Copying of `has_slots` under locks, `BYPASS_PROXY_CONSTMETHOD0`,
  `SetOnChainEmptyCallback`, `LazilyDeallocatedDeque::swap`, and copying, moving
  and swapping of whole heaps.
* What a slot finds when its object is being destroyed by another thread: the
  base class destructor disconnects after the derived part is gone, so `emit` may
  call an object whose destruction has begun. `EmitFindsItsSlots` says only that
  it has not ended.
* `multi_threaded_global`: the header declares its mutex and defines it nowhere.
