# YGM in TLA+

YGM is a C++ library on MPI for asynchronous remote procedure calls: a rank
says `comm.async(dest, f, args)`, and `f(args)` runs some time later on the main
thread of `dest`; `comm.barrier()` returns when no such call is left to run
anywhere. Distributed containers (map, multimap, set, multiset, bag, counting
set) are written with these two operations and a few MPI collectives.

This directory holds TLA+ models of the library, the instances TLC checks, and
proofs TLAPS checks. Paths below are relative to the repository root;
`comm_impl.hpp` is `src/include/ygm/detail/comm_impl.hpp`.

## The system: inventory

| Part | State | Operations | What makes it hard | What makes it correct |
|---|---|---|---|---|
| Call counting and `barrier()` (`comm_impl.hpp` 57-175, 515-539) | `m_send_count`, `m_recv_count` of every rank, two all-reduces | `async`, running a handler, `barrier` | counts are added up that were read at different times; handlers make calls, inside `barrier()` too; ranks leave at different times | nobody leaves while a call of the epoch is pending; no handler runs in another epoch; reductions match; the assertion at line 165 holds; it terminates |
| Transport (57-85, 198-228, 353-470) | a send buffer per destination, a listener thread, a receive queue under a mutex | `async`, `async_flush_all`, `send_large_message`, `listen`, `receive_queue_*` | two threads per rank; messages of two kinds; `async()` processes the queue inside a handler; `MPI_Send` may block | every call runs exactly once; nothing is held back from a reduction; bodies of large messages meet the right receive |
| Lifecycle (23-51, `~comm` 589-594) | communicators, the listener | construction, destruction | the listener is ended by a message; world barriers do not process calls | the listener ends when nothing will come; all ranks finish |
| Map and multimap (`container/map.hpp`, `detail/map_impl.hpp`) | a local multimap per rank | asynchronous insert, visit, erase; collective clear, size, count, swap, all_gather, (de)serialize, for_all, topk | collectives have a barrier before and none after: ranks ahead send to ranks behind; all_gather calls back from a handler | contents at the end of an epoch are what the operations amount to; sizes and gathered values are those of one moment |
| Set and multiset (`container/set.hpp`, `detail/set_impl.hpp`) | a local multiset per rank | the same without values | the same | the same |
| Counting set (`container/counting_set.hpp`) | a direct-mapped cache of counts per rank, a map | `async_insert`, `count`, `size`, ... | the cache is flushed by `async_visit`, which may run handlers in between | no insertion is lost or counted twice |
| Bag (`container/bag.hpp`, `detail/bag_impl.hpp`) | a local vector and a round-robin counter | insert, for_all, size, clear, swap, (de)serialize, construction, destruction | an item may lie at any rank; iteration while insertions arrive | contents at the end of an epoch; the iterated vector does not move |
| Reductions and typed helpers (`comm_impl.hpp` 230-346) | none | `all_reduce_sum/min/max`, tree `all_reduce`, `mpi_bcast` | two messages per value; blocking | every rank gets the merge of all inputs, each once |
| `ygm_ptr` (`detail/ygm_ptr.hpp`) | a table of pointers per type and rank | registration, dereference of a received index | indices agree only when all ranks register in one order; objects are destroyed while calls travel | an index means the same live object everywhere |
| Archives (`detail/ygm_cereal_archive.hpp`, `detail/cereal_boost_json.hpp`, `pack_lambda()`) | the buffer, the reader's position | packing calls, reading and running them | nothing in the stream is framed | what is read is what was written, and the reader ends where the buffer does |
| Hash partitioner, type mapping, assertions, timer, optional-argument dispatch | none | pure functions | no concurrency | their tests |

How they interact: containers call `async()` with a `ygm_ptr` to themselves and
`barrier()`; `barrier()` calls `wait_local_idle()`, which alternates processing the
receive queue and flushing the send buffers; the listener thread shares with the
main thread only the queue, under its mutex (and the unlocked
`receive_queue_peek_size()`); ranks share nothing but MPI. Tests and
examples are programs on top; the models let a program do anything the
interface permits.

## The modules

| Module | Models | Instance |
|---|---|---|
| `YgmBulkSync` | the abstract specification: what `async()` and `barrier()` promise | - |
| `YgmBarrier` | `barrier()`, the counters, the nesting of handlers; the transport is a set of calls in flight | `MCBarrier` |
| `YgmTransport` | send buffers, MPI channels, listener, queue: operators and their state | with `YgmComm` |
| `YgmComm` | `YgmBarrier` on `YgmTransport`, activations of `receive_queue_process()`, the destructor | `MCComm` |
| `YgmThreads` | `async()` from several threads of a rank, on `YgmBarrier` | `MCThreads` |
| `YgmArchive` | packed calls, binary archives, JSON arguments | `MCArchive` |
| `YgmBag` | the bag, and the registry behind `ygm_ptr`, on `YgmBulkSync` | `MCBag` |
| `YgmMap` | map, multimap, set and multiset on `YgmBulkSync` | `MCMap` |
| `YgmLineage` | where the content of a container comes from, through clear, swap, copy and files: used by the properties of `YgmBag` and `YgmMap` | - |
| `YgmCountingSet` | the counting set's cache and map on `YgmBulkSync` | `MCCountingSet` |
| `YgmCountingNested` | the same with handlers that insert | `MCCountingSet` |
| `YgmAllReduce` | the abstract specification of `all_reduce()` | - |
| `YgmTree` | the tree `all_reduce()` with its sends, receives and broadcasts | with `YgmTopk` |
| `YgmTopk` | `map_impl::topk()` on `YgmTree` | `MCTopk` |
| `YgmBarrierProofs` | theorems about `YgmBarrier` | - |
| `YgmTransportProofs` | lemmas about the way of a call, from `async()` to its handler; what each step of `YgmComm` does to the transport, and its invariants but for the ways | - |
| `YgmDeliveryProofs` | `YgmComm` implements `YgmBarrier`; the ways, and the theorems about delivery and shutdown | - |
| `YgmBagProofs` | theorems about `YgmBag`: the registry, iterations and contents | - |
| `YgmFoldProofs` | lemmas about sums over finite sets (`FoldFunction`) and about `Descent` of `YgmLineage`, by induction | - |
| `YgmMapProofs` | theorems about `YgmMap` | - |
| `YgmCountingSetProofs` | theorems about `YgmCountingSet` | - |
| `YgmTreeProofs` | `YgmTree` implements `YgmAllReduce` | - |

The layers: `YgmComm` implements `YgmBarrier` implements `YgmBulkSync`, both
proved; the containers are built on `YgmBulkSync`, so that their state spaces do not
contain those of the communicator. `YgmTopk` instantiates `YgmTree`, which is
proved to implement `YgmAllReduce`.

### YgmBarrier

A rank's main thread is at a place `pc`: `app` (outside `barrier()`), `idle` (in
`wait_local_idle()` at the top of the loop), `wait1` (polling the
`MPI_Iallreduce`), `wait2` (blocked in the `MPI_Allreduce`), `thrown` (the
assertion failed). `stack[r]` holds the calls whose handlers `r` runs, innermost
first: `async()` ends by processing the receive queue, so handlers nest.
`Async` is `async()` (57-85), `Begin` and `End` the two ends of a handler in
`receive_queue_process()` (515-539; `m_recv_count` is incremented when the
handler returns), `Enter`, `First`, `Second`, `Restart`, `Leave`, `Throw` the steps
of `barrier()` (145-175). A call to the rank itself runs inline and is not
counted: it is part of its caller's step. A reduction is modelled as a sum to
which ranks contribute and whose result appears everywhere with the last
contribution.

`issued`, `executed` and `epoch` are history: which calls were made, which handlers
have returned, how many barriers a rank has been through. The properties are
about them. The refinement into `YgmBulkSync` maps `issued`, `executed` and `epoch`
to themselves and `inside` to the ranks with `pc # "app"`.

### YgmTransport and YgmComm

`YgmComm` conjoins each step of `YgmBarrier` with what happens to the buffers, and
adds steps that only move calls along: the refinement of `YgmBarrier` is by
superposition. That cannot hide a transport that loses or repeats calls, since
`ExactlyOnce` relates the contents of buffers, messages, queue and
activations to the abstract `issued \ executed`, TLC checks for deadlock, and
`ShutdownCompletes` demands that the calls arrive.

The way of a call has five stretches: the buffers that activations of
`receive_queue_process()` at the destination are in the middle of, the destination's
queue, the messages in the channel, the body of a large message about to be sent, and
the send buffer. `Way(s, d)` lists their boxes (sequences of calls) in the order in
which their contents will be taken, `Places` are the positions of the calls of `s` in them,
`At` the call at a place, `Before` the order of places.

- `PutSmall`, `Announce`, `SendBody`, `FlushNext` are the MPI sends of `async()`,
  `send_large_message()` and `async_flush_all()` (which visits the destinations
  starting from the rank itself). `CallFlush` is an `async_flush()` by the program. A call is small (one unit of a buffer of `Cap`)
  or large; the program chooses. `ChanCap` messages fit between two ranks and then
  `MPI_Send` blocks, which MPI allows.
  While there is no room for a flushed buffer or a body the rank is stuck in the send; a small message or an
  announcement is not put at all until there is room, so that the model allows what the rank may do
  instead as well. No behaviour of the code is lost by that, and no deadlock hidden: room is made by
  the destination's listener, which waits for no main thread that is in such a send.
- `ReceiveAny` and `ReceiveBody` are the two receives of `listen()`, the first for any
  source and tag, the second for the body of an announced large message.
- `act[r]` are the activations of `receive_queue_process()` on the stack of the main
  thread, each with the rest of its buffer; `wli[r]` the position in
  `wait_local_idle()`. `Peek` starts an activation at the end of an `async()`.
  `receive_queue_peek_size()` reads the size of the queue without its lock:
  `Peek` may happen or not, whatever the queue holds, which covers every value the
  racy read can give.
- `Poll` is one more `wait_local_idle()` while the reduction is polled; it is possible
  even when the result is available, as `MPI_Test` need not show it at once.
- `Destroy`, `LastBarrier`, `Kill`, `Join`, `Free` are `~comm` and `~impl`. The last of
  the `MaxEpoch` barriers is that of `~impl`. The world barrier after
  `pimpl.reset()` follows one that all ranks have passed and is not a step of its own.

### YgmThreads

Each increment of `m_send_count` and `m_recv_count` is a load and a store
(`LoadSend`, `StoreSend`, `LoadRecv`, `StoreRecv`) by one of the threads of a parallel
region; everything else is a step of `YgmBarrier`, possible when the region is over
(`Serial`). The send buffers, which the threads share as well, are
left out: calls travel intact in this model.

### YgmArchive

A stream is a sequence of data, each with its number of bytes. `SaveX` and `LoadX` are
the functions of the two headers; a load that finds another width, or the end, gets
`Garbage`, in place of the bytes that happen to be there. `Pack` adds a call to the
buffer (`pack_lambda()`: the distance of the lambda's code from `reference()`, then
the arguments), `Deliver` stands for the transport, and `LoadAddress`, `LoadArgument`
and `Apply` are the loop of `receive_queue_process()`, which stops at `Empty`. The two
assertions of `YGMInputArchive` exist only in debug builds: that they hold is the
property `InBounds`.

### YgmBag

`sptrs[r]` is the vector behind `ygm_ptr` for the type of bag at `r`, `bags[r][b]` the part
of bag `b` at `r`, which is live from its constructor to its destructor. An insertion
carries the index that its own rank gave the bag, and `Deref` looks that up at the
destination. `Enter` is the call of an operation's barrier, preceded by
registration when it is a constructor; `Leave` the return from it and the rest of
the operation. A destructor's barrier comes first and the part is gone after it;
its entry in the registry stays. Bags are numbered in the order of their construction,
which the ranks share (`plan`). `iter[r]` is an iteration under way: from each callback
(`NextItem`) the program may insert, and whatever arrives may run. Each bag has its
own copy of `comm`, whose destruction adds barriers of MPI on the world: they let no
calls run and only keep the ranks closer together, so they are left out.

### YgmMap

`store[r][o][k]` are the values of key `k` in object `o` at rank `r`. A value is
represented by the operation that stored it and by the number of visits since:
enough to tell which operations a content is made of. `Operate` is any of the
asynchronous operations; the owner applies it inline or in a handler (`Handle`).
`Enter` is the barrier at the start of a collective operation; the first rank
chooses the operation and the others follow (all ranks make the same collective
calls). `Leave` returns from the barrier and does what follows at once:
`clear()`, `swap()`, the file of `serialize()` and `deserialize()`, the pairs that the
copy constructor copies between its two barriers (the copy belongs to the program
after the second), the contribution of `size()` and `count()`, the start of `all_gather()`. A rank in
`reducing` is blocked in `MPI_Allreduce` and processes nothing. `Fetch`, `Reply`,
`Fetched` and `Return` are the two legs of `all_gather()`. `plan` and `closed` are
history: the collective operations made, and the stores when the first rank left
each barrier. Visitors make no calls, the default values of all objects are the
same, the keys asked of `all_gather()` are a set, and deserialization is by as many ranks as serialization, of the last file
written, which an object of the same class wrote (a program names files as it likes;
there is one name here). `Class` are the operations that `map`, `multimap` or `multiset`, and `set`
offer: an object has operations of one of them (`ClassAssumption`).

### YgmCountingSet and YgmCountingNested

Every collective operation is `Collective`, `FlushAll` for each slot that is not empty,
the barrier, and `Leave`, at which `clear()`, `serialize()` and `deserialize()` act on the
map; `count()` then waits for its sum (`Counted`), as do `size()` and `count_all()`.
`cache[r]` is `m_count_cache`; `counts[k]` is the count of `k` in the map at its owner;
`stack[r]` has a frame for each `count_cache_flush()` that is in its `async_visit()` and
for each `count_cache_flush_all()`, because between the sending of a slot's count
and the reset of the slot (`Flush`, `Flushed`) the main thread runs whatever
handlers have arrived. In `YgmCountingSet` those are only the visits of other
ranks' flushes. `YgmCountingNested` adds functions called by the program that
insert in the counting set.

### YgmTree and YgmTopk

`pc[r]` says at which blocking call of `all_reduce()` a rank is: receiving from its
`first` or `second` child, sending to its parent, or in the broadcast. `mpi_send()` is
two messages, size and data, with one tag, and each may block (`ChanCap`);
`mpi_recv()` takes them one at a time. The two `MPI_Bcast`s of `mpi_bcast()` are one
step; the root may be ahead by as many broadcasts as MPI buffers. The merge function is
a parameter. `YgmTopk` gives it the merge of `topk()` (lines 257-265 of `map_impl.hpp`), and the
selection from the local map as input. `topk()` has no barrier: what it reports is about
the local maps as they are when each rank calls it, pending insertions not included,
and that is all `TopkExact` claims. Elements are totally ordered: which of two elements that
the caller's comparison takes for equal is returned is left open by `std::sort`. `TreeInv` is the inductive invariant of the proofs: where ranks wait, how
far they are apart, and what is in the channels.

## Properties and runs

| Run | Instance | Checks | Question |
|---|---|---|---|
| `barrier` | 3 ranks (symmetric), 3 calls, 2 barriers, handlers make up to 2 calls | `IInv`, `BarrierPromise`, `EpochIsolation`, `CollectivesMatch`, `ChainsPassAssert`, `BulkSync` | is the double-check barrier safe |
| `comm` | 2 ranks, 3 calls of either size, buffers of 2, channels of 1 | `CommInv`, `ExactlyOnce`, `OrderUnlessNested`, `NothingHeldBack`, `CleanShutdown`, `BodyMatched` | does the transport deliver, and stop cleanly |
| `comm_live` | 2 ranks, 2 calls, 2 barriers, fairness | `BarrierReturns`, `ShutdownCompletes` | does the restart loop end, does anything wait for ever |
| `comm_assert` | as `comm` | `NoFalseAssert`, violated | does the assertion of line 165 hold when handlers make two calls |
| `threads` | 2 ranks of 2 threads, 2 calls, 2 barriers | `ThreadsKeepPromise`, violated | may `async()` be called inside an OpenMP loop |
| `archive` | 3 lambdas (a pointer and a value, a value, nothing), 2 calls in a buffer, JSON values of every kind, nested twice | `RoundTrip`, `InBounds` | do reader and writer agree on what is in a buffer |
| `map` | a map, its copy and a set, 1 key, 2 ranks, 2 operations, 3 barriers of size/count, save, load, copy | `EpochContent`, `SizeExact`, `MapInv` | are epochs kept apart |
| `multimap` | 2 multimaps, 1 key, 2 ranks, 2 operations, 3 barriers of clear, swap, all_gather | `EpochContent`, `ContentInv`, `GatherExact`, `MapInv` | the same through swaps and gathers |
| `bag` | 2 bags, 2 ranks, 2 insertions, 4 barriers of construct, destroy, clear, for_all, save, load, swap | `BagInv`, `Resolves`, `BagContent`, `ContentInv`, `IterInv`, `IterationSafe` | do indices and contents survive objects that come and go |
| `counting_set` | 2 ranks, 3 keys, 2 slots, largest count 3, 3 insertions, 3 barriers of count, clear, save, load | `CountsConserved`, `CountExact`, `SetInv` | does the cache conserve counts |
| `counting_nested` | 4 insertions, 1 `count()`, handlers insert | `CountsConserved`, violated | also when flushes are nested |
| `topk` | 5 ranks, 2 consecutive `topk()`, K = 2, 2 local maps to choose from, channels of 1, fairness | `TreeInv`, `TopkExact`, `AllReduce`, `TopkReturns` | does the tree reduce every input once, and does it return |

The bounds and why they suffice for the interesting cases:

- Three ranks are what it takes for one rank to be in the first reduction, one
  restarting and one ahead. Three
  calls with handlers that make calls are what it takes for counts read at
  different times to cancel out; TLC reaches the false zero (mutating the
  double check away violates `BarrierPromise`). Two barriers let a rank be a whole
  epoch ahead of another.
- `Cap = 2` with three small calls overflows a buffer; `ChanCap = 1` makes every
  second send block. One epoch in `comm` is the destructor's own barrier, after a
  program that makes calls at will; `comm_live` has a barrier of the program as well.
- A listener waits for the body of one announced message from one sender; two ranks let
  the sender's next buffer or announcement arrive before that body is sent.
- Two calls in a buffer make the end of one the beginning of the next; values nested
  twice put each kind of value before and after each other inside an array or object.
- Four barriers let a bag be constructed, saved, changed and loaded, or two bags be
  constructed and swapped, with the contents compared once more; two bags give the
  registry an order.
- In the container runs one rank owns the one key, so that the other's operations
  travel and the owner's are inline; an operation can be made before the barrier,
  arrive late, or be made by a rank that is ahead.
- The largest cached count is 2^31 - 1 in the code and 3 in the run: one more than
  the 2 that eviction needs, and reached by three insertions. Three barriers let a
  file be written, read again and counted.
- Five ranks give a tree with an inner node other than the root, of two children,
  and a leaf at each of two depths. Two reductions let a leaf's next message wait
  behind its last one, and the root be in the second while others are in the first.
  The run `topk` ends when every rank has returned from its last `topk()`, hence
  `CHECK_DEADLOCK FALSE`: a circle of waiting ranks is what `TopkReturns` would find.

`EpochContent` and `BagContent` are stated without replaying the operations: `Lineage` (`Descent` of `YgmLineage`) says which
epochs' operations on which objects an object is made of, through clear, swap,
save, load and copy, and the property compares the contents with the set of those
operations. Order matters only to erase, so with an erase the property gives only
an upper bound.

### What the violated runs show

- `comm_assert`: `barrier()` reads `first_local_count`, then polls the first
  reduction while it goes on running handlers. The first sum may be zero although
  calls are under way: a rank counted before it ran a call whose handler makes two,
  another after. The calls finish, the second sum is zero, the barrier is
  complete; but a rank whose own count moved in between compares it with the old
  value and throws (`comm_impl.hpp:165`). `ChainsPassAssert` in the run `barrier` shows
  that it takes a handler that makes more than one call.
- `threads`: two threads read the same `m_send_count` and one increment is lost. One of the
  two calls runs at its destination, the counts agree, both sums of `barrier()` are
  zero and it returns while the other call is pending. `comm.hpp:25` says that `async()`
  "Can be called inside OpenMP loop". With one thread the property holds.
- `counting_nested`: `count_cache_flush()` resets the slot after `async_visit()`, which
  may run a handler that inserts into the same slot; that insertion is discarded by
  the reset, or the slot's count is sent a second time
  (`src/include/ygm/container/counting_set.hpp:123-128`).

## Fairness

`CommFairSpec` assumes weak fairness of each rank's main thread in what
it does of itself (finishing handlers, processing and flushing in the polling
loops, the steps of `barrier()` and of the destructor) and of each
listener thread. That is the operating system scheduling threads, and MPI making
progress under `MPI_THREAD_MULTIPLE`, which the constructor demands. Nothing is
assumed of the program: it need not call `async()`, enter a barrier or destroy
the communicator, so both liveness properties are conditional on that.
Receives from any source are not fair to senders.

`TopkSpec` assumes the same of each rank inside `all_reduce()`, and nothing about when it calls
`topk()`: `TopkReturns` is conditional on everybody's calling. The other runs use no fairness.

## Proofs

`YgmBarrierProofs`, for any finite non-empty set of ranks and any bounds
(`RankAssumption`, `BoundAssumption`, `NoneAssumption`):

- `TypeCorrect`: `Spec => []TypeOK`.
- `Inductive`: `Spec => []IInv`.
- `BarrierKeepsPromise`, `HandlersKeepEpoch`, `ReductionsMatch`, `ChainsAreSafe`: the
  safety properties, from `IInv`.
- `ImplementsBulkSync`: `Spec => BulkSync`; every step maps to a step of
  `YgmBulkSync` or to a stutter.

The argument. `BarrierPromise` is not inductive: that nothing is pending when both
sums are zero has to follow from what the two sums are. `IInv` says:

- `CountInv`: the counters of a rank count its issued calls and finished handlers
  (with `IdsInv`, calls have distinct identities; with `StackInv`, the running handlers
  are of distinct pending calls and a blocked rank runs none).
- `ResultInv`: ranks that hold a result hold the same one, of the same reduction.
- `DoubtInv`, the heart: if any rank is between the two reductions (it has seen
  a zero first sum and does not know the second), then all ranks are, and
  the partial second sum is exactly the number of calls issued by, minus the number
  executed at, the ranks that have contributed. Those ranks are blocked, so
  their counts do not move: when the last one contributes, the sum is of one
  moment, `|issued| - |executed|`, and being zero it means `issued = executed`
  (`ZeroMeansDone`). The first sum is of no single moment, and the proof
  uses nothing about it but that everybody saw the same one.
- `EpochInv`: when a rank has seen both zeros, each other has too, or is ahead by
  one epoch and has not finished another reduction.
- `PendingInv`: no pending call belongs to an epoch that some rank has left or
  is about to leave, and handlers run in the epoch of their call.
- `ChainInv`: if handlers make at most one call each, the assertion of line 165 holds.
  This needs what the rest does not: to say what the first sum is of. The contributions to it
  are of different moments, but there is a set `S` of calls and a set `T` of finished handlers
  (`Snapshot`) that they have counted, and every call that a contributor has made since was
  made by a handler that `T` does not contain. When both sums are zero, everything issued is
  executed and `S` and `T` are of the same size. If handlers make one call at most, going from a
  call outside `S` to the handler that made it is then one to one between the calls outside `S`
  and the handlers outside `T` (`MovedEvenly`): each rank has since made as many calls as it has
  finished handlers, and `m_send_count - m_recv_count` is at line 165 what was read at line
  148. The snapshot is an existential, so its step is proved by exhibiting the next one
  (`SnapshotKept`, `FirstSnapshot`).

Each conjunct has its step lemma (`IdsStep`, `StackStep`, `CountStep`, `ResultStep`,
`DoubtStep`, `EpochStep`, `PendingStep`, `ChainStep`). TLC checks `IInv` itself in the run `barrier`.

`YgmDeliveryProofs`, on `YgmTransportProofs`, for any number of ranks and any
capacities of send buffers and channels that are not zero (`TransportAssumption`), states
what was proved of the communicator on its transport:

- `CommImplementsBarrier`: `CommSpec => Spec`, and with it `CommKeepsPromise` and
  `CommImplementsBulkSync`, the promise and the bulk-synchronous execution that programs rely on.
- `CallsArriveOnce`, `CallsKeepOrder`, `RanksHoldNothingBack`, `BodiesMatch`, `ShutdownIsClean`:
  the five properties of the run `comm`.
- `CommInvariant`, the invariant that TLC checks in that run, and `TransportInductive`, of
  which all six are consequences: `CommSpec => [](TInv /\ IInv)`.

The argument. `TInv` is the type invariant and six named parts:

- `AddressInv`: a call lies only where it is on its way from its source to its destination.
- `MessageInv` (`InOrder` for the messages of one channel): an announcement is followed by its body,
  or the sender is about to send it, and the listener awaits a body exactly when it comes
  next. Since a sender's announcement and body have no message of the same
  channel between them, a body never meets the receive for any tag. A rank's only message to
  itself is the kill message, at the end.
- `HandlerInv`: the handlers that run are those of the first calls in the buffers being
  processed, innermost first, one for each activation but perhaps the
  last started.
- `PlaceInv`: where the main thread is in `wait_local_idle()`, `barrier()` and the destructor, and that
  it leaves `wait_local_idle()` with nothing unsent.
- `WaysInv`: for every two ranks, `Places` and the pending calls correspond one to one, small
  calls are in order along the way, and a small call that was overtaken by one
  that has run is in a buffer being processed.
- `LimitInv`: calls are of epochs before the last.

`WaysInv` is where the work is. A step of the transport moves one box to the next stretch (`PassOn`),
adds or drops an empty box (`Padded`), puts one call at the end of a way (`Added`), or
takes the first of the innermost buffer (`Taken`); these lemmas, about ways in general, carry the
places of the new way back to those of the old one (`CarriedOver`), so that distinctness and
order are inherited. Each step of `YgmComm` has a lemma that says which of the four it is for
which pair of ranks, and that the other ways stay (`CallSmallWays`, `FlushWays`, `TakeWays`, ...).
A large call may be put in front of small ones, since the body of a large message is sent at once:
that is why the order is claimed of small calls only.

`ShutdownIsClean` combines both halves: the listener stops only after the last barrier,
`IInv` says that then nothing is pending, `WaysInv` that what is not pending is nowhere on a
way, and `InOrder` that a channel without calls holds no messages.

`YgmBagProofs`, for any number of ranks, bags, insertions and barriers
(`BagRankAssumption`, `BagBoundAssumption`):

- `BagInvariant`: `BagSpec => []BagInv`.
- `IndexResolves`: `BagSpec => []Resolves`: the index an insertion carries stands at its
  destination, for as long as it may be run there, for the bag it was made on, and
  the destination's part of that bag is live.

The argument. Nothing in the code relates the registries of two ranks, so `BagInv` relates
each to the one thing they share, the sequence of collective operations the program
makes: `RegistryInv` says that a rank's registry is a function of how many of these it has
entered (a constructor registers before its barrier), `LiveInv` that a part is live if its
constructor has been entered and its destructor not left. `LockstepInv` bounds how far ranks
are apart: one behind is inside the barrier that the others have left. `CallInv` is about
insertions under way: nobody is in an epoch after that of such a call, and no
destructor up to its epoch is of its bag. It survives a rank's leaving a
barrier only because `barrier()` waits for the calls of its epoch (`BSLeave`), and
that is all that keeps the destination's part live. Each action has its step lemma
(`InsertStep`, `HandleStep`, `EnterStep`, `LeaveStep`); `PlanStep` is about the
operation that the first rank to enter chooses.

Then it is about iterations:

- `IterationInvariant`: `BagSpec => []IterInv`.
- `IterationIsSafe`: `BagSpec => []IterationSafe`: what `for_all()` iterates over is what the bag held
  at its barrier, and only an insertion of the epoch after that barrier can move it.

The argument. The items that an iteration started with are those of the moment `barrier()` returned
at this rank, the property speaks of the moment the epoch ended, and other ranks may have been
ahead in between. `ClosedInv` closes the gap with the history variable `closed`: a rank in a
barrier that another rank has left holds what it held when the first one left, because no call
of its epoch is pending and those of the next are not run there. `GrowthInv`: from the return of the
barrier on, a bag under iteration is only appended to.

And about what a bag holds:

- `ContentInvariant`: `BagSpec => [](ContentInv /\ BagContent)`.
- `BagHoldsItsItems`: `BagSpec => []BagContent`: when an epoch ends the parts of a bag together hold the
  items inserted in it since it was last cleared, each at one place, and no others.

The argument. `BagContent` compares, at the end of an epoch, all parts of a bag with `Lineage`, which says
of which bags' and epochs' insertions a bag is made. Between two ends the ranks are in
different epochs, and an item may be at any rank, so `ContentInv` looks at each rank in the epoch it is in.
`HeldInv`: what a rank holds, in a bag or in the file, is of an origin that belongs there by the
operations that this rank has been through, is not still under way, and lies at no other rank. The rest goes the
other way: an insertion is under way or has arrived at a rank, and then it is in everything
at this rank that its origin belongs to. One item may lie in several bags of a rank (after `save` and `load`),
which is why both halves are about all holders at once. Three kinds of steps matter, each with
lemmas about arbitrary lists rather than the variables: an insertion
pushed at a rank (`PushHeld`, `PushAll`), one sent (`SendHeld`, `SendAll`) and the rest of an operation after its
barrier, which moves whole lists as `From` says (`MoveHeld`, `MoveAll`). An operation moves a lineage by the same
`From`, so a rank's step into the next epoch keeps both halves; an insertion
is new in its epoch, and belongs to its own bag only (`OwnOrigin`). When the first rank leaves, all are in
the epoch and nothing of it is under way, so what the ranks hold at that moment is exact.
`Lineage` is a recursive function, and that there is one with these values is itself
proved: `DescentExists` of `YgmFoldProofs`.

`YgmFoldProofs`: what the models sum up with `FoldFunction(+, 0, f)` for a function on a finite set.
The community module defines the fold by recursion through an arbitrary choice of the next
element; `SumsExist` shows that there is such a function on the subsets, `SumsSplit` that the
order does not matter, and `SumUpdate`, `SumExtend`, `SumSplit`, `SumZero`, `SumAlone` are what proofs
cite. `Recursion` does the same for a function on `0 .. n` that is defined from its previous value, and
`DescentExists` with it for `Descent`, in terms of which the bag and the maps say what their contents
come from; `DescentAt`, `DescentAged`, `DescentKept` and `DescentOwn` are the rest of what both need of it.
The induction theorems of the library take an operator as a parameter; `SetInduction` and
`SubsetInduction` say the same of a set in the place of the predicate, from the well-foundedness
of `<` alone.

`YgmMapProofs`, for any sets of ranks, keys and objects, any partition of the keys
(`OwnerAssumption`), operations of each object (`OpsAssumption`, `ClassAssumption`) and bounds
(`NameAssumption` only keeps two names apart from those of objects):

- `MapInvariant`: `MapSpec => []MapInv`.
- `SizeIsExact`: `MapSpec => []SizeExact`: `size()` and `count()` return what the whole object held when
  their barrier ended.
- `GatherIsExact`: `MapSpec => []GatherExact`: `all_gather()` returns the values of the keys asked for,
  all of them as they were at its first barrier.

The argument. Both properties compare what a rank computes after a barrier with what the ranks held
when the epoch ended. `StoreInv` ties the two together, as for the bag: a rank that has not left
the barrier still holds what it held then (so that its contribution to a sum is of
that moment, `PartInv`), and so does a rank between the two barriers of `all_gather()`, since
a program makes no other calls there and whatever was called before has been run. `CallInv` says
so of the calls under way: nobody leaves the epoch of a pending call, and an answer carries the
values that the key had. `AskInv` counts: a key asked for is
still to be asked for, or is awaited by exactly one call under way (`Awaited`), or its values have
arrived, once; at the second barrier nothing is under way, so they have arrived.

Then it is about what the objects hold:

- `MapContentInvariant`: `MapSpec => [](ContentInv /\ EpochContent)`.
- `ContentIsExact`: `MapSpec => []EpochContent`: when an epoch ends an object holds what the
  operations on it, and on whatever was swapped, copied or loaded into it, amount to.

The argument. A key lies at its owner, so one rank's state settles what is held of it, but the owner may be
in an epoch that others have left or have not reached. `ContentInv` therefore speaks of each owner in
the epoch it is in, and of the operations that have run there (`Applied`). Steps are of two kinds. An operation
runs at the owner (`TouchFit`): its object and epoch belong to the lineage of that object and of no other
(`OwnOrigin`), so one content changes, by `NewValues`, and its set of operations by one element; that
`Amounts` survives is a lemma for each kind of operation (`FitUnique`, `FitSet`, `FitMulti`, `FitVisit`,
`FitIfExists`, `FitErase`). This is where classes matter: that a key has one value at most if nobody used `insert_multi`
needs that what came from another object through a swap, a copy or a file was of the same class (`LineageAlike`).
Or a rank leaves a barrier (`MoveFit`): contents go where `From` says, and so do lineages
(`AfterContents`, `LeaveMoves`); no operation of the new epoch has run there yet. The first rank to leave finds all
ranks in its epoch and nothing under way, so that `Applied` is all there is (`EndClosed`); later operations are of later
epochs, which do not belong in what was held when this one ended (`EndMore`).

`YgmCountingSetProofs`, for any finite set of ranks, any keys and slots, any number of insertions and
barriers and any largest cached count above 1 (`SlotAssumption`):

- `SetInvariant`: `SetSpec => []SetInv`.
- `CountsAreConserved`: `SetSpec => []CountsConserved`: no insertion is lost or counted twice on its way
  through cache, flush and visit.
- `CountIsExact`: `SetSpec => []CountExact`: `count(k)` returns the number of insertions of `k` on every
  rank.

The argument. An increment is at every moment at one of four places: about to be put in a slot by a
flush that is in its `async_visit()`, in a slot, in a visit under way, or in the map. `Work` is the lemma
for all steps of a main thread: what the step takes from the rank's share of the caches (`Share`) or
inserts is what it sends, or adds to the map at once; `SumUpdate` carries that from one rank to the sum of all,
and `AddStep` from a visit to the map. `CacheInv` says what makes each of these balance: only three
forms of frames occur (so that two flushes of a rank are never of the same slot, which is just what fails in
`YgmCountingNested`), and slots behind the loop of `count_cache_flush_all()` are empty and stay so.

What is counted at the end of an epoch is harder, since ranks leave a barrier at different times and
those ahead insert already. `FlowInv` settles it: while a rank is ahead of the owner of `k`, all
increments of `k` on their way are of the epoch that the rank ahead is in, and `Arrived` shows that this begins to
hold when the first rank leaves, because then the caches are empty and `BSLeave` says that
nothing is pending. So a rank that leaves holds, of each key it owns, exactly what is due
(`Settled`), on which `clear()`, `serialize()` and `deserialize()` then act, and which it
contributes to a count; `Contributions` adds up the contributions, of which one is not 0. What is
due at the end of an epoch (`Due`) is a recursive function of the plan and of the insertions;
`DueExists` shows that it exists and `DueKept` that an epoch that is over does not change.

`YgmTreeProofs`, for any number of ranks, any buffering, and any function that is associative and
commutative on a set `V` that contains the inputs (`Merging(V)`; the code merges in the order of the tree, so
that it promises nothing of other functions):

- `TreeInvariant`: `TreeSpec => []TreeInv`.
- `TreeIsAnAllReduce`: `TreeSpec => AllReduce`: everybody returns the merge of all inputs of its own
  all-reduce, each taken once.

The argument. Nothing in a message says which all-reduce it is of, so `TreeInv` counts: `Flows` says that a
channel holds exactly the messages its sender has sent and its receiver has not received, where both numbers
follow from how many all-reduces a rank has called and where it is in the current one (`Sent`, `Got`). The
value received by a rank in its n-th all-reduce is then its child's n-th (`ReceivedValue`). From `Flows` follows also
that a rank has merged its children only in all-reduces in which they have merged theirs
(`DoneOrder`), so that rank 0 is the last (`RootIsLast`) and everybody has called when it broadcasts. What a
rank sends is the merge of the inputs below it. `Values` says so of what ranks hold, of what is on its
way and of what has been broadcast, with the help of a table of those merges; the table is an existential,
whose next row is chosen when a rank has merged its children (`Refresh`). `TreeIsOrder` shows that merging along the tree is
merging in the order of the ranks, which is how `YgmAllReduce` says it: it takes the ranks out one by one, the last
first, each absorbed by its parent. The theorems are about `YgmTree` with any merge, the run `topk` about
its instance in `YgmTopk`. `MCTopk` has TLC evaluate `Merging` for the merge of `topk()` on
the selections of the run; that it holds of all sorted selections is a fact about sorting, by induction over
sequences, and is not proved.

Only model-checked: that selecting before merging loses nothing (`TopkExact`); the archives, which are
recursive over values by RECURSIVE operators; and liveness, which is out of the prover's reach.

## Not modelled

- The buffer pool: every access is under one mutex and buffers change hands whole.
- MPI errors, and the exhaustion of memory or of the C++ stack.
- `async_bcast` and `async_mcast` (loops of `async()`), two of the `*_preempt` functions (they
  call functions that do not exist), `async_flush_bcast()` (declared only), streams and
  statistics.
- The constructor of the communicator: all ranks start with it up. In `YgmMap` and
  `YgmCountingSet` objects that are not copies exist from the start and are not destroyed:
  `YgmBag` is about that.
- What unsynchronised threads do to the send buffers (`YgmThreads` is about the counters).
- Visitors of the map that make calls; `for_all()` of the map, the set and the counting set, which
  reads the local pairs after a barrier; the entries of the registry made by `all_gather()`, one
  per call, which nothing removes. A program that inserts in a bag, in the epoch after
  a `for_all()`'s barrier, while another rank is still iterating over it, may
  reallocate the vector under the iterator: `IterationSafe` shows that only such insertions can.
- The implicit copy constructors of bag and set, which copy `pthis` and so give a copy whose
  insertions go to the original.
- The bytes of a datum, hashing (`Owner` and `Slot` are arbitrary constant functions),
  overload dispatch, the timer: sequential code with tests.

`map_impl.hpp` lines 7-12 hold an unresolved merge conflict; the models follow the
JSON side, which `set_impl.hpp` and `bag_impl.hpp` use as well.

## Plan

Done, in this order: the barrier and its proof; the transport and the lifecycle on
top; the containers on the abstract communicator; the tree reduction; threads, archives,
bag and registry; construction by copy, and the counting set's other operations. Next:

1. Theorems: for any values, sorting before merging loses no element (`TopkExact`), for which the
   selections have to be defined without sorting.
2. Visitors of the map that call `async()` while `local_visit()` iterates over the values of
   a key.
