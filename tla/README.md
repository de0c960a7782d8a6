# Verification of kylin-kmre-display-control

The program is the display channel between Android guests and the Kylin
desktop.  A guest process links the *encoder*: each drawing or query call
becomes a packet on a Unix socket.  The host runs the *display control server*:
one thread accepts connections, one render thread per connection decodes the
packets and calls back into the host program, which answers.

## 1. Inventory

| Component | State | Operations | Meets |
|---|---|---|---|
| Accept server (`DisplayControlServer`) | listening socket, map thread -> stream (local to `main`), `m_lock` | accept, read `clientFlags`, create/start a thread, reap finished ones, final loop | render threads (objects, `m_lock`), stop request (a connection with the exit flag) |
| Render thread (`DisplayControlThread`, `emugl::Thread`) | `mIsRunning`, `mJoined`, position in `main` | read, lock, decode, unlock, exit | its stream, `m_lock`, the accept thread that joins and deletes it |
| Controlling thread (`display_control_api`) | server pointer, address | init, stop | accept thread, through a dummy connection and `wait()` |
| Read buffer (`ReadBuffer`) | memory, size, read pointer, valid bytes | `getData`, `consume` | socket, decoder |
| Output stream (`IOStream`, `SocketStream`) | two buffer sizes, free bytes, memory | `alloc`, `flush`, `readback`, `forceStop` | encoder, decoder's replies, socket |
| Command protocol (`displayControl_enc`, `displayControl_dec`) | none beyond the streams | 13 encoders, `decode` | caller, callbacks |
| Decoder callbacks (`DisplayControlDecoder`, `DisplayControl.cpp`) | singleton with function pointers | `getInstance`, `dec_*` | render threads, `main()` |
| Life cycle (`display_control.c`, `main.cpp`) | library handle, started flag, path | init, set path, start, stop | api |
| Unix sockets (`UnixStream`, `sockets.cpp`) | path, descriptor | listen, accept, connect, unlink | file system |
| Forwarding client (`kmre_display_control.c`, `kmre_socket.c`) | cached descriptor | `do_FBPost` with reconnection | another server |
| Message channel (`emugl::MessageChannel`) | ring of slots, `mPos`, `mCount`, mutex, two condition variables | `send`, `receive` | any two threads |
| Thread class (`emugl::Thread`) | `mIsRunning`, `mJoined`, lock, pthread | start, wait, tryWait, thread_main | whoever shares the object |
| Id maps (`UniqueIntegerMap`, `IdToObjectMap`, on `PodVector`) | sorted vectors, free values, `mLastValue`; hash table with tombstones | add, del; set, remove, clear, resize | - |
| Lazy instance, smart pointer | state word; pointer and shared count | ptr; construct, copy, assign, destroy | any threads |
| Thread store, dynamic libraries, logging | - | see the headers | - |

What is hard in it: objects shared between the accept thread and render threads
with a lifetime decided by `isFinished()`; a stop request that arrives as one
more connection; one lock for all connections; two classes with a buffer size
each; packets cut anywhere by the socket; calls whose failure nobody looks at.
`PROJECT.json` lists the hazards line by line.

What makes the components correct:

* server: objects outlive their thread, are never lost, are all gone after a
  stop; the stop returns; decoding is serialised; every call ends, or its
  connection is closed when the next guest comes;
* read buffer: its window is the stream, in order; `recv` is never called with
  length 0; the size never wraps;
* output stream: writers stay inside the memory; the wire is what was written;
* message channel: a bounded queue; one thread at a time at the ring; nobody
  sleeps beside a message or a free slot;
* life cycle: a stop reaches the server that was started, whatever paths were
  set since, and the flags of program and library agree afterwards, as far as
  the stop could connect;
* decoder callbacks: one decoder, and no registered callback is lost again;
* thread class: the pthread is joined once; lazy instance: one constructor, and
  everybody gets its object; smart pointer: an object lives as long as it is held;
* id maps: values are unique; the tables answer like the map they stand for;
* forwarding client: a lost connection costs one call, not all later ones;
* protocol: each call is executed once and in order, and a reply reaches the
  call it belongs to, or the caller gets an undefined value after the
  connection is lost.

## 2. Modules

    DisplayControlServer ---- MCDisplayControlServer   server_*.cfg
         \--- DisplayControlServerProofs
         \--- implements ServerLife (the abstract specification)
    ReadBuffer
         \--- ReadBufferProofs
    StreamBuffer
         \--- StreamBufferProofs
    CommandStream = StreamBuffer + ReadBuffer (instance) + encoder + decoder
         \--- MCCommandStream                          command_stream.cfg
         \--- CommandStreamProofs, on the proofs of both buffers
         \--- implements RemoteCalls (the abstract specification)
    MessageChannel
         \--- MessageChannelProofs
         \--- implements BoundedFifo (the abstract specification)
         \--- MCBuffers = ReadBuffer, StreamBuffer, MessageChannel   buffers.cfg
    DisplayService --- service.cfg, service_takeover.cfg, service_leftover.cfg
         \--- DisplayServiceProofs
    EmuThread ------------------ MCEmuThread         thread_join.cfg
    LazyInstance --------------------------------------- lazy_order.cfg
    DecoderCallbacks, SmartPtr, FbClient
    UniqueIntegerMap = PodVector + two sorted vectors
    IdToObjectMap -------------------------------------- id_map_promise.cfg
         \--- IdMapsProofs: both maps
         \--- MCParts = MCEmuThread and the six above  parts.cfg
    PartsProofs: EmuThread, LazyInstance, DecoderCallbacks, SmartPtr, FbClient

### DisplayControlServer

The actors are the guests (external), the accept thread, the render threads and
the controlling thread.  `spc`, `rpc` and `mpc` are program counters; `cur` is
the local `stream`/`rt`, `threads` the local map and `todo` its iterator.
`sock` and `thr` record whether the C++ objects exist.  An action is one step
between two points at which other threads can see a difference: `start()` is a
single step because `mIsRunning` is written under the thread's lock before the
pthread exists; `Reap` is `isFinished()`, `pthread_join` included (`tryWait`
joins with the thread's lock held, so it may wait for the pthread to return),
with the two deletions and the `erase`.  `MarkStopped` and `Exit` are apart:
between them the thread counts as finished and still runs.

The bytes of a connection are abstracted to its outstanding call (`call`);
calls without a result and split packets are the subject of `CommandStream`.

When `start()` fails both objects are deleted and `Insert` adds the pair all
the same.  What a use of such an entry does is undefined; `ReapDangling` and
`ForceStopDangling` allow what the build can produce: the freed memory looks
like a running thread and the entry stays; it looks finished and is joined and
deleted once more, which takes the entry out of the map; the memory has been
reused by the thread just created; or the process aborts.

A render thread leaves its loop at the end of the stream (`ReadEof`) or because
`realloc()` failed for a packet that does not fit (`ReadGivesUp`).  In the second
case the socket stays open until the clean-up loop meets the thread, at the next
connection.  `EveryCallEnds` therefore says that a call is answered, or its
connection closed, or left to a thread that gave up (`GaveUp`), and
`GivenUpIsClosed` says of such threads that the next connection's clean-up, or
the final loop, does close their sockets.

`ServerLife` is the server as the rest of its process sees it: sessions that open
and close, a request to exit, and an end.  A session is a stream (`sock`), the
request is the dummy connection's flag, the end is the return of `main()`.  No
session opens after the end, none is open at the end, the end comes only after
the request, and it does come.  An abort (`crashed`) maps to a server that has
not ended.

### ReadBuffer, StreamBuffer

Bytes are numbered in the order in which they are written, and a memory cell
holds the number of its byte: a gap, a repetition or an exchange is visible as
a wrong number.  `StreamBuffer` keeps `IOStream`'s and `SocketStream`'s own
`m_bufsize` apart (`ioSize`, `sockSize`), and the memory's true size in
`sockCap`.  A first `malloc()` and a failed `realloc()` let the three diverge.

### CommandStream and RemoteCalls

One connection.  `Encode` is any of the `*_enc` functions, `ReadbackFlush`,
`ReadbackReply` and `ReadbackFails` are `readback()`; `Read`, `DecodePacket` and
`DecodeReturn` are the render thread's loop around `decode()`.  The connection
may be shut down by the host (`Shutdown`) or lost (`broken`) at any point, the
caller may hang up or die of writing to the NULL that `alloc()` returned
(`EncodeIntoNull`).  The host may die the same way of a connection's first reply
(`DecodeIntoNull`): the callback has run, nothing is sent.  Later replies find
the block of the first one, which `flush()` keeps.  `m_lock` is left out: one
thread decodes one connection's packets, and `DisplayControlServer` has the
lock.

`RemoteCalls` states the promise: calls are executed in order, once each, and
`ReturnResult` returns the caller's own result.  With `Execute` the connection
may be lost.  The mapping is the identity
except that a caller in the flush is "waiting" and that `lost` is `broken`.

### MessageChannel and BoundedFifo

A call of `send()` or `receive()` is a thread that moves through the positions
"enter", "test", "wait", "copy" and "after".  The mutex is held from "test" to
"after", that is, across the copy in the header's template; `Wait` gives it up,
and a waiter that is signalled, or wakes up on its own (`SpuriousWakeup`),
competes for it again.  `LeaveAndSignal` is `signal()` with the unlock behind
it: no thread can see a difference between the two.  The header speaks of one
sender and one receiver; the model admits any number of each.

`BoundedFifo` is a queue and what each thread has in hand.  The mapping reads
the queue out of the ring (`QueueBar`) and hides what a receiver has already
copied but not yet taken (`HandBar`): a send takes effect in `afterWrite()`, a
receive in `afterRead()`.

### DisplayService

The level above `DisplayControlServer`: several instances of the program and the
file system they share.  `inst[i]` holds the static variables of
`display_control.c` (`lib`, `address`, `started`) and of `display_control_api.cpp`
(`server`, `target`), the path of the listening stream (`bound`) and its accept
thread.  `android_startDisplayControl()` is cut where another instance can act:
between the removal of the file (`StartListening`) and `bind()` (`Bind`,
`BindFails`), and before a failed server's destructor unlinks the path
(`Discard`).  A stop is cut at the connection, the join, the unlink and the
close.  Everything the accept thread does in between is one step, `ServerExits`:
that it ends when, and only when, it was asked to is what `ServerLife` promises
and `DisplayControlServer` implements.  A connection is an element of `asked`.

`file` says whose socket a path leads to; a file outlives its socket (`Stale`)
after a crash.  `robbed` is a history variable: the properties hold as long as no
other instance removed this server's file, and `service_takeover` shows what
happens otherwise.  When `pthread_create()` fails nobody notices and the stop
joins a pthread that does not exist; that is undefined, and the model lets the
join return or the process die.

A stop fails when nobody listens at its address (`StopRefused`) or when it gets
no socket to connect with (`StopStarved`, for instance when the guests hold all
descriptors).  `android_stopDisplayControl()` clears its flag in both cases, and in
the second the server stays, which nothing can stop or start again
(`service_leftover`).  `starved` is a history variable like `robbed`, and
`FlagsAgree` excludes these two cases and no other.

### DecoderCallbacks

The double-checked creation of the singleton, with its mutex.  `main()` starts
the server before it registers anything, so `BeginCall` is enabled from the start;
`late` records whether a call began after its callback was there.

### EmuThread

One object, and `Uses` says which callers call what: the comments do not.
`WaitJoins` is the unlocked join of `wait()`, `StoppedJoins` the locked one of
`wait()` and `tryWait()`.  `joins` counts.  `parts` checks the ways of sharing that
are right: one waiter who may poll as well, or any number of pollers.  This is
also all that the server and its clean-up loop need.

### LazyInstance

The barriers of `lazy_instance.cpp` expand to compiler barriers, on ARM too, so
what the constructing thread stores goes through a store buffer (`stores`).
`StoreOrder` says whether the CPU keeps the order of stores, as x86 does.  `parts`
sets it to `FALSE`: that there is one constructor (`OneConstructor`) and that every
caller is served depends on no order.  `UseComplete`, that a caller finds the object
constructed, does: `lazy_order` shows its violation.

### SmartPtr

`mPtr` and `mRefCount` of a pointer change together and are one variable.
`Release` is `release()` up to the atomic decrement, `Copy` the rest of
`copyFrom()`, `DeleteOld` the caller's `delete`.  Threads work on different
pointers; `MayWrite` and `MayRead` say so.

### PodVector, UniqueIntegerMap, IdToObjectMap

`PodVector` has no state: its operators take a block of cells and a count, and a
shrunk, grown or moved block is computed as the code does it, cells behind the
items included.  `UniqueIntegerMap` runs on it.  `mLastValue` starts anywhere,
since the constructor does not set it, and wraps at `ValueWord`.
The header says that keys and values are never 0, which means "invalid".  The code
refuses neither: key 0 is entered like any other, and the value 0 is handed out
when `mLastValue` wraps (section 6).  `PairsAgree` asks of all other keys and values
that the look-ups lead from one to the other.

`IdToObjectMap` keeps next to the table the dictionary it stands for.  The arrays
have one cell more than the code allocates, because the probe can reach it.
Deletion of the objects is visible as their disappearance from `dict`.

### FbClient

One caller, the descriptor and the other server.  Writing and reading are apart
so that the server can end in between.

### MCBuffers and MCParts

A behaviour of `MCBuffers` is a behaviour of one of three buffers, one of `MCParts`
that of one of seven unrelated parts; which one is chosen at its start.  They share
nothing; one run checks three, the other seven.

## 3. Runs

| Run | Question | Bounds |
|---|---|---|
| `server_safety` | object lifetimes, lock, clean stop | 3 guests + dummy, accept queue 2, `start()` may fail; symmetric guests, 1.5 M states |
| `server_live` | does the stop return, do calls end, is a given-up connection closed, refinement of `ServerLife` | 2 guests + dummy, queue 1, no failing `start()`; 55 K states |
| `server_insert` | violation: is every map entry a started thread | 2 guests |
| `buffers` | read buffer: window, room, wrap; output buffer: memory bounds, order on the wire; channel: one thread inside, no lost wake-up, refinement of `BoundedFifo`, is a receiver served | read: buffer 2, allocations up to 11, word 23, 10 bytes; output: size 2, packets up to 4, 9 bytes; channel: 2 senders, 2 receivers, 2 messages, 3 slots; 0.13 M states |
| `command_stream` | refinement of `RemoteCalls`, progress | 4 calls, three kinds of packets of 3, 5 and 2 bytes, stream buffer 4, read buffer 2 |
| `service` | does a server stay reachable by its stop, do the flags agree, does the stop return | 2 instances, 2 paths, failing binds and thread starts, stops without a socket, crashes; 66 K states |
| `service_takeover` | violation: does the exit request reach the own server | as `service` |
| `service_leftover` | violation: is no server left after a stop | as `service`, without failing thread starts |
| `parts` | the promises of the seven parts that stand alone | thread: 2 callers; lazy instance: 3 threads, stores in any order; callbacks: 2 render threads, 3 callbacks of which 2 are registered; pointers: 3 on 2 objects, 2 threads; integers: 4 keys, words of 3 bits, blocks from 1 cell; objects: 7 ids, sizes 8 and 16; forwarding: 3 failures counted; 0.14 M states |
| `lazy_order` | violation: is the object constructed for everybody who gets it | 2 threads, stores in any order |
| `id_map_promise` | violation: does `contains()` tell the truth | 2 ids with the same first slot |
| `thread_join` | violation: is a thread joined once by two waiters | 2 callers |

Why the bounds suffice.  Two guests are needed for contention on `m_lock` and
for one entry to be reaped while another is being added, a third for a
connection that waits in the queue meanwhile; the queue of two can be full.  In
`buffers` the read buffer grows twice and a third growth is refused by the
allocator, and 10 bytes wrap the window several times.  The stream buffer has
packets that fit, that fit only after a flush, and that exceed the buffer.  In
`command_stream` one packet exceeds the stream buffer, two do not fit together,
and every packet is larger than half of the initial read buffer.
Two threads on either side of the message channel are the fewest with which a
signal can reach the wrong one of two waiters, and three slots the fewest with
a slot that is neither the oldest nor the next.
In `service` two instances with two paths are the fewest with which a path can be
taken by another instance and set to something else meanwhile.  The blocks of
`parts` begin at one cell and grow by one beyond a quarter, so that four keys grow,
keep and shrink them, and eight values wrap.  The seven ids of the hash table have
different first slots in a table of eight and, in another order, in one of
sixteen: the table grows at the seventh and shrinks when one is set after most
were removed.  Ids that collide are what `id_map_promise` is about.
`MaxFailures` of `FbClient` only has to exceed the promised 1.
`DoublingNeverWraps` needs `2 * MaxAlloc < Word`, which is `PTRDIFF_MAX`
against `SIZE_MAX` in the build.

`CHECK_DEADLOCK FALSE` is set where the modelled system really stops: a read buffer
whose peer has closed, a connection whose calls are used up.

## 4. Fairness

`server_live`: weak fairness of the accept thread, of the controlling thread
once it has connected, and of what every render thread does of its own
(`RenderRuns`; no `realloc()` need ever fail, so that `ReadGivesUp` is left
out), because the operating system schedules runnable threads; strong fairness
of `AcquireLock`, because `m_lock` is released again and again and a futex does
not starve a waiter for ever.  A guest that has connected sends its flags or
hangs up (`createDisplayControlThread` does so at once).  This is a real
assumption: the accept thread reads the flags without a timeout, and a silent
guest blocks it.  Nothing else is asked of guests.

`command_stream`: weak fairness of the render thread and of a caller inside
`readback()`.  A caller need not make another call, so nothing forces a staged
call without a result onto the wire.

`buffers`: weak fairness of a thread inside a call of the channel, strong fairness
of `Enter`, for the same reason as for `m_lock`.  Nobody is obliged to call
`send()` or `receive()`, and no wait ever ends spuriously of necessity.

`service`: weak fairness of the accept thread's exit and of a stop that has begun.
Nobody need start or stop anything, and a process may crash at any time.

`parts`: weak fairness of a caller inside `ptr()` of the lazy instance, the one
that spins included, since `sched_yield()` lets the others run, and of the store
buffer, which no CPU keeps for ever.

## 5. Proofs

All proofs are for arbitrary constants that satisfy the named assumptions of the
modules.  The few theorems that need more say so in their own `ASSUME`.

* `DisplayControlServerProofs`: `ServerInvariant` is inductive, and the five
  properties of `server_safety` follow.  `RenderLifetime` alone is not
  inductive; the strengthening says that a live thread object has a live
  stream and a pthread not yet joined (`ThreadWithinStream`), that only the
  connection whose flags are awaited has a stream without a thread, that a
  connection is queued at most once and before it has a stream
  (`EveryConnOnce`), which connection the accept thread works on
  (`WorksOnCur`), and that the controlling thread passes `wait()` only after
  `main()` returned with an empty map (`StopFollowsReturn`).  The proof has one
  lemma per actor and one step per action.  `NoUseAfterDelete` covers failing
  thread starts: the dangling entries of `server_insert` never lead the
  *model's* accept thread to delete another connection's live objects; what a
  real use of freed memory does beyond the modelled outcomes is outside any
  proof.  Assumed: `Dummy` and `NoConn` are distinct from the guests.
  `ServerLifeRefinement` is the safety half of `ImplementsServerLife`: it needs
  `ServerInvariant` and that the accept loop is left only after the exit flag was
  read (`LeavesOnRequest`).  The other half, that the end comes, is liveness.
* `ReadBufferProofs`: `RBTypeOK /\ WindowIsStream` is inductive;
  `RoomToRead` and `DoublingNeverWraps` follow from it and from
  `SizeAssumption`.  One lemma per action (`GetDataKeeps`, `ConsumeKeeps`, ...),
  each for any number of bytes, so that other modules can use them.
* `StreamBufferProofs`: first the sizes and `BufferFits` together are inductive
  (`SizesAgree`).  With them, `NothingLost`, `WireInOrder` and `SentWasWritten`
  are (`StreamInv`): a commit sends a prefix of the staged bytes, `NothingLost`
  says which bytes these are, and an `alloc()` that asks for memory without a
  flush had nothing staged.  The steps are those of `SBStep`, without the bound on
  the bytes written.
* `CommandStreamProofs`: for every set of calls, all packet sizes and both buffer
  sizes, `CSInv` is inductive.  It consists of `StreamInv` and the read buffer's
  invariant (the lemmas of the two modules above do that part), and of what ties
  them together: the packets adjoin in what was written (`PacketsAdjoin`);
  `decode()` stands at the first byte of the first call not executed (`InStep`),
  and so the packet it sees is that call's and no other (`AtNextPacket`); the
  thread reads on only when it holds no complete packet (`NothingComplete`), which
  is why the buffer is doubled only for a packet that does not fit; while the
  connection stands, a caller goes on only after its calls with a result were
  executed (`ResultsExecuted`), and the reply under way is the last call's
  (`ReplyIsLast`).  `OneReplyOutstanding`, `BufferBounded`, the types of
  everything and the refinement of `RemoteCalls` follow, one lemma per action.
* `MessageChannelProofs`: `ChannelInv` is inductive.  `OneInside` has to be
  accompanied by what a thread inside knows (`Inside`: the condition it waited
  for still holds, and its message is where it belongs) and by `Filled`: the
  slots in use hold messages.  From it follows the refinement of `BoundedFifo`,
  each step being a step of the queue or leaving `QueueBar` and `HandBar` alone.
  `NoLostWakeup` counts: each side's step changes the number of threads on their
  way by one, and the message or slot it stands for too.  Assumed for the
  counting: the senders and receivers are finitely many (`FiniteAssumption`).
* `DisplayServiceProofs`: `ServiceInv` says of each instance what its program
  counter implies for its flags (`Consistent`) and of each server nobody robbed
  that its file is in place (`InPlace`).  `OwnFileStands` and `FlagsAgree`
  follow for any number of instances and paths, stops without a socket included.
  `AloneReachesItself` is the other side of `service_takeover`: with a single
  instance the exit request reaches its own server.
* `PartsProofs`: `JoinedOnce` if a caller that waits is the thread's only user
  (`LoneWaiter`; `thread_join` shows what happens otherwise); `OneConstructor` for
  any order of the stores, and the lemma `CompleteInOrder`: with the order of x86
  `UseComplete`, which `lazy_order` refutes without it, is true;
  `RegisteredAnswersStick` if `main()` registers a callback at all;
  `DeletedWhenUnheld`, where the shared count is the number of pointers that hold
  the object, so that the pointers have to be finitely many;
  `OneFailurePerLoss` without any condition.
* `IdMapsProofs`: bottom up.  The searches are recursive functions; what they
  return for every vector is shown from the least counterexample (`LeastNumber`,
  `RangeInduction`): `FindsItem`, `FindsPlace`, and `GrowsEnough` for the growth of
  a block.  Then what the vector's operators keep, for any items and block sizes:
  `insertAt` and `removeAt` keep all other items in their order (`Inserted`,
  `Removed`), and at the place the search returns they keep a vector sorted
  (`InsertedIntoSorted`, `RemovedFromSorted`).  With them `MapInv` is inductive:
  the vectors are sorted and each other's inverse (`VectorsMirror`), a value kept
  for reuse is kept once and not in use (`FreeOnce`), and counting back from
  `mLastValue` no value is missing before one that is in use or kept (`NoGaps`).
  The last part is what the wrap needs: were the next new value in use, all
  values but 0 would be, each for a key of its own.  Hence the theorems' one
  assumption, that keys are fewer than values (`FewerKeys`); with as many keys as
  values TLC finds `MapInv` violated.
  The hash table: `TableInv` says that every key is in the cell where its probe
  starts (`AtHome`) and that the table is the dictionary (`Holds`).  A write keeps
  both (`WriteAtHome`, `WriteHolds`), and `RehashKeeps` shows the same of the loop in
  `resize()`: its recursive function is compared with a closed form, the table that
  holds what the first n cells of the old one held.  `FindsEveryObject` and
  `ContainsTellsTruth` follow for ids whose probes start at different cells at every
  size of the table (`Apart`).  That is more than the code asks of its callers, and it
  is needed: `id_map_promise` is the counterexample for two ids that collide.  Powers of
  two are beyond tlapm's arithmetic; that no prime exceeds its capacity is
  `PrimeAssumption`, a fact about the literals of `kPrimes` that TLC evaluates.

Only model-checked:

* `StopReturns` of the server and of `DisplayService`, `EveryCallEnds`,
  `GivenUpIsClosed`, `EveryResultReturns`, `ReceiverServed`, `EveryCallerServed`
  and the fair half of `ImplementsServerLife`: liveness under fairness.

Every invariant of a passing run and every safety property is stated by a theorem,
with the conditions named above.

## 6. Findings

`server_insert`: the comment at `DisplayControlServer.cpp:127` says that a thread
is inserted when it was created and started; line 129 also inserts one whose
start failed and which lines 103-104 have deleted.

`service_takeover`: the comment at `display_control_api.cpp:61` says that the dummy
connection makes the server realise the exit request.  `mkpath()` removes the
socket file of a running server; afterwards the first instance's stop ends the
second instance's server and waits for its own for ever.

`service_leftover`: `display_control_api.entries:12` says that `stopDisplayControl`
stops the process.  Its only means is a connection of its own; when `socket()`
fails (`sockets.cpp:143`) it gives up, `display_control.c:136` clears the flag all
the same, and the server goes on.  A second stop does nothing, and a start is
refused, because the library still has its server (`display_control_api.cpp:37`).

`lazy_order`: `lazy_instance.h:29` promises a thread-safe initialisation.  The
barriers at `lazy_instance.cpp:38` bind the compiler only, on every CPU the package
is built for (`debian/control`: `Architecture: any`).  Where stores become visible in
another order, as on ARM, a second caller gets an object whose fields it does not
see.

`id_map_promise`: `id_to_object_map.h:104` promises that `contains()` is true iff
there is a value for the key.  `probeKeys()` masks with the capacity instead of
capacity - 1 and stops at tombstones: set 1, set 8, remove 1, and 8 is gone.

`thread_join`: the comment at `thread_pthread.cpp:95` speaks of two threads that
wait for the same thread; both join it.

Seen on the way and not a run of their own:

* `unique_integer_map.h:30` reserves 0 ("keys and values cannot be 0").
  `mLastValue` is uninitialised and wraps, so that `add()` may hand out 0, which is
  also what it returns for a key that is there already, and `findKeyFor(0)` then
  finds a key, against line 51.  `add(0)` enters the key 0, against line 55.
  Nothing in the repository uses the class.
* A connection whose render thread ran out of memory waits on an idle server, as
  `EveryCallEnds` admits.
* A smart pointer assigned to itself loses its object (`DeletedWhenUnheld` holds:
  the object is deleted and the pointer empty).
* `Thread::start()` starts a second pthread although `thread.h` has it fail.
* `do_FBPost()` may return 0 after a failure, because `errno` need not be set.

## 7. Not modelled

* A second `start()` of a thread object, concurrent callers of `do_FBPost()`
  (nothing says that they are allowed), the destruction of the decoder at exit
  (`Garbo`) while render threads may still run.
* A stop whose `connect()` blocks because the accept queue is full: then the
  server is there and answers later (`DisplayControlServer` has the queue).
* The `int allocLen` of `IOStream::alloc()`: packets are shorter than 2^31 bytes
  (`MaxLen`), so that the conversion from `size_t` changes nothing.
* An opcode the decoder does not know: encoder and decoder share theirs.
* An allocation that fails inside `new`, `PodVector` or `IdToObjectMap`: the code
  does not handle it.
* `ThreadStore`: on POSIX a pthread key is made and deleted; all the rest of the
  file is for Windows.  Windows and TCP code is not built or not used.
* Loading of libraries, logging, generated dispatch tables, code generators and
  packaging: no state, or pure I/O.

## 8. Plan

What a further round of proofs could do:

* action properties that only follow from refinements so far, stated on their own
  where a reader would look for them;
* ids that share a first cell but are never removed: without tombstones a probe finds
  them again, which would weaken `Apart`;
* the liveness properties stay with TLC.
