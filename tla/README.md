# A verification of LuaJack

LuaJack binds JACK, the audio server, to Lua. A Lua script has a *main context*
(the script), a *process context* per client (a Lua state whose callbacks JACK
runs in its realtime thread) and any number of *thread contexts* (a Lua state
and a pthread each). The contexts share nothing but LuaJack's C code, and what
is hard about LuaJack is where they meet: ringbuffers, the queue of events, the
databases of objects, and the order in which things are shut down.

This directory holds TLA+ models of those meetings, the TLC runs that check
them, and TLAPS proofs. Paths below are relative to the repository's root.

## Running

    tlc -workers 2 -config ring_safety.cfg MCRingBuffer
    tlapm RingBufferProofs.tla

Each run is one `.cfg` with the `MC...` module of the same component;
`PROJECT.json` lists them, with the definition that each models and its lines,
the mutants that show that each property can fail, the hazards, and the findings.

## Inventory

| Component | State it keeps | Operations | Meets | What is hard |
|---|---|---|---|---|
| Ringbuffers: `src/ringbuffer.c`, `src/rbuf.c`, `src/syncpipe.c`, `luajack/selectable.lua` | JACK's ring (two pointers), an optional pipe | write, read, peek, read_advance, reset; from Lua and from C | any two contexts; `select()` | lock-free interleaving; header and payload published apart and split by the end of the buffer; bytes in the pipe against messages in the ring |
| Event queue: `src/evt.c` | FIFO of events, its lock, counter, pipe | insert, remove, count, free all | JACK's notification threads and the main thread | counter and pipe read without the lock |
| Non-realtime callbacks: `src/callback.c` | references of Lua functions per client | pre-callbacks, flush, register, unregister | JACK, event queue, client life | clients closed with events queued; errors in the middle of a flush; ownership of events |
| Main loop and exit: `src/main.c` | exit status, message, error pipe | `jack.sleep()`, `luajack_error()`, `os.exit()`, exit handler | all | errors of other threads racing `pselect()`; order of the exit |
| Clients: `src/client.c`, `src/cud.c` | entries in a tree, the counter of active clients | open, activate, deactivate, close, close all | all | creation and searches without locks; what is freed when |
| Ports: `src/port.c`, `src/pud.c` | entries in a tree | register, unregister, close all; the rest is forwarded to JACK | clients, process callback | unregistered while the callback uses their buffers |
| Port buffers: `src/buffer.c` | per port the buffer JACK lends, its length, a cursor | get_buffer, read, write, clear, seek, copy, drop all | process callback | valid in one cycle; lengths and positions at their limits; MIDI buffers that fill up |
| Threads: `src/thread.c`, `src/tud.c` | entry, status, lock, condition | create, signal, wait, cancel | main context, process context | lost signals, cancellation |
| Realtime callbacks: `src/process.c` | process state, references, marks | load, register, process, buffer size, sync, timebase, profile | JACK, main thread, port buffers | errors in realtime; marks shared by two threads without a lock; registration and closing while callbacks run |
| MIDI: `luajack/midi.lua` | none | encode, decode, timed messages | port buffers | shifts, 7-bit halves, numbers counted from 1, two tables that must agree |
| C API: `src/luajack.c` | none | ringbuffer calls, getters, signal | C modules in the realtime thread | differs from the Lua API in the pipe |
| Transport: `src/transport.c` | none | query, reposition (conversion of positions); the rest is forwarded to JACK | scripts, JACK | a table says by the fields it has what JACK's position says by its bits; integers cut to their width |
| Time, statistics, server control, latency, session | accumulators | calls forwarded to JACK, conversions | - | - |
| Vendored: `src/queue.h`, `src/tree.h`, `luajack/getopt.lua`; `luajack/shell.lua` | - | - | - | left aside |

What makes each correct:

- ringbuffers: a FIFO of whole messages; `nil` means empty; a selecting reader is
  never left asleep with a message in the ring;
- events: every notification reaches its callback once, in order, with what JACK
  said, unless the client was closed; each event is freed exactly once; an error
  of another thread wakes the main loop;
- clients: no tree changes while a realtime callback searches it, nothing is freed
  while it is used, the counter is right, LuaJack exits;
- port buffers: a buffer is used in its process cycle only, nothing outside it is
  read or written, and streams keep their order, also when they do not fit;
- threads: a signal is not lost to a waiting thread; a cancelled thread leaves
  no lock behind;
- realtime callbacks: a callback finds its function, runs in a state no other
  thread uses, and gets buffers only in the process callback, of ports that live;
- MIDI: what is encoded is decoded to the same message, and the other way round;
- transport: a position that a script queries, changes and sends back differs in
  what the script has changed and in nothing else.

## Modules

| Module | Models |
|---|---|
| `MessageChannel` | what a queue of messages promises: send, receive the oldest, skip it, drop all |
| `RingBuffer` | the ringbuffer byte by byte, its pipe, a writing and a reading thread; implements `MessageChannel` |
| `RingBufferProofs` | TLAPS proofs about `RingBuffer` |
| `EventQueue` | notification threads, event queue, `jack.sleep()`, `callback_flush()`, exit; implements `MessageChannel` for events |
| `EventQueueProofs` | TLAPS proofs about `EventQueue` |
| `Clients` | clients, ringbuffer entries and threads: creation, activation, closing, exit |
| `ClientsProofs` | TLAPS proofs about `Clients` |
| `Threads` | client threads: status, signal and wait, end, cancellation; the registration of errors |
| `ThreadsProofs` | TLAPS proofs about `Threads` |
| `Process` | the realtime callbacks of a client: loading, registration, what surrounds the script's function, the marks, the ports it uses, closing |
| `ProcessProofs` | TLAPS proofs about `Process` |
| `PortBuffer` | the operations on port buffers within process cycles |
| `PortBufferProofs` | TLAPS proofs about `PortBuffer` |
| `Midi` | encoding and decoding of MIDI messages as operators, and a script that uses them |
| `MidiProofs` | TLAPS proofs about `Midi` |
| `Transport` | positions of the transport as tables and back, and a script that changes them |
| `TransportProofs` | TLAPS proofs about `Transport` |
| `MC...` | constants for TLC, one module per component; `MCCodecs` has `Midi` and `Transport` |

`Process` and `PortBuffer` divide the port buffers between them: the first has
when a buffer may be had, the second what is done with it. `Clients`, `Threads` and
`Process` each model `client_close()` as far as their state is concerned.

Names ending in `_Something` with the comment `mutant` (`Wake_IfFirst`,
`Close_Early`, ...) are not part of a specification: each is a definition as a
plausible bug would have it, used to see that a property fails with it.

### RingBuffer

The buffer is a function from slots to bytes. A byte knows the message it
belongs to and its place in it, so a read that mixes two messages, or takes a
byte that was never written, is seen. JACK's two pointers are free-running
counters; the pointers proper are the counters modulo `Size`, and JACK's own
functions (`jack_ringbuffer_write_space`, `..._get_write_vector`, ...) are
external, modelled from how LuaJack uses them. Each access to a counter the
other thread writes is a step: `WriteBegin` (reads the space), `WriteHeader`,
`PublishHeader`, `WriteData`, `AdvanceWrite`, `WritePipe`; and `ReadBegin`,
`PeekHeader`, `CheckSpace`, `CopyData`, `AdvanceRead`, `ReadPipe`. The C writer skips
`WritePipe` as `luajack.c` does. The header's length `HdrLen` and the pipe's capacity
are parameters. `sent`, `next`, `got` are history: the messages whose write has
completed, the index of the oldest unread one, what reads returned.

`Reset` moves the pointers at any point of the other thread's call, as the code does;
with `CarefulReset`, which the runs and the theorems assume, it happens only while
no thread is in a call. JACK says of its own reset that it is not thread safe;
LuaJack's manual says nothing of it (disagreement 12).

### EventQueue

`lock`, `queue`, `counter` and `evtpipe` are the statics of `evt.c`. `evt_insert()`
is three steps under the lock (`Insert`, `Count`, `Wake`), because `evt_count()` and
`pselect()` look from outside it. The main thread's program counter `mpc` walks
through `Sleep()` (`check`, `select`, `err`, `loop`) and `callback_flush()` (`flush`,
`remove`, `begin`, `callback`, `free`). In `script` and in `callback` the script may
register callbacks, activate, deactivate and close clients, or exit. An event
has the fields `op` and `mode` and, for the properties, `said`, what JACK notified.
The eleven pre-callbacks have five shapes (`AllKinds`); one of each is modelled.
`timed` says whether this `jack.sleep()` has a timeout.
`freed` counts the calls of `evt_free()` per event. A double free is counted and the
model goes on; the program might not, so `NothingLeaks` speaks of what happens until
another pthread has raised an error, and `evt_doublefree` of what happens then.

JACK, from how `callback.c` uses it: callbacks are called for active clients only,
in one thread per client; the setting of callbacks of an active client is
refused; `jack_client_close()` waits for the client's thread. Two limits: a
callback that calls `jack.sleep()` itself (a nested flush) is left out, and the
five shapes leave out the setter of the shutdown callback, which cannot fail.

### Clients

`count` is `luajack_active_clients`, `jactive` what JACK knows. Per client there
are two tasks, the realtime callback and a thread; each may search a tree
(`search`), that of clients, of ringbuffers or of threads, and then use the client or the ringbuffer
found (`use`; what `jack.signal()` does with a thread is in `Threads`). Creation is two steps, so that
a search can fall into it: the entry is inserted, and then, for a thread, the pthread begins. `client_close()` is a step per call it makes, in its
order: `Deactivate_`, `thread_free_all`, `rbuf_free_all`, `jack_client_close`, the mark.
`jack_activate()` may fail, JACK may throw a client out (`ThrownOut`), and
`jack_deactivate()` then fails. For a client that is already active, or already
inactive, both succeed, as in JACK's sources.

What LuaJack guarantees depends on the script, and `Disciplined` names the rules:

- a client is activated when inactive and deactivated when active (`MayActivate`,
  `MayDeactivate`);
- a client that is not active is closed only if none is active (`MayClose`), and
  the script exits with all its clients active or none (`MayExit`);
- a task uses only its own client and that client's ringbuffers (`MayUse`).

None of the rules is checked by the code; `clients_counter` shows what happens
without the first two. No rule keeps a thread, which runs from its creation, from
searching a tree while the main thread inserts into it: `CallbacksSeeNoInsertion` is
about realtime callbacks, and false of threads (disagreement 15).

A task has got what it uses from a search, or as a pointer from the C API
(`RingCall`, `ClientCall`: a function that holds a `luajack_t` checks its mark `valid` and
goes on). `using` is the object in its hands, a ringbuffer or a client whose
`jack_client_t` is passed to JACK; `NoUseAfterFree` says that it stays usable until the
task is done with it. The check of the mark does not: it comes before the use, and
the main thread may close the object in between. What keeps a `Disciplined` script
safe is the last rule, `MayUse`, since `client_close()` frees a client's ringbuffers when nothing
of the client runs. Without it `NoUseAfterFree` fails: the hazard of a holder in another client
is outside what the run shows.

### Threads

`entry`, `status`, `state` and `lock` are the fields of `tud_t`; `tpc` is where
`ThreadFunc()` is, from `start` to `exited`. A thread takes its lock when it starts
and gives it back only inside `pthread_cond_wait()` and at its end. `apc` is where
a context (the main script, the process callback of a client, a thread) is in
`jack.signal()` or in `luajack_error()`: `TryLock`, `CondSignal`, `SigUnlock`; `ErrTry`,
`ErrCheck`, `ErrWrite`, `ErrWritten`, `ErrStatus`, `ErrUnlock`. `Die` may end a cancelled
thread at any of these steps, since `ThreadFunc()` asks for asynchronous
cancellation; what the thread holds stays held. The mutex, the condition and the
cancellation are those of POSIX: a cancelled waiter has its lock again before it
ends, wake-ups may be spurious. `owed` is history: a signal was sent to this thread
while it waited.

`Signallers` and `Failing` say which contexts call `jack.signal()` and
`luajack_error()` of their own; a thread whose chunk fails calls it too. The client
that a caller of `jack.signal()` names must own the thread, but need not be the caller's
(`src/thread.c:276`), so in `threads_life` the callbacks of two clients signal the threads of
one. Threads do not signal each other there: disagreement 6 below is what happens when
they do. A callback of another client goes on while the thread's client is closed, and can be between
the check of the thread's status and `pthread_mutex_trylock()` when the lock is destroyed;
what `TryLock` does then is a choice. `LockAlive` is about the main script and the callback of the
owning client (disagreement 14 about the others).

Creations that fail halfway are left out. After `tud_new()` a failure closes the Lua
state and destroys the lock but leaves the entry valid, so that closing the
client cancels a `pthread_t` that was never set: undefined, and not worth a model.
A thread cancelled inside `malloc()` is C's matter, not LuaJack's.

### Process

`marks` is the word `cud->marks` with its bits `valid`, `process` and `profile`. `MarkSet()`
and `MarkReset()` are a load (`Load`) and a store (`Store`) of each thread, and
`torn` records that a store has undone a change of the other thread. `rtpc` is where
the realtime thread is around the script's function: `begin` (the checks of
`BEGIN`), `mark`, `script` (`EXEC`), `drop` (`buffer_drop_all()`), `unmark`, `end`. `Fails` is the
error path of `EXEC`, which skips what follows it. `stack` counts what is left on the
stack of the process state, up to `StackRoom`; nothing in LuaJack pops it. An error is registered by
`luajack_error`, here one step: it is ignored while another context holds the error
lock (`errbusy`; `Threads` has the details). Callbacks are those in `Slots`, written in
the languages in `Apis`: `ref` is the reference of the Lua function, `jcb` what JACK
calls. `Call` is JACK. `GetBuffer` and `luajack_get_buffer` are called by the script's
function, in any callback. `mpc` is where the main thread is: in the script, in the
process chunk (which `jack.process_load()` runs in the main thread, though in the
process state), in `jack.profile()`, or at one of the steps of `client_close()`.

`Disciplined` is the rule of a script that loads the process chunk, registers
callbacks and unregisters ports while the client is not active. The code does
not check it, except through JACK for two of the callbacks. `GetBufferIfMarked`,
`BufferOfThisCycle`, `StackDoesNotGrow` and the types need no discipline.

### PortBuffer

`frames` is the period of the cycle (0 between cycles), `data` the contents of each
port's buffer, `got` the ports whose buffer was retrieved, `nframes` and `bufp` the fields of
`pud_t`. A sample is told apart by where it comes from, a MIDI event by its time and
its size. JACK's MIDI buffer, external, has a capacity, keeps events in order of
time and refuses what does not fit. `taken` and `given` are history: what a script
was told it has read and written, in order. `astray` are the ports whose streams are
no longer in order because an operation did not respect the position: a MIDI port
read at an index, and both ports of an audio `copy()` that are not at their beginning, because it copies
the first samples of the one over the first of the other, and `taken` and `given` record just these. An operation that raises an error or returns `nil` changes nothing and has no
step. Copying is modelled from an input port to an output port, reading from
inputs, writing to outputs, as the code wants it. `MidiCopy` says of the number of
events it copies that JACK accepts each of them and refuses the next (`Accepted`),
which is where the loop of the code ends.

### Midi

`name_to_type`, `type_to_name` and `decodefunc` are the tables of `midi.lua`, `decode` and the
encoding functions its functions; a message is the sequence of its bytes. Around
them there is a script: it encodes a message or receives one, passes it on with a
time (`tmsg`, `time_msg`), decodes it and encodes the result again. Names of messages
are written with underscores where the code has spaces.

### Transport

JACK's position has five parts that may be missing (`Parts`); its bits (`valid`) say
which are there. `transport_pushposition` makes a table of it that has the fields of
those parts, `transport_checkposition` reads a part if its first field (`Key`) is in the
table. `Complete` is the condition under which no `luaL_checkinteger` or `luaL_checknumber`
raises an error. `table` is the script's, `requested` what
`jack_transport_reposition()` gets; `queried` and `changes` are history. `Stored` cuts what
Lua holds in 64 bits to the field's type, signed or not; `Half` is a parameter.

Starting, stopping, locating and the state are calls that are forwarded. The position
a timebase callback fills in comes from C, as Lua has no function for it, so query
and reposition are the only ways between JACK and a table.

## Runs

| Run | Asks | Bounds and why they are enough |
|---|---|---|
| `ring_safety` | is the ring a FIFO of whole messages, both APIs on both sides, reading at any time? `TypeOK`, `NeverUnexpected`, `ShowsOldest`, `NilMeansEmpty`, `FifoOfMessages` | ring of 8, header of 3, payloads of 0, 1, 4, three messages: header and payload meet the end in every way, a message of 7 fills the ring, two small ones leave a gap; the third reuses slots of the first. 412 000 states |
| `ring_select` | is a reader that waits in `select()` always woken, does it read every message? `WakeupNotLost`, `EveryMessageRead` | three messages, failed writes included; 41 000 states |
| `evt_dispatch` | are callbacks run in order and once, do events not leak, does a flush end, and is the main script reached by every event and every error, with a timeout or without? `PipeCountsQueue`, `OnlyScheduled`, `NeverUnexpected`, `NothingLeaks`, `FifoDispatch`, `EveryEventHandled`, `ErrorReachesScript`, no deadlock | two clients, three events, one error: one event in the main thread's hands while two threads contend for the lock, one scheduled and one not. One kind of notification, since kinds differ only in the argument; 355 000 states, complete |
| `evt_told` | is the freewheel callback told what JACK said? violated | one client |
| `evt_doublefree` | is an event freed once? violated | one client, two events, one error |
| `clients_life` | counter, trees, freed memory and exit of a disciplined script: `CountIsActive`, `CallbacksSeeNoInsertion`, `NoUseAfterFree`, `ExitCompletes`, no deadlock | two clients, a ringbuffer and a thread each: one client closes while the other's tasks run; 55 000 states, complete |
| `clients_counter` | is nothing created while a client is active, with an undisciplined script? violated | two clients |
| `threads_life` | are signals and errors of several contexts handled right, wherever a thread is cancelled? `TypeOK`, `SignalWakes`, `ClosedOnce`, `LockAlive`, `MessageWhole`, `FirstErrorKept`, `ErrorRegistered`, `CloseCompletes` | two clients, two threads of the first, both signalled by the callbacks of both clients; chunks fail, and so does the first callback: two signallers meet at one lock, failures at the error lock, one thread is joined while the other runs, and the second client's callback is in `jack.signal()` while the first client is closed. 57 000 states, complete |
| `process_life` | do callbacks find their functions and their buffers, and nobody else's, whatever the main thread does meanwhile? `TypeOK`, `GetBufferIfMarked`, `BufferOfThisCycle`, `StackDoesNotGrow`, `BufferOfLivePort`, `NeverUnexpected`, `StateUsedByOne` | one port, the process, the sync and the timebase callback, in Lua and in C: the last two are not the process callback and may be registered while active, one leaves its result on the stack, the other may be taken away; two values on a stack show that it grows; 5.8 million states, complete |
| `process_marks` | is `get_buffer()` granted in the process callback only, and always there? violated | as before |
| `buffer_cycle` | does anything leave the buffers, and are streams in order? `TypeOK`, `InsideBuffer`, `StreamsInOrder` | one port of each kind, up to two frames and two events, counts and positions up to one too many; a MIDI buffer of 6 with a header of 1 fills up with two or three events; a `size_t` of 4 bits, 2 for the time and the size, so that the space told wraps; two buffers retrieved in a cycle, the source and the target of a copy; complete |
| `codecs` | is what is converted there and back the same, MIDI messages and positions? `TypeOK`, `RoundTrip`, `Recoded`, `RepositionKeeps`, no deadlock | MIDI: three channels, the ends of every range and the values around a carry, every status byte from 120 up, data bytes with and without the high bit. Positions: any set of parts, one or two fields changed or removed (a key, a member of the part, or one of each), integers of 4 bits with values beyond both ends. The two scripts have nothing in common and run one at a time. 187 000 states |

The deadlock check is off in the ring runs, `evt_told`, `threads_life`, `process_life`,
`process_marks` and `buffer_cycle`: writers stop after `MaxMsgs`, a blocked `jack.sleep()` may wait
forever when JACK says nothing, a script whose clients are closed is over, and a
period may be the last one.

`EvtPipeCap` is at least `MaxEvents` in the runs: a Linux pipe holds 65536 bytes.
With fewer, bytes are dropped and an event can stay queued until the next one
arrives. For the ring's pipe the bound is explicit: at least `HdrLen` bytes of the
ring go with each byte, so with `PipeCap * HdrLen > Size - 1` no byte of a stored
message is dropped (64 KiB and 8 bytes: rings up to 512 KiB).

### Fairness

- `ring_select`: a call, once begun, runs to its end (weak fairness of the steps of both
  threads), and the reader reads when `select()` reports data again and again (strong
  fairness, because its own peeks come between).
- `evt_dispatch`: weak fairness of a JACK thread inside `evt_insert()`, of the thread that
  reports an error, of the main thread, and of callbacks, which must return. The
  script is a loop around `jack.sleep()`, as the comment of `luajack_errorv_` demands.
  JACK need not notify, the script need not do anything else.
- `clients_life`: a process callback's searches end and the callback returns
  (strong fairness of `EndCycle`: it may search any number of times first). The
  closing steps of the main thread have strong fairness, since JACK begins no new
  cycle of a client that it is asked to deactivate. Threads have none: they may
  run forever, and are cancelled.
- `threads_life`: a context that has begun `jack.signal()` or `luajack_error()` goes on,
  so does a thread that ends and the main thread in `client_close()`: weak fairness of each. A
  cancelled thread dies: strong fairness, because out of `pthread_cond_wait()` it must get its lock,
  which callbacks of other clients may try again and again. Chunks need not end, threads need
  not leave `jack.wait()`.

`Process`, `PortBuffer`, `Midi` and `Transport` have no liveness property: their operations do not
wait for each other, except `jack_deactivate()` for a callback that runs, which
`clients_life` has.

## Disagreements found

Shown by a run:

1. `evt_doublefree`: with an error pending, `BEGIN` frees the event and
   `callback_flush()` frees it again.
2. `clients_counter`: `Deactivate_` decrements the counter for a client that was not
   active. Closing an idle client while another is active has the same effect,
   also at exit, where the active client's ringbuffers are then freed before its
   process callback is stopped.
3. `process_marks`: the marks of a client are changed by the main thread
   (`jack.profile()`) and by the realtime thread without a lock. A change is lost when
   they meet, so `get_buffer()` is refused in the process callback, or granted outside
   it. `GetBufferIfMarked` says that this is the only way (with an error that is
   ignored, below).
4. `evt_told`: `Freewheel_()` saves the operation in the field `mode`
   (`src/callback.c:277`) and `Lua_Freewheel()` reads `op` (`src/callback.c:81`), so the callback
   is always told `stopping`, where the manual has `starting` or `stopping`.

Shown by other values of the constants, in the module named:

5. `Threads`: a thread cancelled in `luajack_errorv_()` leaves `luajack_errlock` locked
   (`src/main.c:99`). Its error and all later ones are ignored, `os.exit()` of other
   contexts and SIGINT among them: `ErrorRegistered` fails without the exception it
   makes for a lock that a dead thread holds.
6. `Threads`, threads among the `Signallers`: a thread cancelled in `jack.signal()` leaves the lock of
   another thread locked (`src/thread.c:374`); that one waits for it in
   `pthread_cond_wait()`, even when cancelled itself, and `client_close()` waits for
   that one: `CloseCompletes` fails.
7. `RingBuffer`, `WriterApi = {"c"}`: C writers never write the pipe
   (`src/luajack.c:170`), so a reader asleep in `select()` misses their messages:
   `WakeupNotLost` fails.
8. `EventQueue`, `Kinds = {"Session"}`: session events look up the latency callback
   (`src/callback.c:144`): `NeverUnexpected` fails. `callback_unregister()` also leaves the
   session function referenced (`src/callback.c:453`).
9. `EventQueue`, `RegisterActive = TRUE`: registering a callback of an active client is
   refused after the old function has been released, and queued events find none:
   `NeverUnexpected` fails.
10. `Process`, without the exception that `StackDoesNotGrow` makes for it: `Sync()`
   leaves the result of the script's function on the stack of the process state
   (`src/process.c:154`), one value for each call, which nothing removes. After about a
   million calls, one per cycle while the transport starts, Lua refuses to run any
   callback of the client.
11. `Process`, `Disciplined = FALSE`: a port unregistered while the callback has its
   buffer (`BufferOfLivePort`), a function released before JACK refuses the new one
   (`NeverUnexpected`), a chunk loaded into a state that a callback of the client already uses
   (`StateUsedByOne`).
12. `RingBuffer`, `CarefulReset = FALSE`: `ringbuffer_reset()` has no condition (`src/rbuf.c:152`), and the
   manual gives it to every context without one ("Resets the ringbuffer", `doc/ringbuffers.adoc:50`).
   When it falls between the check of the space and the advance of a reader, the read
   pointer passes the write pointer: `FifoOfMessages` fails, in a trace of nine states.
13. `RingBuffer`, `Polling = TRUE` with the constants of `ring_select`: a Lua reader that reads
   until it gets `nil`, and then sleeps, takes with the last read the byte of a message completed
   since (`src/rbuf.c:122-129`): `WakeupNotLost` fails.
14. `Threads`, `LockAlive` without the condition `Own`: a callback of another client is in `jack.signal()`
   with a thread whose client is closed meanwhile, and finds its lock destroyed
   (`src/thread.c:276`, `src/thread.c:376`).
15. `Clients`, `CallbacksSeeNoInsertion` with every task instead of the realtime callback: a thread
   searches a tree while the main thread inserts into it, in seven states: a client is opened, a
   thread created and another object created. `luajack_checkcreate()` asks for active
   clients only, and the comment in `client_close_all()` (`src/client.c:309-311`) that creation
   without them gives no race is not true of threads. The tree of threads itself is
   searched by `jack.signal()` in a running thread while `tud_new()` inserts the next
   (`src/thread.c:157`, `src/thread.c:270`).

Modelled as the code has it, and left out of a property by name: audio
`copy()` starts at the beginning of both buffers whatever their positions
(`src/buffer.c:213`; the manual says it uses the current positions, `doc/buffer.adoc:70-71`), so that a script that reads two
samples and copies two takes the first two twice and never the next two; and MIDI `read()`
with an index advances the cursor by one from where it was (`src/buffer.c:261`); both make
ports `astray`. `AudioRead()` takes one sample by default (`src/buffer.c:155`), where the
manual says all that remain. The space told for a MIDI event wraps when the
buffer is nearly full (`src/buffer.c:230`, `MidiSpace`); JACK then refuses the event, which
is what `InsideBuffer` checks.

Seen in the code and outside the models: `transport_pushstate()` raises an error for a state it does not know
(`src/transport.c:40-41`), and `Sync()` and `Timebase_()` call it outside `lua_pcall()`
(`src/process.c:152`, `src/process.c:163`), where nothing catches it; in `Process` JACK passes the states the code knows.
`port_close()` unregisters the port and then marks its entry (`src/port.c:779-780`), one step in `Process`, which
is no difference as long as no callback runs. `luajack_errorv_()` uses as an index the length that
`vsnprintf()` would have written (`src/main.c:122-123`), which is more than it wrote when it cut the message; in
`Threads` a message is whole or not, however long. The manual says that the elements of a
position that are not mandatory may be absent, the code raises an error for a table that has a part's
first field without the others (`src/transport.c:108`; `Complete` has it); the manual names a transport
state `stopping`, the code `stopped` (`src/transport.c:40`); `midi.status()` asserts its type at the wrong
level, so never (`luajack/midi.lua:455`); the three bits of a quarter frame's type are not
masked when it is decoded; `jack.profile("start")` resets statistics that the realtime
thread updates; with profiling switched on in the middle of a callback, `END` measures from 0
(`src/process.c:289`); a thread whose chunk fails never closes its Lua state
(`src/thread.c:107`), which in `Threads` is a `failed` thread; a client that JACK threw out keeps
its count, so creation is refused until the script ends.

## Proofs

TLAPS checks the theorems below for every value of the constants that the
`ASSUME`s admit, so for rings, pipes, numbers of clients and of messages of any
size. Each module of proofs has one inductive invariant (`IInv`; `MidiInv`, `PosInv`; its
parts are defined at the end of the module it is about, where TLC can evaluate
them: each was checked on the component's run before it was proved), one lemma
per action, and a short theorem per property. Every safety property of the
passing runs is stated by a theorem.

**`RingBufferProofs`**, from `RingAssumption` (a ring of at least one slot, a positive
header length, message lengths in `Nat`) and `CarefulReset`, a hypothesis of each theorem. `NeverUnexpected`, `ShowsOldest` and
`NilMeansEmpty` are not inductive: a step of the reader is right only because of
what the writer left in the slots before. `IInv` says, per place of the writer's
program counter, which bytes of the message it is writing are in which slots
(`WriterInv`); per place of the reader's, what it has read of the oldest one
(`ReaderInv`); and that the slots between the pointers hold the unread messages,
header and payload, one after the other (`UnreadInv`). The argument in one line:
slots of unread messages and slots the writer may still write are different
slots modulo `Size`, since the pointers are never more than `Size - 1` apart.
Proved: type correctness, `RingInv` (the bounds of the pointers), the three properties, and that the byte
protocol implements `MessageChannel` (`RingImplementsChannel`).

`WakeupsNotLost` needs more, and holds of a `SelectingReader` only: both sides in Lua,
every ringbuffer with its pipe, a reader that begins a read only when `select()` reports the pipe or a peek has shown a message, and a pipe with room for
a byte per message the ring can hold (`Size - 1 < PipeCap * HdrLen`). The first part of `PipeInv`
counts: the bytes in the pipe and the one the writer is about to write are at least the unread messages and
the byte the reader is about to take, so a sleeping reader with an unread message
finds a byte. Of a reader that reads until `nil` it is false (disagreement 13). That no byte is dropped follows from `SpacedInv`: unread
messages are at least `HdrLen` apart in a ring of `Size`, so there are fewer than
the pipe holds. A peek shows messages whose bytes
may still be to come, and is why the invariant follows the reader's program counter too.

**`EventQueueProofs`**, from `EventAssumption` (a finite set of clients). `IInv` ties
together what each thread knows: who holds the lock (`LockInv`), that the counter
is behind the queue by one only inside `evt_insert()` (`CountInv`), that the events
made are those saved and those on their way (`MadeInv`), that the queue is the rest
of the history after the event in hand (`QueueInv`), that `n` never exceeds what
was scheduled (`SchedInv`), and that events of open clients have a callback
(`EventInv`). `MadeInv` is there for the pipe: no byte is dropped because the queue
is never longer than the number of events made. Proved: type correctness,
`PipeMatchesQueue` (assuming `MaxEvents <= EvtPipeCap`), `FlushTerminates`,
`QueueImplementsChannel`, and for a script that registers callbacks before it
activates the client, with the kinds of callback the code handles right
(`Regular`), `AlwaysACallback`. Disagreements 8 and 9 show what happens otherwise. What callbacks are
told is no theorem: it is false of freewheel mode (disagreement 4).

`NothingLeaks` rests on `LeakInv`: the events saved are numbered in order (`NumberInv`), the event in
the main thread's hands is one of them and no longer queued (`EvtInv`), and as long as nobody
exits, an event is freed once if it is neither queued nor in hand, and not at all
if it is (`FreedInv`). With errors of other threads it is false (disagreement 1), so
it is stated up to the first one (`NothingLeaksUntilError`, which includes an exit without any), and that no
event is freed twice is proved for programs in which no other pthread fails (`EventsFreedOnce`).

**`ClientsProofs`**, from `ClientsAssumption` and `Disciplined`. The properties are not
inductive: that nothing is freed in use depends on which task is stopped by which
step of `client_close()`. `IInv` says that a callback runs only for an active, valid
client (`CallbackInv`) and a thread only for a valid one (`ThreadInv`), what a task
that searches or uses has found (`TaskInv`), that no client is active during an insertion
(`CreateInv`), so that no callback runs, what has been stopped at each step of closing (`CloseInv`), and that at
exit the clients left are all active or none is (`ExitInv`), without which the
counter would go wrong in `client_close_all()`. Proved: `CounterIsRight`,
`RefusalIsRight`, `CallbacksNeedNoLock` (realtime callbacks only: threads do run), `NothingFreedInUse`, `EndsQuietly`. The run
`clients_counter` shows that `Disciplined` cannot be dropped.

**`ThreadsProofs`**, for any threads, contexts and clients. `IInv` has three parts:
who is between taking and releasing the error lock and what is written by
then (`ErrInv`), who still has to close a state, by where the thread is
(`EntryInv`), and which thread and client the main thread works on
(`MainInv`). Cancellation at any step is the hard case: `Die` may leave the
error lock taken forever, and the parts say only what holds nevertheless. Proved: type
correctness, `ClosedOnce`, `MessageWhole`, `FirstErrorKept`; and when no thread
signals (`NoThreadSignals`), from `SInv`, which says whose each lock is and that a signaller that holds
the lock of a waiting thread has yet to signal it, `SignalWakes` and `LockAlive`. They hold with any number of clients
whose callbacks signal each other's threads; `SInv` lets such a callback hold a lock that was destroyed.

**`ProcessProofs`**, from `ProcessAssumption`. The properties about buffers hold only as
long as no change of the marks is lost and no error ignored (`Undisturbed`), and the
inductive invariant carries that condition: inside the process callback the mark is
set and the buffers are this cycle's; outside neither is there, *unless*
LuaJack exits, since the error path resets nothing and relies on
`luajack_exiting()` in the next `BEGIN` (`MarkInv`, `BufInv`). `StackInv` says the same of the
stack. Proved: type correctness, `GetBufferIfMarked`, `BufferOfThisCycle`, `StackDoesNotGrow`; and for a `Disciplined` script, from `DInv` (no
callback during a chunk or after the first step of closing, functions are there in an open
state), `BufferOfLivePort`, `NeverUnexpected`, `StateUsedByOne`.

**`PortBufferProofs`**, from `PortBufferAssumption`. `IInv` says of each port (`PortInv`) that
its buffer has the period's length if it is audio, that the cursor is at most `nframes`, that
`nframes` is the length of the buffer unless it is a MIDI output, and that what was
taken or given is what comes before the cursor. The lemmas are about segments of
sequences: `OverwriteIs` (samples put at the cursor extend the prefix and nothing
else), `SegmentIs`, `PrefixOfSegment` (what `copy()` takes when it stops early is a prefix of
what it was asked for). Proved: type correctness, `NeverOutside`, `ScriptSeesStreams`, for any ports, periods, events and
arguments. The ports that are `astray` are excepted. That some number of events satisfies `Accepted`, that is, that the loop of
`copy()` ends, would need induction; TLC sees it in `buffer_cycle`.

**`MidiProofs`**, from `MidiAssumption`. The work is in two lemmas about operators:
`EncodedReturns` (whatever the encoding functions accept is a well-formed message and is
decoded to what it was made of) and `EncodedAgain` (a message with legal data
that is decoded to something that can be encoded is encoded to its own bytes).
They rest on the tables (`Types`: no two names have one type, voice messages have the
multiples of 16 below 240), on the arithmetic of status bytes, 14-bit numbers and
nibbles, and on the four bytes of a time (`Unpacked`). `MidiInv` says that all the script
has follows from what it began with. Proved: `AlwaysWellFormed`, `DecodedAsEncoded`,
`EncodedAsReceived`, for all channels, data and times; TLC has the ends and the carries.

**`TransportProofs`**, from `TransportAssumption` (JACK's positions fit their types). `PosInv` says that the table is the
position queried, overridden by the changes, and that what was requested is what the
table says. `KeyTells` is the lemma that matters: a table has a part's key exactly
when the position had the part. Proved: `PositionKept`, for integers of any width and any
number of changes; `StoredFits` says that what is stored fits its type.

### Only model-checked

- Liveness (`EveryMessageRead`, `EveryEventHandled`, `ErrorReachesScript`,
  `ExitCompletes`, `ErrorRegistered`, `CloseCompletes`): temporal properties under
  fairness are out of TLAPS' reach.
- Absence of deadlock (`ENABLED` is out of reach too).

## Not modelled

- Time, latency, server control, parameters, sessions' replies, connections and aliases
  of ports, and of the transport all but positions: calls forwarded to JACK with a conversion of arguments; they
  keep no state of LuaJack.
- The values of statistics and of profiling: `Process` has the mark that switches it.
- Lua itself, allocation, the layout of messages, `utils.c`'s copying of values
  between states: data the properties do not tell apart.
- Creations that fail halfway (`src/thread.c:182`): they leave a `pthread_t` unset.
- Two writers of one ringbuffer, which JACK forbids and LuaJack does not prevent.
- Memory ordering: steps are sequentially consistent. JACK's ring has no barriers
  of its own in some versions, which is JACK's matter.
- `getopt.lua`, `shell.lua`, `queue.h`, `tree.h`: vendored or a toy; the tree is taken
  to be a set, with the hazard that it may not be changed while it is searched.

## Plan

1. A composition of `Clients` with `EventQueue` (what closing does to queued events,
   with the counter), and of `Threads` with `Clients`.
2. Creations of threads that fail halfway (`src/thread.c:182`), with the undefined
   `pthread_t` as a choice.
3. The refinement of `PortBuffer` from a specification of streams.
