# Parabellym in TLA+

Parabellym runs *modules* (shared objects, each with a thread of its own) in one
process and lets them talk by *messages*: a module subscribes to names, sends
messages under a name to everybody who subscribed, or sends one that requires a
response to a single subscriber and waits for it. This directory holds TLA+
models of `src/trunk`, and of those parts of the older `src/branches/scons` that
differ from it, the TLC configurations that check them and TLAPS proofs about
them. It refers to sources by path below `src/trunk/`; paths that begin with
`scons/` are below `src/branches/`.

## 1. Inventory

| Part | State | Operations | What is hard about it |
|---|---|---|---|
| Semaphore `util/sem.{h,cc}` | `scount`, `wcount`, a condition variable; a mutex of its own (`sem`) or the caller's (`seml`) | `wait` (timed or not), `waitex`, `post`, `broadcast` | a signalled sleeper runs later than others; spurious wake-ups |
| Queue `core/msgq.{h,cc}` (`msgq::body`) | `packetlist`, `siglist`, `psem`, `roster`, `refc`, the table `qstock` | `post`, `signal`, `signal_bc`, `peek`, `subscribe`, `unsubscribe`, `attach`, `detach` | several receivers; lists tested apart from `psem`; `refc` used outside the mutex |
| Identifier table `util/stock.h` | `ptr_data`, `ptr_free`, `cnt_data`, `idx_seed` | `add`, `get`, `remove`, iteration | reuse of slots, the serial number's wrap, growth of two arrays that can fail for one |
| Messages `core/message.{h,cc}` | `msglist`, each message's `roster` | `find`, `subscribe`, `unsubscribe`, `send` | two rosters in two critical sections; sends to a copy of the roster |
| Dispatchers `core/mdisp.{h,cc}`, `core/exposed.cc` | `queue`, `blocked`, `repd`, `reps`, `lastmsg`; one per thread, in a thread key | `msg_send`, `msg_receive`, `msg_reply`, `msg_attach`, `msg_signal`, destructor | a raw pointer to a waiting sender; the answer is written into the sender's state |
| Modules `core/mdispb.cc`, supervisor `core/mdisps.cc`, stub `stub/console/stub.cc` | `mdispb::stock`, `mrsem`, each thread's progress | `mod_load`, `body`, `~mdispb`, `wait_unload`, `core_shutdown`, the SIGINT handler | exit races with the wait for it; a handler that waits on the thread that waited |
| Packets `core/msgp.{h,cc}`, `util/put*.cc` | one block of memory | build, `map`, `clone`, `free` | sizes and layout that must agree; widths |
| Page allocator `util/memory.{h,cc}` | a chain of pages, a stack of free blocks in each | `pmalloc`, `pmfree` | one size of block to a page |
| Lists `util/list.h` | array, count, capacity | `add`, `remove`, `push_back`, `pop_front`, copies | `remove` changes the order |
| Time stamps `util/ftspec.{h,cc}` | seconds, milliseconds | sums, differences, comparisons | carries, widths, all ones for now |
| C++ wrapper `core/plus.h` | maps name/identifier, `mRunLoop` | `subscribe`, `send`, `run`... | maps that must agree with each other and with the library |
| Self-testing module `mods/autotest/test.cc` | `children`, `csem`, the slave threads | spawn, receive, pass `sigend` on, count out | a counter that nothing guards; one queue for all the threads; code that is unmapped |
| Test modules `scons/mods/test-{send,wait}` | what was sent and heard | find, notify, ask, answer, quit | each waits for the other, in any order of start |
| scons semaphore and queue `scons/util/sem.cc`, `scons/core/msgq.cc` | `pcount`, a condition variable | `post`, `waitex`, `peek` | signals before it counts; does not count who waits |
| Option parser `scons/util/fugetopt.cc`, used by the stub | `optind`, `place`, `nonopt_start`, `nonopt_end`, `argv` itself | `getopt`, `permute_args`, `gcd` | permutes in place, by cycles of swaps, more than once |
| Mutex, thread keys, CRC, loader, debug log | | | |

How they interact. A thread calls `para_msg_*` (`exposed.cc`), which finds its
dispatcher in a thread key. `msg_send` goes through `message::send`, which copies
the message's roster under `msglist.mx` and posts a packet to each queue of it
but the one the sending thread is attached to; a request then waits in the sender's `reps`. A receiver's
`msg_receive` first answers, with nothing, whoever its previous message left
blocked, then peeks its queue, and `lastmsg.map()` notes the new sender in
`blocked`. `msg_reply` stores the answer in the sender's `repd` and posts its
`reps`. The supervisor's `core_shutdown` signals every queue in `qstock` and
waits on `mrsem`, which every `~mdispb` posts.

What makes each part correct: the semaphore loses no post and wakes nobody
without one; the queue hands out every entry once, signals first, packets in
order, and leaves no receiver asleep over one; an identifier leads to the object
that keeps it as long as that object lives and to nothing afterwards; a queue is
alive while it is used; a message is registered exactly while somebody is
subscribed, with an identifier that does not change under its users, and a queue's
own list names every message it receives; a request is in one place, is answered once, and its sender returns with
the answer to it; the supervisor sees the last module's exit, reports success
only after it, and gets there; a module that spawned threads leaves after the
last of them counted itself out; a parser loses, doubles and reorders nothing.

The hazards of the code, each at its line and with the property that would catch
it, are listed in `PROJECT.json`.

## 2. Modules

| Module | Models | Kind |
|---|---|---|
| `Semaphore` | what a counting semaphore promises | abstract |
| `Seml` | `seml` over a condition variable; implements `Semaphore` (proved in `MsgqBodyProofs`) | detailed |
| `Mailbox` | what a queue promises its receivers | abstract |
| `MsgqBody` (extends `Seml`), `MsgqBodyProofs` | `body::post`, `signal`, `peek`; implements `Mailbox` | detailed, proofs |
| `SconsBody` (extends `MsgqBody`) | the same on the scons branch's semaphore; implements `Mailbox` (in `MsgqBodyProofs`) | detailed |
| `Autotest` (extends `MsgqBody`), `AutotestProofs` | the self-testing module and its slaves on one queue | composition, proofs |
| `MCMsgqBody` | `MsgqBody`, `SconsBody`, `Autotest`, one at a time | TLC |
| `IdMap` | what the identifier table promises | abstract |
| `Stock`, `MCStock` | `stock<T>` and its users' constructors and destructors; implements `IdMap` | detailed, TLC |
| `List` | what a list promises | abstract |
| `ListUt` | `list_ut<T>`: the array, its growth and copies; implements `List` | detailed |
| `Pageman` | the pool of blocks | detailed |
| `StockProofs` | the table, the list and the pool, which keep entries | proofs |
| `Packet` | a message in one block of memory | detailed |
| `Ftspec` | time stamps | detailed |
| `GetOpt` | the scons branch's option parser, against a direct reading of the command line | detailed |
| `DataProofs` (extends `StockProofs`) | times, packets, the option parser | proofs |
| `MCParts` | `Stock`, `ListUt`, `Pageman`, `Packet`, `Ftspec`, `GetOpt`, `Seml`, `MsgqRef`, one at a time | TLC |
| `MsgqRef`, `MCMsgqRef`, `MsgqRefProofs` | `refc`, `attach`, `detach`, handles and their assignment | detailed, TLC, proofs |
| `Rendezvous` | a call: queued, taken, answered, returned from | abstract |
| `Mdisp`, `MdispProofs` | dispatchers over abstract queues; implements `Rendezvous` | detailed, proofs |
| `Selftest` (extends `Mdisp`), `MCMdisp` | the pair of test modules (proved in `LifecycleProofs`) | composition, TLC |
| `Registry`, `RegistryProofs` | `message.cc` and the queue's own roster | detailed, proofs |
| `PlusModule` (extends `Registry`), `MCRegistry` | a C++ module object over the registry (proved in `RegistryProofs`) | composition, TLC |
| `Lifecycle` (extends `Mdisp`), `MCLifecycle`, `LifecycleProofs` | supervisor, module threads, SIGINT | composition, TLC, proofs |

Composition follows the code's layers: `MsgqBody` contains the semaphore's
actions; `Mdisp` uses what `Mailbox` says instead of `MsgqBody`; `Lifecycle`
takes `Mdisp`'s actions and adds the conditions under which a module's thread
can make them, and counts `mrsem` as `Semaphore` says. `Autotest` and `Selftest` are
programs over the library: what their threads call is an action of `MsgqBody` or
`Mdisp`, guarded by where the thread is in its own code.

### Correspondence

A module's tuple of variables (`stockVars`, `vars`, ...) stands for the members of a
class, and its next-state relation for that class's operations; `map` in
`PROJECT.json` gives both their lines.

*Seml.* A step is one critical section of the mutex. `waitex` is `WaitThrough`
when the count lets it through, else `Sleep`, then `Resume` or, after a wake-up
that found the count taken, `Resleep`; `CondSignal` wakes one sleeper if there is
one. `Rouse` is a wake-up nobody sent: POSIX allows it and the timed `wait`,
whose loop tests only the count, turns its time-out into one.

*MsgqBody.* `PeekNow`, `PeekThrough`, `PeekSleep`, `PeekWake` and `PeekResleep`
are the ways through `peek`: with something on a list, with a count in `psem`,
to sleep, out of it, and back. `Take` is what follows: a signal, else a packet,
else `PEC_MSGQ_ERROR`. `PostDropped` is a post whose `push_back` fails for want
of memory while `psem` is posted all the same (`AllocMayFail`).

*SconsBody.* The branch's `pcount` is `scount`; there is no `wcount`. `SconsPost`
signals, then counts, in one critical section. `broadcast` and the timed `wait`
have no caller in the branch and are left out (section 6).

*Autotest.* `pc` says where each thread is. `Spawn` is `pthread_create` and
`++children` in one, since no slave touches `children` before `sigend`, which the
main thread sends after its loop. `Read` and `Write` are the two halves of
`--children`. `Tell` sends `sigend`, `Check` and `CheckAgain` are the loop around
`csem.waitex()`. `Received` is a receive that returns, `Receiving` one that
sleeps; what a thread does not heed it ignores. Memory for a signal's entry does
not run out. `SayUnload` is the library's PSIG_UNLOAD.

*Stock.* An operation is a step (one mutex from end to end). `AddReuse` pops a
free slot, `AddGrow` first adds a page, `RemoveHeld` and `RemoveUnheld` are
`remove` of an identifier that is or is not in its slot; `Construct` and
`Destruct` are the only callers. `AddFails` is a `realloc` that returns NULL, for
either array or for both. `add` then stores neither result, so an array for which
there was memory may have moved (or not) while its old address is kept:
`dangling` says which of the two pointers is left like that. From there on
nothing is known of the table: `AddWrecked` is an `add` that returns an
identifier of `Garbage`, `Destruct` then changes nothing that could be told, and
`Answers` is what `get` may return. `Intact` says that neither pointer dangles and
that the limit of line 11 was kept; it is the condition of the table's
properties, and the opposite is `lost` in `IdMap`. Identifiers are
`seed * SlotSpan + slot` with the code's `|` where a slot number runs over.
`idof` is the identifier an object keeps; `issued` is a history of the last
`Window` identifiers.

*ListUt.* An operation is a step. `data` is the allocated memory, so `Len(data)`
is `allocated`; `Junk` is what no entry was written to. `upward` says whether this build's `memcpy()` copies
upwards; `Moved` is what the cells may be after a removal: the tail one cell down if
it does, and otherwise, since the ranges overlap, any mixture in which each cell has
got one of the entries behind it. A push that finds no
memory, and a removal that finds no entry, change nothing and are no steps.
`Copy` and `CopyFails` are `operator =` with and without memory; `gone` is what
the last removal was asked for or returned.

*Pageman.* `Candidate` is the search of the chain, `Fits` the comparison in
`pagehead::alloc`. `held` is a ghost: which blocks callers have, and how large
they think they are.

*Packet.* A block is a set of fields, each with place, length and contents;
`Need` is the constructor's sum and `Written` what it then puts there, `MapPacket`
what `map` reads at the places it computes. `sent` is a ghost.

*Ftspec.* `Assign`, `Increase` and `Decrease` are `=`, `+=` and `-=` of a number;
`Of` is the conversion that turns all ones into the present. `elapsed` is a ghost.

*GetOpt.* `argv` holds the numbers of the words, so that a permutation shows;
`place` is the rest of the word it points into. Each action is one way through a
call of `getopt`, up to a return or to the next word. `Permuted` is `permute_args`: a
`cycle` for each turn of its outer loop, `Turns` for the swaps of the inner one.
`gcd` is the code's loop as a recursive function. `Reading` is the reference, what the
words say without a permutation: `Follow` says what each letter of each word adds
to what the following ones say.
`optreset`, `optind = 0` and `W;` have no caller and are left out; the stub's own
call is the option string `MainOptions`, in POSIX mode.

*MsgqRef.* One queue. A thread's dispatcher has a handle to it (`own`) or not;
`pc` says where its temporary handle is. `Lookup` and `Attach` are the two
critical sections of `msgq(int)`, `Drop` and `Adopt` the two halves of an
assignment from that temporary, `Release` its destructor, `Move` an assignment
from another queue, `Exit` the module's end; whatever detaches goes on with
`Check`, the part of `detach` after the mutex. `FreshRefc` is what the
uninitialised `refc` may hold, `fresh` a ghost of it.

*Mdisp.* `Ask`/`Notify`, `PostOne` and `Return` are `msg_send`; `Receive` and
`Serve...` are `msg_receive` around its `peek`; `Reply` and `Announce` are
`msg_reply` before and after `reps.mx.enter()`; `Exit` is the destructor.
`Announce` waits while the sender holds `reps.mx`, that is, in `asking` or
`notifying`. `serial` is a ghost that tells a sender's requests apart.

*Selftest.* Each step of the two modules is `Mdisp`'s and what the module does
around it. `phase` is the sender's progress, `texts` what its packets say, which
`Mdisp` abstracts from, `heard` and `owes` the waiter's. The trunk's `test-wait` is
the same program but for a signal that its own `api.h` does not define.

*Registry.* `Subscribe`/`Note` and `Unnote`/`Unsubscribe` are the two critical
sections of each call, in the code's opposite orders. `Send` copies the roster,
`PostOne` posts to the next queue of the copy, `PassOver` goes past the one the
sending thread is attached to. `ModuleOf` says which module a thread belongs to
(a module is named by its main thread's queue) and `QueueOf` what its dispatcher is
attached to, possibly nothing: such a thread can send (`Calls`) but not subscribe or
receive (`CallsAttached`). Attachments do not change; `Mdisp` has `msg_attach`.
`order` is a ghost: who subscribed first.

*PlusModule.* Each operation of an object is the registry's action and what the
wrapper does around it: `PlusSubscribe`/`PlusSubscribed` and
`PlusUnsubscribe`/`PlusUnsubscribed` are a call and its return, which changes
`mFwdMap` (`fwd`) and `mRevMap` (`rev`). `running` is `mRunLoop`. `Run`, `HandMessage` and `Quit` are the run
loop; `handed` is what `on_message` was called with for the last message. Both
kinds of `send` are `PlusSend`, since the code sets `rreq` to false in both.

*Lifecycle.* `Load`, `LoadFails`, `Loaded` are `mod_load`; `Start`, `Leave`,
`Free`, `Unlist`, `Tell`, `Destroy` the module's thread from `body` to the end
of its destructor; `Enters`, `SignalOne`, `Signalled`, `Check`, `Wake` are
`core_shutdown`; `Interrupt` is the stub's handler.

## 3. Runs

Passing runs.

* **MsgqBody**: a behaviour takes up the trunk's queue, the scons branch's or the
  self-testing module. For the queues, three receivers, two packets, two signals,
  four counts: a receiver asleep, one woken, one that overtakes it; posts whose
  entry is lost. Checks `EntriesCounted`, `NoLostWakeup`, `ImplementsMailbox`. For the
  module, a main thread and two slaves, any of which may fail to start, and two
  PSIG_UNLOADs: `SlavesCounted` (whatever updates of `children` are lost),
  `EveryoneTold` (one `sigend` reaches all) and `LastQuitSeen` (the main thread does
  not sleep through the last departure).
* **Parts**: a behaviour takes up one of eight parts.
  The identifier table has three objects, pages of two, four slots, five slot
  numbers, three serial numbers: it grows twice, every serial wraps, slots are
  reused in every order, and each growth may fail for one array or for both:
  `FreeListExact`, `LiveIdsResolve`, `NoEarlyReuse`, `ImplementsIdMap`.
  The list has two values and four cells, so it grows twice and is cut everywhere,
  full and empty, by both kinds of `memcpy()` (an increment of more than the
  minimum, from sixteen cells on in the code, is not reached): `ImplementsList`.
  The pool has two pages of two blocks and two sizes: `BlocksExact`. Packets
  carry up to two attachments of sizes 0, 1 and 2, from senders whose addresses
  use all four bytes: `PacketFits`, `PacketCarries`. Times have four milliseconds
  to a second and an integer of eight values, so every carry, borrow and wrap
  occurs: `TimeExact`. Command lines have up to six words of four kinds, so that
  blocks of every two lengths up to six words are exchanged, some twice, and up
  to three words of thirteen kinds, for four option strings: `ParseExact`,
  `BlocksNotEmpty`.
  The semaphore has four threads and at most six undelivered posts. Broadcasts
  need at least two sleepers, and a third thread that comes through while one is
  woken; four gives each role a thread: `WaitersCounted`, `NoLostPost`,
  `ImplementsSemaphore`.
  A queue has a module and two threads that signal it, join it and leave it, with
  the module's exit at any time, and a counter of 16 values that began at 0, 1, 2,
  9 or 15. `CountsHandles` holds from all of them; `DeletedUnheld` and `NoLeak` say
  what is right about deleting when the counter began well (`Sound`,
  `fresh = 1`); **MsgqRefFresh** shows that it need not.
* **Mdisp**: two modules, a client that asks the first, which asks the second
  while it serves; a client's notification, a worker that joins a queue, an exit and signals.
  Checks `OnePlace`, `OwnAnswer`, `AnswerNotTorn`, `ImplementsRendezvous`. In other
  behaviours the two modules are the test modules, started in either order:
  `SelftestEnds`, neither waits for the other for ever.
* **Registry**: a module of two threads on one queue and a C++ object with a queue
  to itself, whose module exits; two names, two identifiers, so that a name can be
  given up and taken again while others hold its former identifier or send under
  it. Checks `RegistryExact`, `IdFixed`, `RosterListsReceived` (the two threads
  subscribe and unsubscribe one queue at once, in two critical sections each; no
  message the queue receives is missing from its list when they are done), and of
  the object `MapsMirror` and `HandedByName`: a handler is called only for what its
  module is subscribed to at that moment, though the library delivers late packets
  (section 6). The third identifier, and any number of threads to a queue, are the
  theorems' (section 4).
* **Lifecycle**: two modules that load or fail to, exit by themselves (one) or
  when told to, a thread that asks both and may join one, the three shutdown modes. Checks `ExitSeen`,
  `ModuleExitAnswers`, `ShutdownAfterUnload`, `EmergencyReturns`.

Runs that show where the code departs from what its documents say; each checks
one property.

* **MsgqBodyDrift** (`ReceiveBlocks`): counts left in `psem` let a receive
  through on an empty queue.
* **MsgqRefFresh** (`UsedAlive`): `refc` was zero, and a signal that a module
  sends to itself destroys the queue it is using.
* **RegistryFirst** (`FirstServed`): after an unsubscription a request does not
  go to the first subscriber.
* **LifecycleAsk** (`EmergencyReturns`): a module that asks one that has been
  told to unload is never answered, and the shutdown hangs.
* **LifecycleInterrupt** (`WaitSucceeds`): the handler's wait consumes the post
  that the interrupted wait needs.
* **StockHalf** (`MapsIds`): the table grows while there is memory for one of its two
  arrays only, and an identifier of a live object leads anywhere.
* **RegistryEcho** (`NoEcho`): a thread of a module that has not attached to a queue
  sends, and its own module receives it.

Deadlock is checked except in `MsgqRefFresh`, `Mdisp`, `Registry*`, `Lifecycle*` and
`StockHalf`, where threads return and the system may stop, and in `MsgqBody`, where the test
module ends, or waits for ever after a lost update of `children` (section 6).

Type invariants that are proved (section 4) are not repeated in every run.

### Bounds

`MaxCount` (posts outstanding in a semaphore), `MaxPackets` (notifications stop
at so many in a queue), `MaxSignals`, `MaxUnloads` (PSIG_UNLOADs to the test module), `QueueCount` (posts
outstanding where anybody posts), `MaxCode` (identifiers given out), `MaxSlots`
(memory for slots), `MaxCells`, `MaxPages` (memory), `MaxDeletes`, `Window`. They are guards on what the environment sends,
never on what the library does with it. `Garbage` stands for whatever a wrecked table returns. `Wrap`, `SlotSpan` and `SeedCount` are the
widths of the code's fields, made small; the wraps happen within the bounds.

### Fairness

Weak fairness for a thread that is inside the library and can go on: nothing
there but the scheduler holds it up. `Parts`, for the semaphore, and `MsgqBody` ask that a woken
thread gets its mutex. `Mdisp` adds strong fairness of `Receive`: the manual
says a module receives in a loop, but between two turns it may send; and that
signals stop for good, as they are served before any packet. `Lifecycle` adds
that modules obey PSIG_UNLOAD and come back to receive, as the manual asks of
them. `Autotest` and `Selftest` ask that each thread of the module takes its next
step; their specifications, and those they share a run with, have the fairness
of the behaviour that is taken up only. Nothing is assumed of who loads, exits by
itself, sends, or interrupts.

## 4. Proofs

All for every value of the constants that satisfy the named assumptions.

* `SemlCorrect`: `SemlSpec => [](SemlTypeOK /\ WaitersCounted /\ NoLostPost)`.
  Inductive as a conjunction: the count of waiters is the cardinality of two
  disjoint sets, and a post that finds a sleeper moves it to `woken`, which
  `NoLostPost` counts.
* `SemlImplementsSemaphore`: every step maps to one of `Semaphore` or a stutter.
* `BodyCorrect`: `EntriesCounted` and `NoLostWakeup`. The invariant is the
  semaphore's with `Items <= scount`; `NoLostWakeup` follows, since a sleeper with
  an entry on a list would be a sleeper with a count. The semaphore's lemmas are
  reused: every step of the queue is a step of `Seml`.
* `BodyImplementsMailbox`: the safety part of `ImplementsMailbox`.
* `SconsLosesNoWakeup`, `SconsImplementsMailbox`: the same two for the branch's queue.
  Its invariant has no count of waiters; a sleeper still means that no more is
  counted than there are woken threads to take it, as a post wakes one sleeper
  if there is one.
* `AutotestCorrect`: `SlavesCounted`, for any number of slaves. The invariant says
  that `children`, and what any slave has read of it and not yet written back, is
  at least the number of slaves that have not written yet: a lost update leaves
  it too large. Before `sigend` is sent no slave counts, which rests on the
  queue handing out only what was put in (`TakenSignals`, `AppendedSignal`).
  `AutotestKeepsMailbox`: the module's threads take steps of `Mailbox` only.
  `NothingToldIsLost`: the safety that `EveryoneTold` and `LastQuitSeen` rest on. A
  `sigend` that was sent is in the queue or with a slave that will pass it on, and a
  main thread that waits with nobody left to count has been posted or is about
  to be. The steps of the queue enter it through what they do to the list of
  signals (`RoundInv`).
* `StockCorrect`: `FreeListExact`, `LiveIdsResolve`, `NoEarlyReuse`, and with them
  the types and that a removed identifier leads nowhere, each as long as the table
  is `Intact`: for any page size and memory, with growth that fails as a whole or by
  half at any time. The strengthening says that the slots are partitioned into
  free ones, once each on the stack, and held ones with the identifier their object
  keeps, that the serial number is as old as the history says, and that the table
  never becomes intact again.
* `StockImplementsIdMap` (`ImplementsIdMap`): from the same invariant; the abstract map
  is lost with the first growth that fails by half or runs over the limit of line
  11, neither of which the code prevents.
* `ListImplementsSequence`: the whole of `ImplementsList`, for any entries, minimum
  growth and memory, and any outcome of `memcpy()` on ranges that overlap. `List`
  promises the entries in their order where the copy runs upwards, and otherwise
  only that a removal keeps what was before the hole and puts nothing behind it
  that was not there. The invariant is only that an array holds at least `used`
  cells; the work is in what growth, `pop_front`, `remove` and copies make of the
  first `used` of them.
* `NoBlockTwice` (`BlocksExact`), for any number of pages and of blocks in one. The
  invariant `PagesInv` says of each page that its stack holds, once each, exactly the
  blocks that no caller has, and that a caller's block is as large as asked for.
* `TimesAddUp` (`TimeExact`), for any width of the seconds and any number of
  milliseconds to one. `TimeInv`: the stamp is in normal form and its value is the ghost.
* `PacketsFit`, `PacketsCarry` (`PacketFits`, `PacketCarries`), for any attachments,
  assuming `FourByteBuild`: `size_t` and a pointer have four bytes, and so have the
  addresses and the sizes of the packets that are sent, which the code does not
  check (section 6). The fields are shown to lie one behind the other, between
  edges that add up to `Need`, from which both follow: no two share a byte, the
  block is filled, and each is read back where it was written. `PacketInv` says that
  the block is always what the constructor makes of what was sent, so that a clone
  is the whole of it.
* `BlocksExchanged`: what `permute_args` does to two blocks of any lengths. `gcd` is
  shown to be a common divisor and a sum of multiples of its arguments; a cycle
  then returns to its start after `cyclelen` turns and not before, two cycles do not
  meet, and every place is in one. From it `NoWordLost` (`WordsInv`: `argv` is a
  permutation of the words) and `NoEmptyBlocks` (`BlocksNotEmpty`), by `ParserInv`,
  which says how the skipped words lie before the one at hand.
* `ParsesExactly` (`ParseExact`), for any command lines and option strings, assuming
  that words are sequences of `Chars` and that a letter takes no, one or an optional
  argument (`GetOptAssumption`). `CourseInv` relates each state to the reference:
  what was returned, and what the reference reads from the letter at hand on, are
  together what it reads from the beginning, for the options and the operands
  alike; what was skipped is in its order in front of the words not yet read, and
  these are where they were. Each action moves one piece from the second to the
  first. `Follow` and `ReadFrom` are recursive functions; that they are defined, and
  what they are, comes by descent from the end of the line (`DescentDefines`,
  `WordReads`, `ReadIs`).
* `RefCorrect`: `CountsHandles`, `NoLeak` and `DeletedUnheld`, for any finite set
  of threads and any width of the counter. The invariant adds to the types that
  a thread that assigns has a temporary handle and no other, which bounds the
  handles by twice the threads; under `Sound` the counter then is zero only when
  there is none.
* `MdispCorrect`: `OnePlace`, for any threads, queues and patterns of who asks whom. `OnePlace`
  counts the places of a request; the invariant `MdispInv` says the same without
  counting, for each pair of places that a request is not in both (`PlaceInv`), and
  needs besides what a thread has while it is somewhere in the library
  (`ThreadInv`: one that peeks serves nobody, one about to answer has somebody to
  answer) and which request a note is about (`AnswerInv`: a packet, a `blocked` and
  a posted answer name their sender's latest request, and between `repd` and the
  post the answer is already there). `ModulesAnswerOnExit`, `AnswersAreOwn` and
  `AnswersNotTorn` follow from it, the last two as action properties: only the
  thread that holds the request writes into its sender, and its sender is asleep.
* `MdispImplementsRendezvous`: every step is one of `Rendezvous` or a stutter. A
  request's stage is a function of its place, so `PlaceInv` gives `StageInv`, and
  each step is shown to move one request by one stage and no other.
  `MdispTypes` has the types.
* `UnloadedBeforeReturn` (`ShutdownAfterUnload`), with the signal handler at any
  moment: `rc` is success only while `stock` is empty, and `stock` is the modules
  whose thread has not taken itself off it. `ExitsSeen` (`ExitSeen`), without it:
  a supervisor that sleeps has a module on the list, one about to post, or a
  post. `RequestsOutliveModules`: `Lifecycle` adds guards to the dispatchers' steps
  and no step of its own on their state (`DispatcherStep`), so `MdispInv` carries over,
  and with it `AnswersOutliveModules` (`OwnAnswer`, `AnswerNotTorn`) and
  `LifecycleImplementsRendezvous`, with modules that come, go and are interrupted at
  any moment. `LifecycleTypes` has the types.
* `WaitsMet`: the safety that `SelftestEnds` rests on, by `TalkInv`. The number of
  messages posted follows from where the sender is, and that of those taken from
  the length of the queue; what is in the queue is the messages between the two, in
  order, each with its sender where it is a request. So a waiter that has heard
  "end" has a sender that is done, and one that has not has either a packet or a
  sender with something to post. The waiter answers before it receives again
  (`owes`), so that the library never answers in its place.
  `SelftestImplementsRendezvous`: the two modules use the dispatchers only by their
  operations. These two assume the two modules to be different
  (`SelftestAssumption`); nothing else in their file uses that.
* `RegistryCorrect` (`RegistryExact`), `IdsFixed` (`IdFixed`): the invariant adds
  that codes in use are no newer than the last one given out, and rests on what
  `list_ut::remove`, which moves the last entry into the hole, does to a list
  without repetitions (`ListRemoved`). `ListsAgree` (`RosterListsReceived`), for any
  number of threads to a queue, attached or not: `ListsInv` says that a code under which
  a queue receives is in the queue's list, or some thread of that queue is between
  its two critical sections with that code and has yet to add it or to give it up. (That the
  list has nothing else is false, section 6.) `RegistryTypes` has the types.
* `WrapperUsesRegistry`, `MapsFollow` (`MapsMirror`), `HandlersCalledByName`
  (`HandedByName`), for any number of C++ objects and of other threads, assuming that an
  object's thread has its queue to itself (`AloneOnQueue`; what others do with its
  queue it does not see, section 6). `PlusInv`
  says of each object that its two maps are inverse to each other and have the
  names its queue is in the rosters of, but for a subscription that has not
  returned; it needs that codes are not shared (`RegistryExact`) and do not change
  under a subscriber (`IdsFixed`'s lemma), and that a message is handed on by a code
  that is looked up in the map at that moment.

The library's induction theorems take an operator, which the provers here cannot
instantiate. `LeastElement` and `SetInduction` (in `StockProofs`) state induction over
the natural numbers of a set instead, and are proved from the well-foundedness of
`<`; `gcd`, the cycles, the sums of a packet's sizes and the reference of the option
parser rest on them.

Only model-checked: liveness everywhere (`EveryoneTold`, `LastQuitSeen`,
`SelftestEnds`, `EmergencyReturns`), since fairness and ENABLED are beyond TLAPS. For
the same reason the theorems about `ImplementsSemaphore`, `ImplementsMailbox` and
`ImplementsRendezvous` have the safety part of the abstract specification, and TLC
checks it with its fairness. Of the properties that are found violated none is, of
course, proved.

## 5. What is not modelled

Name hints, library loading and logging: pure copies, wrappers and output.
Mutexes are the atomicity of steps; the recursive ones are never entered twice on
a path that would matter. Signals and replies of the C++ wrapper. Packets that
could not be allocated. A roster that cannot grow for want of memory. The
contents of messages, but for whose answer it is.

Of `branches/scons` what is its own is modelled. The rest is an earlier copy of
the trunk's code, line for line, but for declarations, that a notification to
nobody is no error in its `core/message.cc`, that PUC_WAIT is handled before the other modes
in its `core/mdisps.cc`, and that its `mdispb` has no `ready`. Its `daemon.cc`,
`fustring.h` and `strlcpy.cc` are wrappers around the system and the C library.

## 6. Disagreements met, without a run of their own

They are kept for later runs; each was seen in a model.

* `util/stock.h:129`: the serial number is 15 bits wide, so an identifier comes
  back; the manual says a message registered again is never given the same one
  (`docs/docbook/app.funcref.docbook:322`).
* `util/stock.h:133`: it passes through zero, so slot 0 gets the identifier 0,
  which the manual (line 526) calls no identifier and `signal_bc` skips.
* `util/stock.h:111`: nothing keeps the table below the limit of line 11: slot numbers
  then run into the serial number, and two live objects can have one identifier.
  And `remove` (`:171`) of the -1 of an object that was given no identifier then names
  slot 0xffff and, if that is unused, frees it a second time.
* `core/msgq.cc:154` and `:26`: `refc`, and not the `tmp` that was read under the
  mutex, is compared after it is released, so two threads that let go can both
  delete; and a body found in `qstock` is attached to later. `MsgqRef` has both:
  `deletes` reaches 2, and `UsedAlive` fails from 1 as well.
* `util/list.h:190`: `memcpy()` between ranges that overlap. Where it does not copy
  upwards packets are doubled and lost; `List` promises no more than that there
  (`exact`).
* `util/putptr.cc:25`, `core/msgp.cc:44`: an address keeps four bytes, and a block
  is allocated for more than is written where pointers or `size_t` have eight
  (`core/msgp.cc:70` asserts that it is not). `Parts` takes a four-byte build; with
  `PtrSize = 8` `PacketFits` fails, with a sender beyond `Base^4` `PacketCarries`.
* `core/exposed.cc:50`: the dispatcher of a plain thread is never deleted, so
  its exit leaves the sender blocked (manual, line 418).
* `core/message.cc:145`: a packet can arrive after the unsubscription (line 561).
* `core/mdispb.cc:26`: an exit does not unsubscribe (line 565).
* `core/msgq.cc:226`: two threads of one module that subscribe and unsubscribe
  at once can leave a code in the queue's own roster that it does not receive any more;
  the other way round is excluded (`RosterListsReceived`).
* `core/plus.h:133`: two objects on one queue, or an object and a thread that calls the
  library, do not see each other's subscriptions; `erase` is then given an end
  iterator.
* `core/plus.h:173`: the send that is meant to return a response (line 165) does
  not require one, and returns its own attachments.
* `core/plus.h:249`: an error from a receive ends the run loop, so after a message
  that was found waiting (`MsgqBodyDrift`) a module leaves of itself.
* `core/mdisps.cc:45`: PUC_NORMAL reports modules without looking (line 42).
* `core/mdisps.cc:64`: `mod_load` does not wait for `ready`, which is gone when
  the new thread posts it (`core/mdisp.h:75`).
* `core/mdisp.cc:71`: a thread that joined a module's queue can take the
  module's PSIG_UNLOAD.
* `mods/autotest/test.cc:42`: a lost update of `--children` leaves the main thread
  waiting for ever, and the shutdown with it. A slave may take the PSIG_UNLOAD
  meant for the main thread, with the same end, and a slave whose attach fails
  is never counted out.
* `mods/autotest/test.cc:44`: a slave is still executing `csem.post()`, or its
  return, when the main thread leaves and the library is unmapped (manual:
  "continuing to execute code from an unloaded library will result in errors
  fatal for the environment").
* `core/message.cc:151`: a notification that nobody receives fails with
  NO_RECIPIENT, which the manual has for requests.
* `mods/test-wait/test.cc:31`: PEC_MOD_SIGNAL, which no header defines. Told to
  unload with a request in its queue, the module leaves the sender waiting, as in
  `LifecycleAsk`.
* `scons/util/sem.cc:53`: a timed wait that slept does not take the count it was woken for;
  `broadcast` wakes everybody and adds one to the count.
* `scons/stub/console/stub.cc`: the result of `getopt` is kept in a `char`, which is
  never -1 where `char` is unsigned.
* `scons/util/fugetopt.cc`: a word such as `--foo` ends the options silently.

## 7. Plan

What could follow.

1. The wrapper's run loop over `MsgqBody`, and its send for a response over
   `Mdisp`; signals and replies of the wrapper.
2. The queue's lists as `ListUt` in `MsgqBody`; posts from several threads with
   a packet that was not allocated.
3. A proof that the wrapper's calls and the dispatchers', which are modelled apart,
   can be put together.
