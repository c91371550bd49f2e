# Verification of RT-Thread (rt-thread-LCD-OX)

TLA+ models, TLC model checking and TLAPS proofs for the RT-Thread kernel (v5.1.0, uniprocessor, STM32F407)
and for the noughts-and-crosses application built on it
(`src/bsp/stm32/stm32f407-atk-explorer/applications/OXGame.c`).

`PROJECT.json` lists the components, the runs, the source lines each definition stands for, the mutants that
show each property can fail, the findings, the hazards and the theorems.

## The system

The application is small and uses the kernel the way applications do: three threads and a shell command share a
game and an LCD under one mutex, two interrupts feed them through a semaphore each and through a ring buffer.
The kernel parts below it carry the promises: the mutex that ownership is exclusive and that no thread waits
behind a less urgent one, the ring buffer that bytes come out as they went in.

| Component | State | Operations | Interaction | What is hard | What makes it correct |
|---|---|---|---|---|---|
| Ring buffer (`components/drivers/ipc/ringbuffer.c`) | pool, read/write index and one mirror bit each | put, put_force, get, peek, putchar, putchar_force, getchar, reset | called by drivers and threads | wrap-around; full and empty differ only in the mirror bits; forced writes move the read end too | it is a bounded FIFO |
| Ring buffer between an interrupt and a thread | the same words, not masked | putchar in the interrupt, getchar and reset in the thread | `cmd_rb` of OXGame.c | the interrupt falls between two stores of the thread | nothing lost, nothing overwritten, indices in the pool |
| OX game rules (OXGame.c) | board, cursor, player, step count, state, redraw flag | four cursor moves, place, reset, redraw, check_win | under `lcd_mutex` | fields that must change together; order of the win tests | the state is the outcome the rules give |
| OX game threads (OXGame.c) | program counters, `lcd_mutex`, `key_sem`, `uart_rx_sem`, `cmd_rb`, pins | shell command, key, LCD and command threads, UART indication, button interrupt | mutex, semaphores, buffer, pin interrupts | nested locking, delays and name prompts with the mutex held, two readers of a semaphore, interrupts switched off and on | screen follows the game, no input forgotten, nobody stuck |
| Mutex (`src/ipc.c`, with `thread.c`, `scheduler_*.c`) | owner, hold count, sorted suspend list, priorities, ceilings, taken lists | take (free, recursive, blocking, timed), release, setprioceiling, detach, timeout, drop of a deleted thread, change of a thread's priority | scheduler, thread timers, tick interrupt | chains of owners, waiters whose priority changes, timeout against hand-over, deletion of owners | exclusive ownership, sorted and exact lists, no inversion, priority given back |
| Waiting with a timeout (`ipc.c`, `thread.c`, `scheduler_comm.c`, `timer.c`) | suspend lists, thread state, thread timer and its flag | suspend to a list, dequeue, resume all, timer check, timeout | every blocking object | the tick interrupt lets other interrupts in between its two halves | a thread is woken once, by one cause |
| Semaphore (`src/ipc.c`) | count, limit, suspend list | take, release, reset, set limit, detach, init | interrupts, thread timers | a timeout being processed while another interrupt releases | no token lost or made up, nobody asleep beside one |
| Mailbox (`src/ipc.c`) | pool, count and two offsets, a list of waiting receivers and one of senders | send, urgent, recv, with and without waiting, reset, detach | interrupts, thread timers | a woken thread only looks again and may find another one was faster | a bounded queue; no wake-up lost |
| Message queue (`src/ipc.c`) | two linked lists of blocks (queue and free), a count, a list of waiting receivers and one of senders | send, urgent, recv, with and without waiting, reset, detach | interrupts, thread timers | the message is copied with interrupts enabled, so every call is cut in two | every block in one place; messages once, whole and in order; no wake-up lost |
| Event (`src/ipc.c`) | a set of flags, one suspend list, what each thread waits for | send, recv (all or any flags, with or without clearing), reset, detach | interrupts, thread timers | the sender decides what each waiter receives and what is cleared; the waiter runs later | nobody waits for what is there; no flag disappears unreceived |
| Threads and scheduler (`thread.c`, `scheduler_up.c`, `scheduler_comm.c`, `idle.c`) | ready queues, bitmap, lock nesting, defunct list | startup, suspend, resume, sleep, yield, close, control | all blocking objects | close and detach from any state | most urgent ready thread runs |
| Timers (`timer.c`, `clock.c`) | list ordered by deadline, tick counter, three flags per timer | init, start, stop, set time, set mode, detach, check in the tick interrupt | thread timeouts, drivers | the counter wraps; calls from the timers' own functions, with the timer on a local list | fires when its time is up, once, in order |
| Driver IPC (`components/drivers/ipc`) | completion flag, work lists, data queue | wait/done, submit/cancel, push/pop | interrupts and threads | waiting and completing at once | no lost wake-up |
| Memory (`mem.c`, `memheap.c`, `mempool.c`, `slab.c`) | heaps and pools | alloc, free | | layout arithmetic; blocking pool | no block twice |
| Objects, devices, serial, pins | registries, receive FIFO | register, find, open, read, indicate | | | |
| Everything else (HAL, CMSIS, libc, shell, file systems, network, LCD) | | | | I/O, text, vendored code | |

## Modules

| Module | Models | Kind |
|---|---|---|
| `BoundedFifo` | what a ring buffer promises | abstract specification |
| `RingBuffer` | every operation of `ringbuffer.c` that changes a buffer; refines `BoundedFifo` | component |
| `RingBufferIsr` | getchar and reset store by store, putchar between them; extends `RingBuffer` | composition with the interrupt |
| `OXBoard` | `struct OXGame` and what one input does to it | component |
| `OXGame`, `MCOXGame` | the threads and interrupts around `OXBoard` | composition |
| `Mutex`, `MCMutex` | the kernel mutex | component |
| `ThreadWait` | suspend lists, thread timers and the tick interrupt, for any blocking object | component, shared |
| `IpcObject` | what a semaphore and an event share: one suspend list, alive until detached; extends `ThreadWait` | component, shared |
| `Semaphore`, `MCSemaphore` | the kernel semaphore; extends `IpcObject` | component |
| `MailFifo` | what a mailbox promises | abstract specification |
| `Mailbox`, `MCMailbox` | the kernel mailbox; extends `ThreadWait`, refines `MailFifo` | component |
| `MessageFifo` | what a message queue promises, with calls that overlap | abstract specification |
| `MessageQueue`, `MCMessageQueue` | the kernel message queue; extends `ThreadWait`, refines `MessageFifo` | component |
| `Event`, `MCEvent` | the kernel event; extends `IpcObject` | component |
| `Countdown` | what timers promise, without a clock that could wrap | abstract specification |
| `Timer`, `MCTimer` | hard timers and the tick interrupt; refines `Countdown` | component |
| `RingBufferProofs` | theorems about `RingBuffer` and `RingBufferIsr` | proofs |
| `OXGameProofs` | theorems about `OXBoard` and `OXGame` | proofs |
| `ThreadWaitProofs` | lemmas about `ThreadWait` that the next three share | proofs |
| `IpcObjectProofs` | theorems about `Semaphore` and `Event` | proofs |
| `MailboxProofs`, `MessageQueueProofs` | theorems about the mailbox and the message queue | proofs |
| `MutexProofs`, `TimerProofs` | theorems about the mutex and the timers | proofs |

Definitions keep the names of the functions they translate (`put_force`, `check_win`, `uart_rx_ind`) or, for
parts of a thread's loop, are named after the thread and the step (`KeyScan`, `LcdDraw`, `CmdExec`).
Definitions introduced with the comment "Mutant" are not part of any specification: each is a definition with a
plausible slip in it, put in place of the original to see that the property named in `PROJECT.json` notices.

**RingBuffer.** `read_index`, `write_index` and the mirror bits are variables as in `struct rt_ringbuffer`;
the pool is a function from indices to bytes. One action per call, for any block of up to `MaxBlock` bytes. The
two-part `memcpy` is `CopyIn`/`CopyOut`, which write and read around the end of the pool; the arithmetic on
the indices and mirrors is that of the code, case by case. The refinement mapping reads the contents off the
pool between the two ends. `rt_ringbuffer_peek` returns a pointer to the contiguous bytes and consumes them; the
model delivers the bytes at the call.

**RingBufferIsr.** The program counter of the reader stops before each access of a word the other side uses:
the two words of the status test, the load of the byte, the mirror flip, the index store; for reset the four
stores. `write_mirror` and `write_index` are bit-fields of the word the interrupt writes too, so reset's stores to
them are a load of the word (`ResetLoad`) and a store of all of it: what the interrupt changes in between is undone.
Only the thread writes the word of `read_mirror` and `read_index`. `GetBurst` and `ResetBurst`
bound how many bytes the interrupt may put during one call. An interrupt is not interrupted by the thread, so
`putchar` is one step. `mixed` is a history variable: a byte came into a reset, and no reset has run undisturbed since.

**OXBoard and OXGame.** Every change of `game` happens under `lcd_mutex`; `OXBoard` has the changes and `OXGame`
the threads that make them. A step of a thread ends where another could see or influence the difference: at a
take that may block, a release, a semaphore operation, a delay, an access of `cmd_rb` or of the pins. Placing a piece
is two steps, the store to the board (`PutPiece`) and the stores to the other fields (`SettlePiece`), with every other
thread in between, so that it is the mutex and not the model that keeps them together (`PlaysByRules`). `cmd_rb` is
a sequence here and each of its calls a step; what an interrupt does inside them is `RingBufferIsr`. Take and
release are the ownership part of the kernel mutex: any thread that is not suspended may run, so lent
priorities make no difference, and the hand-over goes to the waiter of highest priority. The pixels are left
out: `shown` is what of the game is on the screen, `<<>>` after `LCD_Clear`. A name is its length, a character
one of the commands, `"eol"` for either line end.
The pins: an enabled interrupt fires on the press; `button_isr` disables it, which on this port
(`stm32_pin_irq_enable`) de-initialises the pin and switches its pull resistor off, so a disabled pin whose
button is up reads either level. `RT_NULL` and `GET_PIN(A, 0)` are both 0: a scan that sees no button executes
the OK case, as in the code.

**Mutex.** With one core, `rt_spin_lock` is the scheduler lock: a call is one step up to its end or to the
`rt_schedule` where it blocks, and the rest of a blocked take is a second step (`TakeDone`, `TakeFailed`). The
tick interrupt's `_thread_timeout` is a step of its own. `UpdatePriority` is the loop of
`_thread_update_priority` over the chain of owners: `ChainStep` repeated until the loop ends, which it does within `Rounds`
rounds (theorem `ChainEnds`), round a cycle of owners too. Any ready thread may take the next
step, which covers every order the scheduler can produce, calls that change priorities without rescheduling, and
threads that sleep between two calls. Every wait may time out; one whose timeout never comes is a wait for ever.
`Detach` leaves `owner` and `priority` in the object, where a waiter that comes back with an error still looks at
them. `DeleteThread` is the deletion of another thread; a thread that deletes itself releases what it holds in
`_thread_detach_from_mutex`, being its own current thread, and the states this ends in are those of `ReleaseNested` and
`Release` for each mutex and then `Exit`. The branch of `rt_mutex_release` for a waiter that cannot be resumed needs a second
core: here every waiter is suspended and the timeout is one step. Two history variables say how far the properties about priorities go: `plain` is FALSE once anything but
takes and releases has happened, `changes` counts priorities written from outside and detached mutexes.

**ThreadWait and Semaphore.** A call runs with interrupts disabled up to the point where it blocks and is one
step. The tick interrupt is two: `TimerExpires` is `rt_timer_check` up to the point where it enables interrupts
with the timer already off its list, `ThreadTimeout` is `_thread_timeout`. No thread runs in between, but other
interrupts do, `NestMax` of them at most. `timer` is `RT_TIMER_FLAG_ACTIVATED` and `ttmr` the scheduler's own
`sched_flag_ttmr_set`; the two disagree exactly while a timeout is under way. `Resume` is
`rt_susp_list_dequeue` repeated until a thread refuses, as in `rt_susp_list_resume_all`. No caller looks at the
result of `rt_susp_list_dequeue`; a wake-up that is spent on a thread in the middle of its timeout is `InVain`, and the
properties of the objects say exactly what is lost by it. `credit` is a history
variable: the initial value plus the releases, but for those whose wake-up was in vain, less the takes reported as done. The mutex
does not need this level of detail: `rt_mutex_release` is not called from interrupts, so nothing can see the point
between the two halves, and `Mutex` has the timeout as one step.

**Mailbox.** `pool`, `entry`, `in_offset` and `out_offset` are the fields of `struct rt_mailbox`. The parts of send,
urgent and receive that touch them (`PutLast`, `PutFirst`, `TakeFirst`) include the wake-up of one thread of the
other side and are used by calls that need not wait, from threads and from interrupts, and by waiting threads that
have been woken. A blocked call is `Wait`, then one of `WaitFailed` (timeout, reset, detach), `WaitDone`,
`WaitAgain` (another thread was faster) and `GiveUp` (the same, and nothing is left of the timeout). Ticks are not
counted: what is left of a timeout after a wake-up is some or nothing. The refinement mapping reads the queue
off the pool; `AsNamed` adds which step of the queue each operation is, so that a send put in front or a mail that
disappears without a reset is no refinement. History: `wasted`, a wake-up since the last reset was in vain.

**MessageQueue.** `rt_mq_send`, `rt_mq_urgent` and `rt_mq_recv` take a block off a list with interrupts disabled, copy
with interrupts enabled, and put the block into the other list with interrupts disabled again. Each is therefore two
steps, `Alloc` or `Unlink` and then `LinkLast`, `LinkFirst` or `Free`, and between them other threads and an
interrupt (`Isr`, whose own two steps follow one another) make calls of their own, the interrupt also between the
two halves of the tick interrupt, `NestMax` times. Blocks are numbers,
`next` is `msg->next`, head, tail and free pointers are variables. The message itself is written in the second half:
nothing but its own call may touch the block in between, which is what the refinement shows. Waiting is as in
`Mailbox`, and so is `wasted`. In `MessageFifo` a send takes its place in the queue when it ends, a receive when it begins.

**Event.** `set`, `event_set` and `event_info` are the fields of the event and of the thread. `Send` is the whole walk of
the suspend list: every thread is tested against the same flags, what it receives is left in its `event_set`, and
the flags to clear are collected and cleared at the end. `RecvBack` is what a woken thread does when it runs. History:
`want` is what was asked for, `sent` every flag ever sent.

**Timer.** `timer_list` is the ordered list, `timeout_tick` and `init_tick` the fields of a timer, the three flags
Boolean functions. The tick counter counts modulo `TickMod` (2^32 in the code) and `Half` is `RT_TICK_MAX / 2`; a time
is below `Half`, as the assertions in the code demand. The tick interrupt is `TickIncrease`, then for each due timer `CheckTake`
and `CheckReturn`, and `CheckEnd`. Between `CheckTake` and `CheckReturn` the timer's function runs with interrupts
enabled and every call is possible, on any timer, this one included (`list` is the local list it is on
meanwhile). No second tick comes before the check is over: SysTick does not preempt itself. In `Countdown` a running
timer has a number of ticks left; the refinement mapping computes it from the deadline and the counter, and
`started`, a history variable, remembers the order in which timers with the same deadline were started.

## Runs

| Run | Expect | Question and answer |
|---|---|---|
| `ringbuffer` | pass | Does any sequence of calls leave the bounded FIFO? No; indices stay in the pool (`TypeOK`), the ends within a lap (`EndsOrdered`), and every call is a FIFO step (`ImplementsFifo`). |
| `ringbuffer_isr` | pass | One byte arriving anywhere inside getchar: nothing lost, overwritten or reordered and the oldest byte is the one loaded (`NothingLost`). Two bytes anywhere inside reset: the indices stay in the pool (`IsrTypeOK`), and after a reset that is left alone `NothingLost` holds again. |
| `ox_board` | pass | All games: counter, turn and state always fit the board, nobody moves after the end. |
| `ox_game` | pass | Commands typed at any time, name prompts included: the nested locking is balanced, the screen is never stale without being marked, no command is forgotten when characters come one per indication. |
| `ox_game_live` | pass | With buttons too, so that two threads place pieces: nobody comes in between the fields of a move (`PlaysByRules`). With fairness: changes get drawn, a finished game restarts, key events get handled, unless a player does not type a name. |
| `mutex` | pass | Ownership (`OwnershipConsistent`), membership of suspend lists (`SuspendListsExact`), results of takes (`TakeResultRight`), their order and the absence of inversion (`NoInversion`) with nesting, timeouts, a ceiling, exits, deletions, a changed priority and a detached mutex; while only takes and releases happen, every priority is exactly the one inheritance prescribes (`PriorityExact`). |
| `semaphore` | pass | With releases from interrupts at any time, one of them inside the tick interrupt, timeouts, resets, limits and detach: no token is made up, and none lost but the one whose wake-up is refused there (`TokensConserved`), nobody sleeps beside a token or on a semaphore that is gone (`NobodySleepsBesideToken`), lists and timers fit the threads' states (`WaitsExact`). |
| `semaphore_nested` | violation | Two releases between the halves of the tick interrupt: the first token is lost, the second wakes the thread and the assertion in `_thread_timeout` fails. |
| `mailbox` | pass | With calls from threads and interrupts, timeouts, retries, resets and detach: the mailbox is a bounded queue with urgent mails first (`ImplementsMailFifo`), its counters agree (`OffsetsAgree`), and nobody sleeps beside a mail or beside room that no woken thread will take (`NoLostWakeup`), unless a wake-up was spent on a thread in the middle of its timeout. |
| `message_queue` | pass | With every call cut in two, threads and an interrupt in between, waits, timeouts, resets and detach: each block is in one place (`BlocksAccounted`), messages are received once, whole, in order and urgent ones first (`ImplementsMessageFifo`), nobody sleeps beside a message or a free block that no woken thread will take (`NoLostWakeup`), with the same exception. |
| `event` | pass | With two interrupts inside the tick interrupt: nobody but the thread whose timeout it is waits for flags that are there (`NobodyWaitsSatisfied`), a receive gets what it asked for and nothing that was never sent (`ReceivedAsAsked`), and a flag goes only if somebody who clears it receives it or misses it by its timeout (`FlagsStay`). |
| `timer` | pass | Timers fire exactly when their time is up, in order of deadline and then of start, periodic ones until stopped, across wraps of the counter and whatever their functions call (`ImplementsCountdown`); a timer in the list can be stopped and is there once (`ListedAreActivated`). |

The violation is described, with the lines it contradicts, under `findings` in `PROJECT.json`.
Other observations have no run of their own:

* `button_isr` disables the interrupt of the pressed pin, "临时关闭中断" (temporarily disable the interrupt, OXGame.c:81), and
  `key_thread_entry` (OXGame.c:428) re-enables only the pin it reads as active: a button released, or hidden by another
  one, when the pins are read never gets its interrupt back (`ButtonComesBack` fails under `FairSpec`). `src/README.md:18`
  puts it down to the hardware: "确认是按键出现问题，回弹不及时";
* a waiter that timed out takes back the priority it lent only if the owner's and its own are equal when it runs
  again and `mutex->priority` has not been rewritten in between; otherwise the owner keeps the lent priority after its last
  release (`PriorityRestored` fails with `Ceilings = {}` and `MaxChanges = 0`). The comment at `src/src/ipc.c:1476` takes the
  opposite for granted: "it had already reset its priority. So it's okay to skip";
* `rt_mutex_detach` by a thread that is not the owner lowers the owner's priority without re-sorting the list the
  owner waits in (with a fourth thread in `Mutex.cfg` the order in `NoInversion` then fails without `changes = 0`), and
  `RT_THREAD_CTRL_CHANGE_PRIORITY` (`src/src/thread.c:785`) does the same to any thread, without telling the owner of the
  mutex it waits for (`NoInversion` fails too);
* timers: `RT_TIMER_CTRL_SET_ONESHOT` in a periodic timer's own function leaves it marked as activated though it is in no list, so
  `RT_TIMER_CTRL_GET_STATE` says "timer is start and run"; `RT_TIMER_CTRL_SET_TIME` there silently stops it; `rt_timer_start` there
  returns -RT_ERROR, although the comment at `src/src/timer.c:732` speaks of a timer "started again";
  `RT_TIMER_CTRL_GET_REMAIN_TIME` returns the deadline, not what remains; a periodic timer with time 0 keeps `rt_timer_check` busy for ever;
  `rt_timer_delete` there lets `rt_timer_check` write to freed memory (not modelled);
* flags that an interrupt sends during the tick interrupt are cleared for a thread that is timing out and cannot be
  woken any more, by the cause `semaphore_nested` shows (`Forfeits`, without which `FlagsStay` fails);
* with two bytes between getchar's flip of the read mirror and its store of the read index (`GetBurst = 2` in
  `RingBufferIsr.cfg`) a full buffer looks empty and accepts a byte over an unread one (`NothingLost` fails);
* with two characters in one receive indication (`Batch = 2` in `OXGame.cfg`) the command thread can go to sleep
  beside a character (`NoCharForgotten` fails), because the name prompt takes a token per wait;
* a single release during the tick interrupt can be lost, by the same cause (`InVain` in `CountToken`);
* a mail or message sent, or a block freed, by an interrupt during the tick interrupt can leave a second sleeper beside it,
  by the same cause (`NoLostWakeup` fails without `~wasted`);
* a receiver that was woken, lost its mail to another one and runs again only after `rt_mb_detach` goes back to sleep in
  the list of the detached mailbox, where nobody will wake it (`NobodyWaitsOnDetached` fails after five steps); after
  `rt_mb_delete` it would read freed memory;
* a deleted thread's mutexes stay with it, because `rt_mutex_release` compares the owner with the thread that deletes
  (`NoDeadOwner` fails in `Mutex.cfg`); the comment at `src/src/thread.c:167` says they are freed;
* a byte between the loads and stores of `rt_ringbuffer_reset` can be undone or leave the buffer full of old bytes
  (`NothingLost` fails without `~mixed`);
* a scan that sees no button acts as OK; the automatic reset after a game acts on a state it tested 2 s earlier;
* a mutex handed over does not raise its new owner to its ceiling;
* `RT_IPC_CMD_SET_VLIMIT` below the current value leaves the value above the limit, and its branch that resumes
  threads is never reached (`NobodySleepsBesideToken`).

### Bounds and why they are enough

* Ring buffer: `N = 4`, blocks of up to 5 bytes, two byte values. Every position of both ends, blocks that
  end before, at and after the end of the pool, that fill it and that exceed it. The code treats byte values
  alike; two of them tell a wrong byte from the right one. The interrupt model uses `N = 3`: the flip
  happens in one position and the others do not. `GetBurst = 1` (more fails, see above); `ResetBurst = 2`, so that a byte can
  come on either side of a store or before both.
* `OXBoard` has no bound: all boards and all inputs.
* `OXGame`: `RbSize = 2` (16 in the code) and `NameMax = 1` or 2 (15) make the buffer and the names overflow;
  `SemMax = 2` (65535) lets the semaphores reach their limit. Two names take at least two characters, so
  `MaxChars = 5` leaves room for commands after them, and for a reset with its own prompts from a game under
  way; `MCStartBoards` are games one move before X wins, O wins and the draw. Two presses, with releases at any
  time, are the least that let two buttons interfere, and with the commands `e` and `c` a key and a command place or
  reset at once; `ox_game` has commands only. `Batch = 1`: characters typed by hand.
* `Mutex`: three threads and two mutexes give chains of length two and cycles. `MaxHold = 2` (255 in the code) reaches the limit;
  one change from outside or one detached mutex (`MaxChanges = 1`) at any time. Mutexes are symmetric; threads are
  not, as they differ in priority.
* `Semaphore`: three threads, one more urgent than the two others, so that a waiter is inserted before, between
  and after others; `SemMax = 2` (65535) reaches the limit; every value is used for init, reset and limit.
* `NestMax`, interrupts inside one tick interrupt: one for the semaphore, where the second ends in the failed assertion that
  `semaphore_nested` is about; two for the mailbox, the message queue and the event, so that the second one
  meets what the first has left, up to the assertion. The theorems are for any number.
* `Mailbox`: the same threads; `Size = 2` and two mails, so that the offsets wrap while the mailbox is partly full,
  mails can be confused, and all three threads can wait on one side or on both. Threads of equal priority and the
  mails are symmetric.
* `MessageQueue`: two threads, an interrupt, two blocks and two messages: three callers for two blocks, so that both lists
  run empty while blocks are in hands. Three threads, and three blocks, were also checked (5.4 and 5.6 million states) and
  are too slow for the regular run.
* `Event`: two threads and two flags, every mode: AND and OR waits that share flags, one clearing and one not.
* `Timer`: `TickMod = 8`, times up to `Half - 1 = 2`: the counter wraps often, and deadlines lie on both sides of the wrap.
  One timer is set to everything, one is periodic and one a one-shot timer with the longest time.

`CHECK_DEADLOCK FALSE` is set for the game (the user may stop typing, and the bounds on inputs end a behaviour) and
for the mutex (threads that lock in a cyclic order block each other: the application's error, not the kernel's), and for
the mailbox, the message queue and the event (nothing happens to a detached one any more).
The ring buffer, the board, the semaphore and the timers can always take a step and are checked for deadlock.

### Fairness

`ox_game_live` assumes weak fairness of each thread. A behaviour has finitely many inputs, the
threads of higher priority block or delay in every round of their loops (20 ms, 5 ms, the LCD thread's
delay), and `rt_thread_mdelay` ends, so a thread that stays ready runs. Nothing is assumed of the user: the
leads-to properties allow for a name that is never typed.

## Proofs

Every theorem is for all values of the constants: any number of threads, mutexes or timers, any size. Where one has a
hypothesis on a constant, it is said below and the runs use the same value.

**Induction over data.** What a recursive function or a fold computes cannot be had from the library's induction
theorems. The proofs use the least element instead (`LeastElement`, from well-foundedness of `<`): the set of lengths for
which a lemma fails has none. For this the models use recursive functions (`Without`, the chain in `UpdatePriority`) and
`RemoveFirst`; the first lemmas of each module say what these do to the elements of a list (`On`, `Distinct`).

* `RingBufferProofs`. `TypeCorrect` and `EndsStayOrdered`: the type invariant is not inductive alone, because that the
  index stays in the pool after a put relies on the space computed from the ends, and that computation is right only if
  the ends are within one lap of each other. `RingBufferIsFifo`, the refinement of `BoundedFifo`: the contents are a
  function of the pool and of the two ends, and the lemmas say what a copy in at the write end, a move of the read end and a
  forced write that moves both do to that function. `IsrTypeCorrect`, for any number of bytes arriving inside getchar and
  reset: even when contents are lost no index leaves the pool, which needs only the tests of the indices against the
  size. `NothingIsLost` assumes `GetBurst <= 1`, as the run does (with more it fails, see above), and nothing about resets.
  Its invariant says at each program counter of the reader where the ends are and what is owed: between the flip of
  the read mirror and the store of the read index the ends are out of order, and one byte may still arrive; and that a
  reset no byte has come into so far has cleared what it has passed (`Clearing`), whatever an earlier one left.
* `OXGameProofs`, rules. `BoardTypeCorrect`, `StepsCorrect`, `TurnsCorrect`, `PiecesNeverMove`: the code increments
  `total_steps` without a bound; that it stays at most 9 follows from the count of pieces on nine cells, so
  `StepsCountPieces` is part of the inductive invariant and the bound is not. `StateStaysOutcome`: the four loops of
  `check_win` look at exactly the lines of the game, and a piece makes no line for the other player, so that looking at the
  player who has just moved is enough.
* `OXGameProofs`, threads. `LockStaysBalanced`: the nesting depth of `lcd_mutex` is a function of where each thread
  is; the invariant adds that a thread waits only for a mutex another one owns and that threads not yet started have nothing.
  `TypeCorrect` rests on it, and so does `ThreadsPlayByRules`: a thread that has put a piece on the board and not yet
  counted it owns the mutex (`LockInv`), so no other thread is where it could change the game, and the piece is the only
  one not counted (`PlaceInv`). Every step is first reduced to what it does to the game (`GameStep`).
  `ScreenStaysUpToDate`: while somebody is being asked for a name, and until the refresh thread runs, the game is
  marked as changed. `NoCharIsForgotten` assumes `Batch = 1`, as the run does, and `RbSize <= SemMax` (16 and 65535 in the code): the
  command thread and the prompts never wait for characters at once, there is a token for every character they have not
  seen, and who sleeps sleeps beside an empty buffer.
* `ThreadWaitProofs`. `WaitInv`: a thread is in one list, once, exactly while it is suspended; its timer runs or is being
  handled; its error is that of a wait. Every operation of `ThreadWait` keeps it and the lemmas say who is woken, for any `NestMax`.
* `IpcObjectProofs`, semaphore. `TypeCorrect`, `NobodySleeps`, `WaitsStayExact` and `TokensStay` hold for any number of
  interrupts inside the tick interrupt.
  `OneInterruptIsSafe` shows, with `NestMax <= 1`, that the violation of `semaphore_nested` needs two interrupts: the
  first one clears the flag that makes the scheduler refuse the thread.
* `IpcObjectProofs`, event. `EventTypeCorrect`, `NobodyWaits`, `ReceivesAsAsked` and `FlagsAreKept`, for any `NestMax`. The
  walk of `Send` leaves in the list exactly the threads whose flags are not there and the one that is timing out and cannot be
  made ready, and what a served thread finds when it runs is what was left.
* `MailboxProofs`. `MailboxIsQueue`, the refinement of `MailFifo`, and `OffsetsStayInStep`: that a send appends is true
  only if `in_offset` is where the queue ends, so the agreement of the counters is part of the inductive invariant. Every
  step is first reduced to what it does to the buffer (`StepsOfNext`), then each of the four changes is shown to be a step
  of the queue, and of the one its name says. `WakeupsAreKept`, for any `NestMax`: the threads that were woken and have not run yet
  are counted against the mails, or the room, and each operation is shown to keep the balance until a wake-up is in vain.
* `MessageQueueProofs`. `NoBlockIsLost`: the invariant `BInv` gives the pointers their meaning. There are two sequences of
  blocks without repetition such that following `next` from the head, and from the free pointer, runs through exactly them
  (`Linked`), and every block is in one of them or in the hands of one call that is half-way through. The lemmas say what
  taking the first block off, appending, putting in front and the whole of a reset do to such a sequence. `WakeupsAreKept`
  (`WInv`): the woken threads that have not run yet, and the calls between their two halves, are counted against the messages and
  the free blocks, until a wake-up is in vain, for any `NestMax`.
  `MessageQueueIsQueue`, the refinement of `MessageFifo`: nothing but the call that holds a block writes it, so a
  message that is linked into the queue is the message that was sent, and overlapping calls take effect one at a time.
* `MutexProofs`, ownership. `OwnershipStays`, `ListsStayExact`, `TakeResultsRight`, `TypeCorrect`. The invariant `MInv` says of
  each suspended thread that it is in a take of a mutex in use that another thread owns, and of each thread that is back with an
  error that `pending_object` still is that mutex: this is what keeps a timeout, a hand-over, a deletion and a detach
  from contradicting each other. The chain of owners keeps `ChainRight` in every round (`ChainStepRight`), by induction
  for any number of rounds, so neither its length nor cycles matter.
* `MutexProofs`, the loop. `ChainEnds`: a waiter that is re-inserted makes its mutex at least as urgent as itself, so the owner gets
  a priority at least as urgent as the thread before it (`RoundLends`). A round that goes on therefore removes something from
  the set `RoundsLeft` of pairs of a priority more urgent than the one the chain has come to, or of this priority and a
  thread that does not have it yet; the set is finite and smaller than `Rounds`. Without this, `UpdatePriority` would not say what
  the loop leaves.
* `MutexProofs`, inheritance. `NoPriorityInversion`: neither `NoInversion` nor the order of the lists is inductive alone, because
  the code compares with `mutex->priority` and not with the waiters. `OrderInv` says, until the first change from
  outside, that a mutex is not less urgent than its waiters, an owner not less urgent than its mutexes and every list in order.
  During the chain this holds but for the place of the thread that was changed last (`ChainOrdered`), and when the loop has ended,
  for everybody. `PriorityStaysExact`: as long as there are only takes and releases, the inequalities of `OrderInv` are equalities (`PlainInv`): a
  mutex has exactly the priority of its first waiter, a thread exactly what `_thread_get_mutex_priority` gives it. That a
  release reconsiders the priority only if it equals that of the mutex is enough then, and only then.
  `NobodyIsLowered` is what is left of this when there are timeouts, deletions and ceilings, and no run states it: a thread may
  keep more than it is owed but never has less than its own priority.
* `TimerProofs`. `ListStaysRight` and `TimersCountDown`, the refinement of `Countdown`. `TimerInv` says that the listed
  timers are the activated ones that are not in hand, that no deadline is more than `Half` away from the tick, and
  that the list is ordered by what is left and then by the start. The lemmas on ticks say that differences modulo `TickMod`
  compare like the ticks that are left as long as those stay below `Half`, across the wrap.

Assumed: only the named assumptions on the constants. Sizes and limits are positive numbers, priorities are in `0..31`, the sets of threads are finite,
`None` is none of the values it stands beside, each object has the suspend lists its code has, the times of timers
are below `Half` (asserted in the code) and `TickMod > 4` (2^32 in the code; with `Half = 1` an overdue timer would
not be seen as due).

Model-checked only: the three leads-to properties of `ox_game_live`, as fairness is outside the prover. Every other property of
a passing run is stated by a theorem.

## Plan

Done: the ring buffer and its FIFO; the interrupt in between; the game and its threads; the mutex with detach and changes of
priority; waiting, the semaphore, the mailbox, the message queue and the event; timers; theorems for every safety property, every action
property and every refinement the runs check. Left, in this order:

1. `Thread`: the states of a thread through startup, suspend, resume, sleep, close and the defunct list, with
   the ready queues and the bitmap.
2. `Completion`, `WorkQueue`, `DataQueue`; the serial receive FIFO; the memory pool.
3. Deletion of mailboxes, queues and timers under calls that are under way, as an undefined read.

## Not modelled

Threads as a component, driver IPC, the serial FIFO and the memory pool: planned above. Soft timers, skip lists and messages with
priorities are not configured on this target. `rt_tick_set` is used by power management only, which is not configured either. The heap allocators are pointer arithmetic over byte layouts, better served by tests.
Objects and devices are registries by name with little that can go wrong between steps. SMP
(`scheduler_mp.c`, `cpu_mp.c`) is not built on this target. HAL, CMSIS, the C library, the shell, the file
systems, the network stack and the LCD driver are vendored code, I/O or text.
