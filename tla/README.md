# A TLA+ model of askai

askai is an MCP server in C that answers tool calls by asking an upstream
language model. It is an event-driven daemon: a few threads, each with an epoll
loop, that share almost nothing and talk by posting messages. This directory
holds a model of it in TLA+, checked with TLC, and theorems about it,
proved with TLAPS. Paths below are relative to the repository; `src/x.c` is the
program's source.

## The system

| Part | State | Operations | Talks to |
| --- | --- | --- | --- |
| event loop (`src/loop.c`) | inbox, mail, ready lists, timer heap, handle slots, `asleep` | post, turn (wait, events, mail, timers, steps), exit, fini | every thread posts to it |
| job (`src/job.h`) | two words of bits, two embedded messages, a reference count, result, mailbox | submit, cancel, drain; done, progress, delta, return | front (a client loop) and home |
| home (`src/home.c`) | principals' queues, rings, ready lists, slots, timeline, breaker, journal callbacks | admit, start, take events, end, expire, preempt, shed, drain | jobs' fronts, libcurl, the journal, the brainstem |
| MCP (`src/mcp.c`) | sessions, requests, streams, turns with tools, tasks | parse, run a call, reply, cancel, drain | jobs, ledger, children, plugins |
| HTTP server and door (`src/httpd.c`) | connections, addresses, budgets, idle lists | accept, place, read, write, evict, give back | home places, client loops serve |
| brainstem (`src/brainstem.c`) | the threads' states, orders, deadlines | start, order, mind, drain, wait, stop | all threads |
| blockers (`src/blocker.c`) | a locked queue of closures | queue, run, stop | post back to loops |
| task pool and ledger (`src/task.c`, `src/ledger.c`) | tasks, lanes, waits, results kept for clients | create, move, end, wait, cancel, sweep | client loops |
| roster (`src/roster.c`) | who runs what for a session | join, leave, cancel | client loops |
| instances, plugins (`src/instance.c`, `src/plugin.c`) | per-principal instances of tools | get, busy, flush, drop | MCP |
| journal (`src/journal.c`) | a queue of writes, checkpoint files, an archive committed to git | write, checkpoint, commit, evict, recover, stop | home and MCP, by callbacks |
| children (`src/child.c`) | pid, pidfd, pipes, deadline | spawn, read, kill, reap | git, man, notes |
| logger (`src/log.c`) | a ring of lines for each thread, `asleep`, `order` | put, write, sleep, stop | every thread |
| askai-cli (`src/cli*.c`) | calls, their requests and chunks, the credit, a screen | submit, cancel, return chunks, stop | the server; its UI and network threads |
| notes, git, review, policy, uploads, configuration, web, TLS, metrics | see `PROJECT.json` | | |

Rules of the design (`doc/core-design.md`, sections 1 and 2): every mutable
object has one owner thread; `struct job` is the one exception, each field of
which has one writer, with an atomic word for each direction; a message is
embedded in an object and posted only as its word becomes non-zero; every job
ends in exactly one completion.

What is hard in it, and what makes each part correct:

- *The inbox.* A lost wake-up leaves a loop asleep over a message; reuse of a
  message (ABA) can corrupt the lists; a turn that stops at its limit must leave
  lists that the next can go on with; the last inbox must be emptied. Correct:
  every message posted is delivered, once, in order.
- *Ready lists, timers, handles.* A step or a timer may ready, set or stop any
  other while the loop goes through its lists. Correct: queued once, in order,
  and a handle finds the object it was made for or nothing.
- *The job.* Either thread may let go at any point; the end may have to wait for
  the mailbox and for writes that may themselves fail; the loops stop in an
  order. Correct: one completion, an exact count, nobody writes what the other
  reads, no job is left behind.
- *The request.* It can end in any phase, in the middle of a handler, by many
  causes. Correct: a spare request has no name, timer, step, job or record left
  by which a late answer could reach the next; what a client is told of an end
  has been written.
- *The scheduler.* Work is found in callbacks and done in steps; jobs are on one
  of several lists by one hook and leave it in a dozen ways. Correct: lists and
  counts agree, no step is forgotten, one probe, no starvation, background work
  last, a drain that ends.
- *The ledger.* Any loop ends, reads, cancels and sweeps records of any other
  under one lock, and posts and drops outside it; a call that waits must hear of
  what happens between its look and its sleep. Correct: exact references, counts
  that match the lists, a wait on one chain at most, no event missed.
- *Task pool.* A task goes between lanes while its owner drops it and loops
  detach. Correct: exact references, loads that add up, every task comes home.
- *Roster, instances, children.* What a call names may end, and its storage be
  used again, while another loop, a flush, or a deadline acts on it. Correct:
  only what was named is reached, nothing in use is destroyed, everything ends.
- *The door.* Home and the loops share words that both change; every connection
  and every byte of a body is counted in two places. Correct: the counts are
  exact, a message is posted once, a policy lives as long as it is held, and a
  drain ends.
- *Blockers and brainstem.* Threads stop while others queue; an order may come
  before its thread runs, or with another. Correct: the phases of the stop in
  order, every order arrives, the last SIGHUP is read and answered, the stop ends.
- *Journal.* A crash at any point between write, rename and directory sync; a
  full queue; faults; stop. Correct: recovery finds what was acknowledged and
  nothing that was not put; there is room to end or cancel a job.
- *Logger.* One word for the sleep, many writers, one stop. Correct: nothing is
  slept on; what is written is what was put.
- *askai-cli's network.* Two threads free and name the same calls. Correct: no
  message names a call that is freed, a cancel arrives, credit comes back, both
  threads end.

`PROJECT.json` lists every component, and every hazard with its line and the
properties that would notice it going wrong.

## Modules

| Module | Models |
| --- | --- |
| `Mailbox` | what an inbox promises: a FIFO queue whose every message is delivered |
| `LoopInbox` | `loop_post()`, `loop_turn()`, `loop_collect()`, `loop_deliver()`, `loop_fini()` |
| `MCLoopInbox` | the mapping under which it implements `Mailbox` |
| `IntrusiveLists` | taking a node off a list, and walking a list that loses nodes (`src/list.h`) |
| `MailboxProofs` | the inbox's theorems, and those of the refinement |
| `HomeProofs`, `LedgerProofs`, `JournalProofs`, `ReasoningProofs` | the theorems of `HomeScheduler`, `Ledger`, `Journal`, `Reasoning` |
| `RequestProofs` | the theorems of `JobChannel` and `Request`, and of the run that has both |
| `ProcessProofs` | the theorems of `Brainstem` with `Blockers` and of `LogRing`, and of the run that has these and the journal |
| `ListProofs` | lemmas on lists and on induction that those share |
| `LoopSteps`, `TimerHeap`, `Handles` | the rest of `src/loop.c`: ready lists, timers, handles |
| `JobChannel` | one job between its front and home, over several runs and the shutdown |
| `Request` | a request to `src/mcp.c`, with all that outlives a step of it |
| `HomeScheduler` | home's admission, queues, slots, steps, preemption and breaker |
| `Ledger` | the records of calls that run on, their owners, timers and waits (`src/ledger.c`), and the handlers of `src/mcp.c` that use them |
| `TaskPool` | tasks between client loops (`src/task.c`) |
| `Child` | child processes (`src/child.c`) |
| `Roster` | calls that a client may cancel from another loop (`src/roster.c`) |
| `Instances` | the tables of plugin instances (`src/instance.c`) |
| `Door` | home's door and the loops' servers (`src/httpd.c`) |
| `Blockers` | the blocker threads (`src/blocker.c`) |
| `Brainstem` | extends `Blockers` with the threads' life (`src/brainstem.c`, `src/askai.c`) |
| `Journal`, `Reasoning` | checkpoints, and the archive of reasoning text (`src/journal.c`) |
| `LogRing` | the logger (`src/log.c`) |
| `CliNetwork` | askai-cli's network thread and what its UI thread does with it (`src/cli_network.c`) |
| `MCHomeScheduler` | jobs of two classes and two principals for `HomeScheduler` |
| `MCRequest` | `Request` and `JobChannel` |
| `MCWaits` | `JobChannel` and `Ledger` on two loops, with their fairness |
| `MCQueues` | `HomeScheduler` and `Ledger`'s records on one loop |
| `MCParts` | `LoopSteps`, `TimerHeap`, `Handles`, `TaskPool`, `Child`, `Roster`, `Instances`, `Door` |
| `MCProcess` | `Brainstem` with `Blockers`, `Journal`, `Reasoning`, `HomeScheduler`, `LogRing`, `CliNetwork` |

The last five put modules that share no state side by side: a behaviour is of
one of them, chosen at its start, and the variables of the others stay 0. They
add no behaviour and hide none; they are there because these parts are answers
to one question each ("what is named is what is reached", "what is counted is
right", "it ends"), and a property of such a run is the conjunction of what each
part must keep, named for the question. The composition that matters, of parts
that do share state, is inside the modules: `Brainstem` runs `Blockers`' threads,
`Ledger` and `Roster` hold the handlers of several loops, `JobChannel` and `Door`
both of their threads, `Request` everything its request can be waiting for.

Operators whose comment begins "A mistake the checks would catch" are not part of
the specifications: each is a variant of the definition after it, with a bug that
this code could have, and shows that the property beside it in
`PROJECT.json` notices.

### LoopInbox

State: `inbox`, `next`, `asleep`, `mail`, `mail_last` are the code's; `efd` is
whether the eventfd is readable; `lpc`, `pc` are places in `loop_turn()` and
`loop_post()`; `msg`, `fifo`, `last`, `pm`, `head` their locals; `where` is a
history variable, the list a message is in.

Each access to shared memory is an action: a poster's load, its round of the
compare-and-swap loop, its exchange of `asleep`, its write of the eventfd; the
loop's store to `asleep`, its second look at the inbox, the wait's end, the
clearing of `asleep`, the exchange of the inbox, each round of the reversal, the
join, each delivery. The load and the exchange in `loop_collect()` are one
action, as only the loop empties the inbox. Memory is sequentially consistent in
the model, as the four accesses that matter are in the code (`seq_cst`); the
relaxed ones are the first load, whose value the compare-and-swap checks, the
loop's own first look, repeated each turn, and the clearing of `asleep` after a
wait, whose place in the order only makes a post write the eventfd once too
often or be covered by the turn that is about to collect.

A wait ends through the eventfd, by time, for other descriptors (with or without
the eventfd among the EVENTS reported), by a signal or by failing. Callbacks,
handlers, timers and steps may post, ready a step, or call `loop_exit()`. The
handlers that `loop_fini()` runs may post to the loop too, as its comment
(`src/loop.h:163`) asks them not to and as its code allows for, by collecting
again after each message; other threads have stopped posting by then. The
callers keep the contract of `struct msg`: a message is posted only when it is
in no list.

### LoopSteps, TimerHeap, Handles

`LoopSteps`: the ready lists, the batch a run took from them, and where in it the
loop is. A step may ready or stop itself or any other. `loop_run()` takes the
lists, makes at least one step, may stop after any, and puts back the rest ahead
of what was readied meanwhile. `TimerHeap`: the heap as a sequence, and each
timer's place as the code keeps it; `loop_heap_fix()` moves one up or down,
`loop_fire()` makes a due timer Never before it calls it. `HeapTrue` relates the
places to the heap and a parent to its children; `OwedFirst` says that while a
timer is due the top of the heap is one. `Handles`: slots, generations that wrap
past `Gens` to 1, the list of vacant slots, and every handle ever given; beyond
`Gens` uses of one slot an old handle would be found again, so `MaxMade` is not
above that, as a slot is not used 2^32 times within the life of a message.

### JobChannel

State: the two words and whether their messages are queued; `refs`; `req`, the
request's view (waits, reads, sends the mailbox on) and the front's reference;
`job`, home's view: where the run is, `dropped`, the mailbox
(`DELTA_PENDING`, `DELTA_ENDED`), writes pending and the `RECOVERY_*` flags that
matter, status, whether the result holds anything, and home's reference; the two
threads, each with the bits its handler took and the references it has yet to
drop. `hold`, `told`, `events` and `preempted` count what the code's state
implies or bounds.

A handler is three actions (take the word, act, put references), so the other
thread runs in between; `job_post()` is one, as nobody can see the message
before `loop_post()` and the poster holds a reference. The inboxes are taken as
what `Mailbox` promises. What the scheduler decides and the upstream sends is
nondeterministic. JOB_SUSPEND is CANCEL here (home differs only in whether the
provider is told), JOB_TEXT is ANSWERED, JOB_SUSPENDED is FAILED.

### Request

State: one record `x` of a request: the phase; what the client's stream, the
job, the tools' calls and the journal's write are doing; `REQ_*` bits; the names
(id, task, job) and records that are out. A handler is a chain of calls of which
any may end the request, so each function is an operator from `x`, and from the
luck `c` of its calls into other parts, to the `x` it leaves, named as in the
code. The actions are the loop's: the stream's head, body, room and loss; a step
and a tick; a job's message; a tool's result; a write's end; a cancel by id, by
record or as a job; the drain. `LetsGo` is the invariant the module is for,
and proved; `WrittenFirst` relates what a client may read of a task to what a restart would
find; `MovesOn` says that a request that is alive has something to wait for.
Compaction, the turns' own jobs and timers, what a restart resumes, keep-alives
and notifications of progress are left out.

### HomeScheduler

State: `home`, a record of what `struct home` and the jobs' flags hold. The
functions that several handlers call (`home_retire()`, `home_end()`,
`home_preempt_excess()`, the breaker's) are operators from record to record,
named as in the code. Each round of a step's loop is an action, and a step stays
armed until its loop finds nothing: a step whose share runs out readies itself
and other handlers run in between. `owed` is submitted minus the three counts of
ends. `cuts` is a history variable. Time is abstracted: a deadline, a stall and
the end of an open spell may come at any time. Bytes, deadlines' values and
budgets other than `--max-calls` and JOB_QUEUED are left out; `Fixed` stands for
native and durable jobs, which are never cut. The mark that ends a stream is no
event of its own, so `Cuttable` leaves out the test of ENDED in
`home_job_cuttable()` and may preempt a job whose answer is all in: it allows more
than the code, in the safety properties' disfavour only.

### Ledger

State: `ledger`, what the lock protects (each owner's records and waits with
their counts, its timers, the ended list, the owners in the table); `rec` and
`wait`, the structures that are allocated, with their references and what holds
them; `todo`, what each loop has yet to do with the lock released: the chain of
waits to post, and the records to drop. Records and waits are names that are
free, used and free again, as memory is.

What a function does under the lock is one action, and the results that a sweep
can have are a set, as it depends on the time and on the bytes kept. The posts of
a chain, one by one, and the drops are actions of their own, and so are the parts
of `mcp_on_wake()` before and after `ledger_wait_heard()`; a loop does nothing
else before they are done, other loops do. A record's kind and its ASKED bit are
kept only while its call works, as nothing reads them after. A timer is set or
fired; `covers` is which of the owner's timers a parked call's alarm takes into
account. A wait that names jobs may be told of any that ended. The bound on
readers: one at a time for each record. `loop_post()` cannot refuse a message
here (`ListsStayApart` of `MailboxProofs`, whose precondition `ChainsApart`
is). The sets are finite, as memory is and keys have 64 bits, so that counts
are numbers. Left out: ids, results' bytes, and what a failed allocation does.

### TaskPool

State: each task's place (its owner's, a lane's list, a message on its way, a
slice under way), its reference count and cancel bit; each lane's load word; a
placer's choice between reading the loads, adding to one and posting; the loops'
lives. Two threads interleave between those three. `TaskRefs` counts references
from what holds them, `LoadsTrue` the loads from where tasks are or are heading
to, `CountsBalance` the pool's own counts.

### Child

State: the loop's side (`child`: open pipes, pidfd, deadline, who was told) and
the system's (`os`: the leader of a process group and a process that keeps the
output open, which end separately and may ignore SIGTERM, the signals sent, and
output to read). `PidOurs`: no signal after the reap. `ToldAtEnd`: the
owner hears once, when output and exit are both in or given up. Every child has
a deadline, as all that the program starts do.

### Roster

State: the records, in cells of storage that are used again; the lists that two
searching loops make along the member `hit` under the lock and post along
without it; the messages. `RosterRefs` says who holds a record; `OnlyNamed` that
a call is only ever withdrawn for a client that named it.

### Instances

State: the buckets, the idle list, those gone and waiting for the table's step,
the uses; the table's generation, which a flush raises; the calls. `UsedLives`
and `SharedByOne` are the table's promises; what no call can get any more is
destroyed by a step (`AllEnd`).

### Door

State: home's side of a lane (connections placed, messages queued, eviction
asked), the lane's words, the loop's server (idle list, draining, what a turn
reaps), each connection's place from accept to give-back, the client, the two
budgets of bodies, and the policies with their references. Words and messages
are separate actions of their threads. `DoorCounts` says that what home, the
lane and the server count is what there is; `BudgetsTrue` the same for bytes,
the moment between the two budgets included. One observation: the comment of
`httpd_home_evict()` says that a loop is asked for no more connections than it
has idle, but `evicts` is zeroed as the loop takes the message, before it closes
any, so home may ask again for the same ones; the loop then finds none idle and
the request is void. The bound `Asks` caps how often.

### Blockers and Brainstem

`Blockers`: the bounded queue, the lock as the grain of actions, the condition's
signals as a set of threads woken, the stop and what is cancelled by it.
`Brainstem` adds the threads (0 is home), each with its reported state and its
word of orders, the loops' inboxes, and where the brainstem itself is: starting
threads, minding them, waiting for the client loops, for home, which then knows
that it is alone, and for the blockers, or forced. A reload is read by a blocker
and applied by home, and notes a SIGHUP that comes meanwhile; a relief is counted
down by the loops it was posted to. `GoesInOrder`, `OrdersArrive`,
`ReliefCounts` and `LastReloadAnswered` are about two threads each.

SIGHUPs are numbered, and `reload` keeps which was read last, and which last had
each answer that the code can give. `applied`: what was read applies. `refused`:
the blockers did not take or do the job, or what it read is wrong
(`askai.c:522`), which is a choice as the configuration's parser is not modelled;
an error of `policy_key()` is not told from that. `shut`: the door was not open
(`httpd_home_policy()`, `httpd.c:3310`), as client loops were still starting or home
had begun to drain. `brainstem_reload()` ignores a SIGHUP before home runs and
once all stop; that one has no number, and nothing is promised of it. Once home
exits, a reload that is done is dropped. One observation: what was turned away
as `shut` is not kept, nor read again, for when the door opens. So a SIGHUP that
comes while client loops start can be answered with "the server is not open" for
a right configuration, and the server then opens with the old policy, although
`doc/configuration.md:126` says of a file that passes the checks that `askai`
applies it. TLC finds such a behaviour in the instance of `process` if it is asked
whether the last SIGHUP was applied or refused once the door is open.

### Journal and Reasoning

`Journal`: the queue with its reserve for records that must go (a cancellation,
an end), the writer's place within a record, each job's file and, as a directory
entry is durable only once the directory is synchronized, `images[j]`, the set of
contents that a crash now could leave of it. Writes and renames may fail, the
process may crash between any two steps and start again from any of the images,
with the legacy WAL beside them. `Recovers` says that what a callback acknowledged
is found by the next start and that what is found has no gap; `RoomKept` that a job
can be ended with queue and cache full and that the files stay within what the next
start accepts. The jobs whose first new record is a state (`restated`) are left
out of `Recovers`' claim about the legacy WAL: that case is the finding of
`journal_legacy`.

`Reasoning`: the archive's file for each turn, what of it is durable, the
provider's attempts, each of which sends the text from its first piece; a replay
is compared with the file, appended past its end, and refused when it differs.
`Verified`: the file is never more than what one attempt sent, and the final
commit is the whole text of the attempt that ended. A write may fail, before or after
a part of it is in the file. Such a turn is `torn` as long as the file stays open, and
of it `Verified` says nothing: `journal_thought_write()` does not count what a failed
write left, so the next attempt, if it begins before the file is closed, is compared
with the size in the cache and then appends after the leftover (`O_APPEND`); what it
then commits is the leftover too. Without that exception TLC finds this in four steps.
Whether such a write can fail and the next succeed is the file system's affair (a
disk that was full for a moment). When the file is opened again, its real size is read
and the leftover is compared as any text is.

### LogRing

Parameters: the number of rings, their size `RING`, and the lines each thread has to
say. State: each ring's head and tail, the head that the logger saw, and the lines in
its data; the logger's place in its loop, each thread's in `log_emit()` and the
brainstem's in `log_stop()`; `asleep`, `order`, and whether the wake-up's
descriptor was written. Every access to a shared word is an action. `BatchWhole`: the
lines copied out are whole and in order; `NoneSleptOn`: the logger does not
sleep on a line or an order unless a wake-up is on its way.

### CliNetwork

State: what each thread believes of a call and of its request, the two mailboxes
(the network's is a sequence, as the order of a submission and a cancel matters),
the word that both threads set bits in, the credit, and both threads' stop. libcurl is external: a
transfer sends, pauses, fails and ends when it likes. `NoneFreed` says that no
message and no word names a freed call.

## Runs

| Run | Instance | States | Checks |
| --- | --- | --- | --- |
| `inbox` | one poster and the loop, 3 messages, MAIL 2 | 316,870 | TypeOK, NoLostWakeup, ListsApart, NothingLeft, ImplementsMailbox, KeepsDelivering |
| `request` | a request with 2 turns, 2 calls of tools, 2 records, nine kinds of clients; a job with 2 runs, 2 events, 2 writes | 440,966 | BothTypeOK, JobRefs, JobOnce, JobReads, LetsGo, WrittenFirst, MovesOn |
| `waits` | a job with 1 run, 1 event, 1 write; two loops with a record, a wait, a timer and two anonymous owners with room for both | 76,963 | HeldExactly, EventsTold, OwnersKept, WaitsOver, DrainEnds |
| `queues` | an interactive and two background jobs, slots 3, then 2 or 1; one loop, 3 records of one owner, LEDGER_MAX 2, LEDGER_MINE 2, LEDGER_RUNNING 1 | 904,057 up to symmetry | Types, OnLists, StepsReady, ProbeAlone, CutOnce, BackgroundLast, RecordsKept |
| `parts` | two of everything that a client loop has (the constants are in `MCParts`) | 366,460 | TypeOK, Lives, CountsTrue, OursOnly, QueuesTrue, AllEnd |
| `process` | a blocker, home and two loops; two jobs in the journal; one turn of text; three jobs on one slot; two rings; one call of askai-cli | 566,320 | Types, StopsInOrder, WorkCounts, Recovers, RoomKept, PlacesTrue, LinesTrue, ClientTrue, AllEnd |
| `job_storage` | a job with 1 run, 1 event, 2 writes | | StorageComesHome is violated |
| `scheduler_preempts` | an interactive and a background job, slots 1, with a journal | | InteractivePreempts is violated |
| `request_once` | a client with the tasks extension and `--background` | | OneRecord is violated |
| `request_late` | a client whose stream fails as its call becomes a task | | CallEnded is violated |
| `journal_legacy` | two jobs, one of them in the legacy WAL | | LegacyRetained is violated |
| `log_stops` | as in `process` | | StopWrites is violated |

Why the bounds are enough to be of interest.

- *inbox.* Three messages against MAIL 2 make a turn stop with mail left, so that
  a later collect appends behind it, while two threads push at once and messages
  come back; reuse is unbounded.
- *job.* Two runs reuse it, so a message or a reference that outlives its run
  shows; two writes make the order of their ends matter.
- *request.* Two turns and two calls let an answer come with another call still
  out; two records let a call be a task and a job. One life is enough: a late
  answer reaches the next request only if the spare one keeps a name, which
  `LetsGo` forbids. `LateLoss` FALSE excludes the one case that `request_late`
  shows, and `Clientele` the one combination that `request_once` shows, so that
  what else there is gets checked.
- *scheduler.* Three jobs on one slot make queues, rings and the ready list hold
  something at once; one failure opens the breaker, so that its whole cycle and
  the probe's every end are reached (the count of failures in a row before that is
  a plain counter); slots that shrink from three to two or one put background
  jobs over their share. With `--max-calls` 3 and three jobs the cap on calls is
  never the reason for a refusal; JOB_QUEUED 2 likewise; the path of a refusal is
  the one an open breaker takes.
- *ledger.* Three records of one owner against LEDGER_MAX 2 make the ledger sweep
  for room, and a removed record outlive the ledger in its reader's or its
  cancel's hands. Two loops with one record and one wait have every race of an
  end, a timer, a sweep and a cancel with the wait's look, its message and its
  leaving, with reuse unbounded.
- *parts.* Two lanes with two tasks of two slices and a backlog of one: a task can
  move, be told of a detached loop, and be dropped on its way. Two children, one
  of which heeds SIGTERM, with room for one. Three calls in two cells and three
  cancels on two loops: storage is used again while a list along it is posted.
  Three instances for two users and an anonymous one, INSTANCE_MAX 1, one flush.
  Three steps; five timers with two children to a node (three levels); two slots
  with four generations. Two connections of two addresses with one descriptor to
  spare, so that one must be evicted for the other; two bytes of bodies with a
  share of one; and three policies on a lane that holds one.
- *process.* Two SIGHUPs make one come during the other's reload; each may find its
  configuration right or wrong, and the door not yet open, open, or closed by the
  drain; a relief and an error each come at any time; with one place in the
  blockers' queue a reload can find it full. Two puts of two jobs against a cache of one make one evicted; one
  fault and one crash can come at any point, and one after the other. Three
  attempts at a text of three pieces. Rings of one line, one used twice. One call
  whose every chunk takes all the credit, and two chunks.

Instances too large for the runs were checked once, with the same modules and
properties: the door with one lane, two connections of one address and Cap 2
(172,159 states), two lanes and one connection (143,339), and two lanes, two
connections and two descriptors (1,283,531); askai-cli with two calls (4,770,407)
and with one call, two credits, two to deliver and three chunks (279,030); the
logger with two rings of two lines and three lines each (608,439).

Fairness. `inbox`: the loop's thread and each poster's are scheduled, weakly fair;
no signal, no other descriptor and no new post is assumed. `waits`: handlers that
run end, and what follows an unlock is done, weakly fair; a message queued is
handled, which is what `Mailbox` promises, the journal's callbacks among them;
alarms due and steps readied are run; a request that has its result reads it to
the end, and a drain drops the others. These are strong, as another event of the
same thread can disable and enable them again, while the loop takes its mail and
its ready steps in order. Nothing is assumed of the upstream, the client, the
deadlines, or of a call's end. `parts`: each loop turns, its messages arrive and
its steps run, a killed child dies, the deadline of a drain passes, weakly fair;
strongly only the release of a connection that has closed, as every turn ends by
freeing what it reaps whatever it began meanwhile. `process`: each thread that can
go on does, the brainstem's, home's, the loops', the blocker's, the writer's, the
logger's and askai-cli's; a job that runs meets its deadline at the latest; nothing
is assumed of an operator, a client, a fault or a crash. Strong is only the network
thread's turn with mail or a wake-up, which its other events interrupt. In `waits`
and `process` one condition has a disjunct for each part: a behaviour is of one
part, so that each condition is one on that part's action.

`CHECK_DEADLOCK FALSE` in `inbox`, `parts` and `process`: loops, threads and the
process are gone in the end, as they should be, and bounded inputs run out.

### What the six violated runs show

`StorageComesHome` states `src/job.h:28-30`: home "gives the result's storage back
to its own stash, so that each buffer's storage is taken and given back by one
thread". The trace: a job ends FAILED with a write under way, so its completion
waits; the front cancels, and `home_release()` drops the answer; the write then
fails, and `home_journal_done()` writes "Transcript persistence failed" to the
result again before DONE; the front has no request, drops the last references and
frees that result on its own thread. The stash is a thread's own, so the storage
moves between the stashes; nothing is freed twice.

`InteractivePreempts` states `doc/core-design.md:265`. The trace: one slot; a
background job starts and its metadata is being written, without a transfer yet;
an interactive job queues, and `home_preempt_excess()` finds nothing that
`home_job_cuttable()` allows; the write ends and the transfer opens; nobody looks
again, so the interactive job waits for the whole background answer.

`OneRecord` states `src/mcp.c:3254-3256` and `doc/core-design.md:309`: a call that
went on as a job becomes no task, and its end is published in its record. The
trace: a client that declares the tasks extension asks with `--background` while
there is a journal; `mcp_req_tools_call()` sets `promote_at`, and the ask only
notes REQ_DETACH_PENDING; the first checkpoint takes longer than TASK_NS, so
`mcp_req_tick()` makes the call a task; the write ends, and
`mcp_req_archive_submitted()` detaches it once more as a job. `req->task` is
overwritten and the task's record never ends.

`CallEnded` states `src/mcp.c:3244` ("If the answer cannot go, the function ends the
record and the call") and `src/mcp.c:1060` (the slots of a spare request are
empty). The trace, of five states: `mcp_req_step()` calls `mcp_req_tick()`, which makes
the call a task; the answer cannot go, so `mcp_req_detach()` ends the request down to
`mcp_req_end()`; the step then goes on with `mcp_phase_steps[req->phase]`, here
PHASE_BUILD, which submits a job for a request that is spare.

`LegacyRetained` states `README.md:343`: jobs migrated from the legacy journal are
not evicted. The trace: a job of the legacy WAL is recovered, and the first record
written for it is a state, not text; its checkpoint is begun without the WAL's
records and without the mark, so they are no longer found, and it is evicted once
it has ended.

`StopWrites` states `src/log.h:100`: `log_stop()` asks the logger "to write what the
rings hold, then stop". The trace, of eight states: the logger finds the rings
empty; a thread puts a line; `log_stop()` changes the state; the logger, which has
still to look at it, finds it and stops. The line was in its ring when
`log_stop()` was called, and is never written. To read the state before the heads
would close the gap.

## Proofs

Each theorem is for every value of the constants, from the named assumptions of
the module alone. Each rests on an invariant that holds in the initial states and
that every action keeps; TLC checked each on a small instance before it was proved.

**The inbox** (`MailboxProofs`, for any threads and messages and every MAIL; `Null`
is no message, the loop's own thread is not among the posters, MAIL is a positive
number).

- `TypeCorrect`: `Spec => []TypeOK`.
- `WakeupNotLost`: `Spec => []NoLostWakeup`. `NoLostWakeup` is not inductive: it
  says nothing before the wait. `WakeInv` adds `WakeArmed`: from the loop's store
  to `asleep` on, until a wait that can sleep ends, `asleep` is still set, or the
  poster that cleared it has written or will write the eventfd. A push leaves its
  thread at "swap" with `asleep` set or a write on its way; the second look turns
  the wait into a poll if anything was pushed before.
- `ListsStayApart`: `Spec => [](ListsApart /\ NeverRefused)`. `ListInv` adds what
  ties the program counters to the lists: which of the lists may be non-empty at
  which place of `loop_collect()` (`Collecting`), and that a poster's message is
  its own, held, and nobody else's (`Holding`). That no two linked messages share
  a successor is what keeps the reversal and the join from making a cycle or
  merging two lists. The stale head in `loop_post()` is harmless as a message
  held is never the inbox, and the compare-and-swap links to a head only if it is
  the newest now, whatever it was in between.

**The inbox implements the mailbox** (`MailboxProofs`; messages are finitely many).

- `InboxIsMailbox`: `Spec => ImplementsMailbox`, the safety of `Mailbox` under the
  refinement mapping of `MCLoopInbox`, in which the abstract queue is the chains
  of links from the mail, the list that is reversed, and the inbox backwards. A push
  is a Put, a delivery a Take, and every other step, each round of the reversal
  and the join among them, leaves the queue as it is. `OrderInv` is `ListInv` with
  `Laid`: there are four sequences without a message in common whose neighbours
  are the links, one for the mail, one for what is reversed already, one for what
  is yet to be, one for the inbox. The chain of a message is a recursive function;
  that it is the sequence (`ChainIs`) is by induction on how far it has come.
- `NothingLeftBehind`: `Spec => []NothingLeft`, from the same invariant with where
  each message is, and with who may post once `loop_fini()` runs: the loop's own
  thread, within a handler, after which the inbox is collected again.

**A job between two threads** (`RequestProofs`, for any MaxRuns, MaxEvents,
MaxWrites).

- `JobSafe`, and of the run's specification `JobReferences`, `JobCompletion`,
  `JobReading`: the reference count is what holds the job, a run completes once, and
  what the request reads holds still. `JobInv` is `TypeOK` with `Agrees`, which
  relates the two threads' places to what each has taken of its word: whose bits may
  be set while the other has not taken its message, which of home's views of a
  run the front's allows, and what the completion waits for. Neither of the three
  properties is inductive without the others: that the count is right at DONE needs
  that DONE is told once, which needs that home reads no bit of a run that is over.

**A request** (`RequestProofs`, for any number of lives, turns, records and tools'
calls; at least one turn).

- `RequestLetsGo`: `LetsGo`, of one invariant, `Good`. A request that is neither spare
  nor at its end (`Works`) has one of three relations to what it called: it waits for
  nothing (`Quiet`), for its job (`Asked`: one name, one job at home or one completion
  in the inbox, and a delta only while the job is held), or for a tool (`Parked`). One
  that has ended (`Ended`) has none of them, whether it is spare, freed a slice at a
  time, or has its end being written. `Names` says which names each phase may have
  out and that at most one is a write's; `Owns`, that a record that works is the task
  or the admitted job; `Posted`, that a message names what the request once had, of this
  life or an earlier one, so that a late one is for nobody. `LetsGo` is not
  inductive: that `mcp_req_finish()` leaves nothing behind needs that all it does not
  look for cannot be there in that phase.
- A handler is a chain of functions of which any may end the request, so each function
  has a lemma: from a request that works, and what else its callers see to, it leaves one
  that is good. Every action is such a chain.
- The hypothesis, `OneEnd`, is what makes the two findings about requests impossible:
  no stream fails just as its call becomes a task (`LateLoss` FALSE), and no client
  that declares tasks asks for `--background` with a journal without a stream of its
  own (`Regular`). Without it the conclusion is false, as `request_once` and
  `request_late` show; all other clients are covered.
- `RunKeepsTypes`: `BothTypeOK`, of this invariant and of `JobInv`.

**Home's scheduler** (`HomeProofs`, for any jobs, principals, slots and limits).

- `JobsListed`, `NoStepLost`, `ProbesAlone`, `PreemptsOnce`, the action property
  `BackgroundWaits`, and `PlacesTold`, of one invariant, `Good`: `Sound` (the lists
  are those that the flags say, the counts those of the lists, the places those in the
  queues, the probe the one job that has the flag), `Starts` (a job that could start,
  and room for it, imply that the start step is armed) and `Ends` (likewise what
  preempts, cancels, sheds, and drains). The functions of `home.c` that its handlers
  share are operators from struct to struct, and each has a lemma: from a struct
  that is sound it makes one. Within a handler the struct is often not sound; the
  lemmas say by what (`EndIs`, `UnqueueIs`), and where it is again.

**The ledger** (`LedgerProofs`, for any finite sets of loops, records, waits and keys,
and any limits; LEDGER_MINE is above 1).

- `OwnersTrue`, `LimitsKept` and `LedgerTypes` of the ledger by itself, and of the run's
  specification `OwnersAlways`, `ReferencesExact` and `NoEventMissed`, of one invariant, `LedgerInv`.
  Its parts relate the five variables in pairs. `Shape`: the ledger by itself, each
  record on one list of one owner, the counts, the limits, an owner for all that has
  something; `InUse`: no owner without. `Known`: the ledger and the states of the
  records; what works is in the table, what has ended is on the ended list too.
  `Referred`: the references of a record and its holders. `Entered`, `Called`: the
  waits of the owners, their states and references. `Posted`: a wait is on one chain
  of one loop, or its message is queued, and `posted` says so. `Heeded`: what a
  parked wait may not miss. They need each other: that an end finds its
  owner needs that no sweep takes a record that works (`Known`), that a record
  dropped is not freed under its reader needs that it left the table once
  (`Shape`), and that a wait is told needs that the one whose message is posted
  already will look again (`Posted`).
- The functions of `ledger.c` are operators from struct to struct, and each has a
  lemma (`GcIs`, `DroppedIs`, `SweepsIs`, `OwnerGetIs`, `InsertedIs`): from a struct that
  has its shape it makes one. `ledger_owner_get()` may make an owner that has nothing
  until the insertion, so `InUse` has a second argument, the owners it makes no claim
  of; LEDGER_MINE above 1 keeps the owner in its table when its oldest record makes
  room.
  What leaves the table was ended (`Swept`), so the rest of the invariant follows
  from what the lists still say (`SweptOwed`).

**The logger** (`ProcessProofs`, for any rings of any size and any number of lines).

- `LoggerSafe`, and `LinesAreTrue` of the run's specification: the types, and that no
  line or order is slept on (`Sleeps`: where in its loop the logger may have missed
  what, and who wakes it then) and that a batch is whole (`Whole`: the heads that the
  logger saw are between its tails and the heads, which never lap them).

**The process's life** (`ProcessProofs`, for any number of client loops, any
blockers and place in their queue, and any SIGHUPs, reliefs and errors; the loops are
a natural number, and there is at least one blocker).

- `StopGoesInOrder` and `WorkIsCounted`, of one invariant, `LifeInv` with `Asked`.
  `JobsOnce`: a blocker's job waits, is in a thread's hands, or is on its way back,
  once; without it two walks could end one relief. `Ended`: a blocker ends with the
  queue empty, so that what is queued finds a thread to cancel it. `Births`: a thread
  that has yet to report has no orders and no job, so that its word and its message
  start in step (`Arrive`: the message is on its way exactly while the word holds
  something that the loop has not taken). `Draining` relates the brainstem's note
  that it gave an order to drain to the order and to what the loop did with it:
  that it is given once, and to a thread whose start overlaps the stop as well.
  `Stopping` says of each place of `brainstem_run()` who has ended; that home is alone
  needs it of the orders not yet taken too. `Relief`: a loop's share is in one place
  (asked, ordered or being done), and the count is one more than the shares, or
  the trim; while loops end it may only be more. `Asked`: a relief asks no thread that
  is yet to report, or it would be ordered of one that is not counted. `Reloads`:
  a reload that is done, with none ordered since, read the last configuration or was
  refused for it by the blockers, which the flag of a SIGHUP meanwhile has to keep
  until home has looked. What was read is then applied, refused as wrong, or not
  taken as the door is not open, and `WorkIsCounted` promises no more.
- The counting is of finite sets: each step that moves a share has a lemma on what
  that does to the cardinality.

**The journal** (`JournalProofs`, for any jobs, any of them in the legacy WAL, and any
limits and numbers of puts, faults and crashes).

- `AcknowledgedIsFound`: `Spec => []Recovers`. `known[j]` is what a client that heard
  of every callback may find of a job; `Recovers` says that each image which a crash
  may leave shows one of these. It is not inductive: what the writer has prepared must
  already be among them when it is renamed. `Prepared` says that of each of the
  writer's places: in "room" the new checkpoint is a known one with the record at its
  end, without those the record makes stale; from there on it is known itself; in "sync"
  it is the file. `FallsBack`: a job without a checkpoint has the records of the legacy
  WAL as a known view, as the next record joins those. `Retained`: a job of the legacy
  WAL has the mark in the table and in each image, so that it never expires and its
  view never falls back. `Gapless`: a job with a record lost has the error in its
  entry, which is what keeps the next from joining the rest.
- That the mark changes nothing of what is found (`ViewOfNew`) is a fact about
  sequences: that dropping two sets of kinds commutes, for checkpoints of any length
  (`WithoutBoth`), by `FromTheEnd`, induction over a sequence's last element, with
  which `Among` is shown to be what its last step says.

**The archive of reasoning** (`ReasoningProofs`, for any turns, numbered from one, and
any pieces, lengths, attempts and crashes).

- `CommittedIsSent`: `Verified`, of `RInv`. `Replayed`: unless it has failed, an attempt
  has seen as much as it sent, and that is the beginning of the file. `Sizes`: a
  cached size is the file's and a size committed is that of the commit, both but on
  a torn turn; there the file may be longer. `Synchronized`: nothing is committed of a
  file of which nothing is synchronized, so that a crash takes no text from a
  commit. `Ended` is the second half of `Verified`; that it is kept needs
  `Replayed` and `Sizes` when the commit finds nothing new to write.

**What is left on disk** (`ProcessProofs`).

- `ProcessRecovers`: `Recovers` of the run's specification, by instances of the two
  modules at the run's constants.

**The runs that compose instances** (`HomeProofs`, `ProcessProofs`).

- `RecordsAlways`: `RecordsKept` of the run that home shares with the ledger, by an
  instance of `LedgerProofs` at the run's constants, whose assumptions are shown to hold
  (`BooksGiven`, from the run's own that nullptr is none of the records).
  `PlacesAlways`: `PlacesTrue` of the process's run, by an instance of `HomeProofs`. Each
  definition of the one instance is shown to be that of the other, first of the
  functions, then of the handlers.

`ListProofs` has what these need of sequences without repetition, and `Naturally`,
induction over the naturals as a statement on sets (from a least element of the
rest), with which what `Taken` and `Chain` compute is proved for every length.

Only model-checked: liveness (`KeepsDelivering`, `WaitsOver`, `DrainEnds`, `AllEnd`),
which rests on fairness and on when steps are enabled, and the refinement's fair
part for the same reason; `Request`'s `WrittenFirst` and `MovesOn`; the parts of
`MCParts`; `Journal`'s `RoomKept` and the credit in askai-cli's `ClientTrue`, which are
sums over a set by a fold, and so induction over data; the rest of `ClientTrue`; and the
types of the other combined runs (`Types`, `TypeOK`), of which those of
`HomeScheduler`, `Ledger`, `LogRing`, `Brainstem` and `Blockers` are parts of the
invariants above, and most of those of `Journal` and `Reasoning`.

## Plan

1. Theorems: `Journal`'s `RoomKept`; `Request`'s `WrittenFirst`; `TaskPool`'s and
   `Roster`'s counts.
2. Further modules: askai-cli's files (`src/cli_state.c`, with crash and recovery),
   uploads, the swap of TLS contexts, the compare-and-swap of the notes'
   reference, a review's tasks, the policy's decisions as operators.
3. Abstract specifications worth stating: a job as one call with one completion,
   implemented by `JobChannel`; a journal as a set of committed records.

## Not modelled

`PROJECT.json` gives the reason for each component. Most of the code is sequential
work on bytes: the providers' protocols, JSON, HTTP's framing, the configuration's
parser, schemas, the tools' command lines and outputs, the formatting of pages and
manuals, the drawing of the terminal. Its hazards are those of parsing, which
unit tests and a fuzzer reach and a model of its control does not, so that the
map covers about a seventh of the implementation's lines. Left out of the modules
that there are: a request's compaction, agenda and dozing, reviews, what a restart
resumes, the protocol's eras, keep-alives and progress; the server's listeners,
flow control and TLS; the logger's rate limit and `log_fini()`; native
cancellation and back-pressure towards libcurl; and allocations that fail. Metrics
are counters with one writer. Plugins call outside services.
