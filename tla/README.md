# duetto: verification models

TLA+ models of duetto, the TLC configurations that check them and the theorems
TLAPS proves about them. The repository holds two programs and both are here:

- the **library**: WebSockets in Free Pascal (a server session layer over three
  platform transports, a sans-I/O protocol machine, a blocking client), under
  `src/source/units/`;
- the **delivery tooling**: Python commands under `src/.agents/skills/` that
  wait for checks and reviews on GitHub, trigger reviews, reply to them, keep a
  ledger of events, and guard pushes of stacked branches. They run as separate
  processes that share files, talk to a service that changes between any two
  requests, and may be killed and repeated at any time.

Paths in section 1 are relative to those two directories.

```
tlc -workers 2 -config MCServerHandlers.cfg MCServer   # any row of "Runs"
tlapm WSPostsProofs.tla                                # or any ...Proofs, ...Sessions
```

## 1. The system

### The library

| Part | State it keeps | Operations | Correct when |
|---|---|---|---|
| **Session layer** `WS.Server` | per connection: `FState`, the protocol object, the teardown flags `FDropPending` `FInDelivery` `FDropping` `FDropDeferred` `FFaulted`, the clocks `FDeadline` `FPingDue` and the published `FSweepAt` `FSweepPosted`; per server: the registry with `FRegistryIndex`, limits, the sweeper thread | `HandleAccept/Data/SendReady/Closed/Post`, `Send*`, `Close`, `Post`, `SweepClocks`, `Destroy` | OnOpen and OnClientClose pair up; nothing touches a freed connection; the last bytes get out before a drop; deadlines hold and cannot be stretched; output is bounded and never stuck |
| **Post queue** `WS.Transport.PostQueue` | linked FIFO, `FStopped`, a lock | `Push`, `Drain`, `Stop`, `HasPending` | no node lost, duplicated, reordered or leaked |
| **epoll transport** `WS.Transport.Epoll` | fd-indexed table, generation ids, interest flags, listener backoff, eventfd, `FRunning`, per-connection TLS close state | `Run`, `SubmitSend(V)`, `SubmitClose`, `SubmitPost`, `Stop`, `Shutdown`, accept/shed | exactly-once posts and closes; a stale event never reaches a newcomer; every short send gets its OnSendReady; the listener recovers |
| **IOCP transport** `WS.Transport.Iocp` | one receive and one send in flight per connection, pending counts, send-ready packets | completions, deferred finalization, graceful close | freed only with nothing pending, then exactly once |
| **Network.framework transport** `WS.Transport.NetworkFramework` | live list, in-flight posts, drain semaphore | blocks on per-connection queues | Shutdown returns only when nothing can fire |
| **TLS session** `WS.Transport.TlsServer` | carry of refused ciphertext, parked write, flags | `Ingest`, `Encrypt`, `DrainClose`, `FlushEgress` | wire order, bounded carry, close_notify before FIN |
| **Protocol machine** `WS.Protocol` with `WS.Frame`, `WS.Utf8`, `WS.Deflate` | carry, stream phase, message being assembled, close flags, out queue | `Ingest`, `Send*`, `QueueClose`, `Fail`, `OutConsume` | any chunking of the input gives the same result; RFC 6455 sequences; nothing after our Close |
| **Handshake** `WS.Handshake`, **URL** `WS.Url` | none | parse, build, negotiate | total on any input, incremental search equals full search |
| **Client** `WS.Client` | socket, protocol object, message queue, deadlines | `Connect`, `ReadMessage`, `Send*`, `Close` | bounded waits, close handshake |
| **Clock** `WS.Clock` | none | `WSMonotonicMs` | never goes back |
| **Transport contract** `WS.Transport` | event slots | abstract | what every transport promises to the session |

How they interact. A transport owns sockets and calls five events
(`OnAccept OnData OnSendReady OnClosed OnPost`), the events of one connection
never overlapping (ADR-0003). The session answers with `SubmitSend`,
`SubmitClose` and feeds bytes to the protocol machine, whose `OnMessage` comes
back through the session to the host. Host handlers run inside these events and
call back into the connection (`Send`, `Close`) or, from any thread, `Post`. A
sweeper thread looks at published deadlines every 100 ms and posts a
`CheckClock` to the connection's own context (ADR-0005). `Destroy` joins the
sweeper, quiesces the transport and releases what is left.

What is hard here: a drop discovered below a running handler; four ways into one
teardown; a published clock read without a lock; a check or a post that arrives
after its connection died; output that must drain before a drop against a peer
that does not read; short sends and the wake they are owed; Stop, Shutdown and
posting threads racing the reactor.

### The delivery tooling

| Part | State it keeps | Operations | Correct when |
|---|---|---|---|
| **Wait engine** `delivery-wait/scripts/kgr_github.py` | the state file with a digest of what was seen; the lock file beside it, which names its owner | `wait_for_transition`, `StateLock.__enter__/__exit__`, `load_state`, `save_state` | no change is recorded as seen and never told; a deadline hides nothing; one wait at a time works on a file, and a dead one blocks nobody |
| **Delivery wait** `delivery-wait/scripts/delivery_wait.py` | the census of workflow runs with `WorkflowCensusGate.previous` | `wait` and `inspect` on named checks, all workflows, a merge, a tag, a release; GraphQL, or REST when that is rate-limited | satisfied only if at one moment everything had passed; a failure ends the wait at once; both paths judge alike |
| **CodeRabbit adapter** `address-feedback/scripts/coderabbit_adapter.py` | a lock per owner; the triggers it posted | evidence on a head, `decide`, `run_review` | never triggers a review under way, nor twice; honours a refusal; "complete" is of this head and the newest pass; no wait is endless |
| **Review mutations** `address-feedback/scripts/review_mutations.py` | a checkpoint per operation, under a `StateLock` | `reply`, `resolve` | a reply is sent at most once, whatever dies or is lost; the receipt is true |
| **Review wait** `address-feedback/scripts/review_wait.py`, `review_observation.py` | none between requests | census of threads and reviews | what is reported was so at one moment |
| **Event ledger** `milestone-rush/scripts/event_ledger.py` | a file of JSON lines, a lock on it | `ingest`, `validate`, `summarize` | every run in it is valid, whoever ingests what in which order; nothing twice; the totals are exact |
| **Stack push guard** `git-workflow/scripts/stack_push_guard.py` | a guard directory: the admission, a frozen copy of the hook, receipts | `prepare`, `run`, the pre-push hook | a guarded push moves only what was admitted, from where it was admitted |
| **Stack state** `address-feedback/scripts/stack_state.py` | the snapshot its caller kept | `inspect`, `wait` | a snapshot is of one moment; the verdict names the first pull request whose evidence no longer holds |
| **Publication guard** `git-workflow/scripts/publication_guard.py` | the file of placeholders given to private names, a lock on it | `staged`, `outgoing`, `pr` | private references and local paths are rewritten out of what is published; a name keeps its placeholder |
| **Prose checker** `agent-writing/scripts/check_prose.py` | none | a scan of text | |

How they interact. The waits, `reply` and the stack wait all run under a
`StateLock` and most through `wait_for_transition`; everything else they share is
GitHub, which they read in several requests while people, CodeRabbit, GitHub
Actions and each other change it. A guard's hook is run by git below the command
it guards and may in turn run the hook it found in place, another guard's.

What is hard here: a list read page by page while it grows; a verdict made of
two reads with a push between them; an answer lost after the request was carried
out; a process killed between two writes; a lock taken over from the dead by two
at once; a lease refreshed behind the back of whoever approved the push.

`PROJECT.json` lists each hazard of both programs with its line and the property
that covers it.

## 2. Modules

| Module | Models | Role |
|---|---|---|
| `WSServer` | `WS.Server.pas`, and `WS.Protocol.pas` as far as the session sees it | the session layer, one action per callback, host call and thread step |
| `WSLifecycle` | the comments on the events of `WS.Server.pas` | abstract: what the host is told about one connection, in what order; `WSServer` refines it (`HostContract`) |
| `MCServer` | | instances of `WSServer` |
| `WSPosts` | `WS.Transport.PostQueue.pas`; `SubmitPost`, `DeliverPosts`, `Run`, `Stop`, `Shutdown` of `WS.Transport.Epoll.pas` | posts from any thread to the reactor |
| `WSMailbox` | the contract of `TWSTransport.SubmitPost` | abstract: exactly once, in order; `WSPosts` refines it (`ExactlyOnceInOrder`) |
| `MCPosts` | | instances of `WSPosts` |
| `WSPostsProofs` | | theorems about `WSPosts`, and that it implements `WSMailbox` |
| `WSServerProofs` | | theorems about the types of `WSServer` and its teardown, and that it implements `WSLifecycle` |
| `WSServerSessions` | | extends that: what a session says, holds back, waits for and schedules |
| `StateLock` | `StateLock` of `kgr_github.py` | the lock file, a step per system call, deaths at each |
| `ReviewReply` | `reply` of `review_mutations.py` | extends `StateLock`: what an invocation does inside the lock |
| `WaitTransition` | `wait_for_transition` of `kgr_github.py` | one command repeated by its caller, beside a changing GitHub |
| `DeliveryRules` | the judging functions of `delivery_wait.py` | operators: a check's context, what supersedes it, a census and its failures |
| `WorkflowWait`, `DeliveryWait` | the two halves of `delivery_wait.py`: the census of workflow runs; checks, merge, tag and release | GitHub and the reader, a step per request |
| `DeliveryCommands` | its `main` | composes the two by `INSTANCE`; fairness and properties |
| `CodeRabbitAdapter` | evidence and `decide` of `coderabbit_adapter.py` | operators |
| `CodeRabbitRun` | `run_review` with its lock | extends it: processes, CodeRabbit, people, time |
| `EventRules` | validity, provenance and totals of `event_ledger.py` | operators |
| `EventLedger` | `ingest`, `validate`, `summarize` | extends it: the file, its lock, failed writes |
| `StackPush` | `stack_push_guard.py` | guards, their commands, git, and others who move branches |
| `StackRules` | the comparison of `stack_state.py` | operators |
| `StackState` | its `snapshot` and `inspect` | extends both: a stack read while it is pushed to |
| `ReviewReplyProofs`, `CodeRabbitProofs`, `StackPushProofs`, `LedgerProofs` | | theorems about those modules |
| `DeliveryProofs` | | theorems about `DeliveryCommands` and the `WaitTransition` that runs it |
| `MCReply`, `MCWait`, `MCDelivery`, `MCCodeRabbit`, `MCLedger`, `MCStack` | | instances |

### WSServer

`conn[c]` is one record: the `TWSConnection` fields under the code's names
without the `F`, the few fields of its `TWSProtocol` and `TWSTransportConn` the
session depends on, and history (`opened`, `closes`, `wire`, `sent`, `asked`).
The procedures of the unit are operators from record to record under their own
names (`DropConn`, `FlushConn`, `DrainThenDrop`, ...), composed as the code
composes them; an action runs what one callback runs and commits the record,
taking the connection out of the registry when a `ReleaseConn` ran.

*Granularity.* `run` says what the connection's context is inside. Host code
runs between two actions: with `run` at `onopen`, `onmessage` or `onpost` the
handler may call `SendData` and `Close` any number of times (`MaxCalls`), return
(`HandlerReturns`) or raise (`HandlerRaises`); frames of one read are parsed one
action each (`IngestFrame`), so the sweeper, posting threads, the clock and
other connections interleave with them. Everything else in a callback is one
step: the context is serialized and shares only `FSweepAt`, `FSweepPosted` and
the registry with other threads, which the steps of those threads reach.

*Sockets.* A `SubmitSend` takes nothing, the first item, or everything, or finds
the peer gone; which, is chosen in every step. `owed` is the transport's
promise of an `OnSendReady` after a short send; `HandleSendReady` may also come
unasked, as the contract allows.

*Peers.* A request is refused (400, 431), answered (plain, 403) or upgraded,
possibly with frames behind it. A frame is a message, a ping, a Close, or a
violation of any kind; pongs only restart clocks and are covered by any other
read. Payloads, codes, fragmentation and compression are not told apart.

*Time.* Clocks hold the time left (0 not armed, 1 lapsed), which is what every
comparison in the code depends on; `Tick` lowers all of them. `CheckClock` may
run any number of ticks after the sweep that posted it. `SweepStale` is the
unsynchronized read: the sweeper acts on a `FSweepAt` that has just been moved.

*Posts.* `PostLookup` and `PostSubmit` are the two halves of `PostToConn`, with
anything in between. The inbox is the transport's per-connection FIFO, which
`WSPosts` shows for epoll.

### WSPosts

The reactor's program counter `pc` walks `Run`: wait, read the eventfd, take
the queue, deliver node by node, sweep once more at the end of the batch, test
`FRunning`. Posting threads push and wake in two steps. A delivery may close any
connection, or raise, which hands the rest back. `took` and `done` record what
was accepted and what was handed to `OnPost`, in order. Traffic is abstracted to
"a batch without, or before, the eventfd's event, closing any connections".

### StateLock, ReviewReply

The lock is a file: absent, made but still blank, or naming its owner. Creating
it, writing the owner, reading it, reading it again and removing it are steps of
their own, as are the two reads and the removal in `__exit__`; a process may die
at each. Whether an owner exists is asked of the operating system, which may
still say yes of a process that is exiting. Process ids are not reused.

`ReviewReply` runs `reply` in the lock: the head, the checkpoint, the replies
that carry the operation's marker, the head again, the checkpoint before the
request, the request, the listing that verifies it, the checkpoint after it. A
request is in `flying` from when it is sent until it is carried out, which may be
after its sender gave up or died, or never. `off` and `crowded` are history.

### WaitTransition

One wait state and its caller, who repeats the command. An observation shows a
value; `Class` is the command's classification of it and `Key` what of it
matters to the caller. The file is written between what was observed and what is
returned, the deadline passes and a signal comes at any step, and a kill may fall
between any two. `told` is what the caller knows.

### DeliveryRules, WorkflowWait, DeliveryWait, DeliveryCommands

A check is a record of its name, what made it, its suite, its start, whether it
is completed and how it ended; `DeliveryRules` says which checks are superseded
and what a set of them, a merge, a tag or a release comes to. `WorkflowWait`
reads a page, then a run's jobs, at a time, while runs start, add jobs, end and
are re-run; a page holds one run so that two runs are two pages. `DeliveryWait`
takes the GraphQL query as one step and the REST fallback as one step per
request. Its check runs carry what REST does not say (the workflow and event of
a suite) until the workflow runs are read. GraphQL leaves out an app that the
token cannot see: a check run counts there under what is left of its source
(`SeenSource`), and a world says which apps are hidden. `got` is what an
observation read so far, `green`, `bad` and `standing` are history.

### CodeRabbitAdapter, CodeRabbitRun

`Decide` is `decide`: which evidence counts for a head (its arrival, the current
cycle, the newest status, the summary comment's versions, the triggers) and the
state it comes to, branch by branch. `CodeRabbitRun` reads that evidence in two
steps, the head with its statuses first and the rest after, beside CodeRabbit
(which starts, publishes, completes, loses, refuses and skips), people (who mark
ready, push away and back, close, comment) and up to two runs of the adapter, any
of which may die. `bot.stated` remembers which versions of the summary comment
state a wait for CodeRabbit's last refusal, as far as GitHub's history can still
show them (of two edits within one second it keeps the later). Times are units:
each of the adapter's bounds is one or two of them, an observation takes less
than one, and a listing may lack comments of the last `lag` units.

### EventRules, EventLedger

An event keeps what the rules tell apart: its identity, type, span, time, result,
stream, mode, baseline, sequence number and one counter. The file is a sequence
of pieces of text: the two parts of an event's text, which parses only when whole,
and the newline. `ingest` parses its input, takes the lock, judges the batch as a
whole against the ledger, and writes what is new (`New`) piece by piece. It may
fail before any piece. The lock is freed first (`event_ledger.py:373`), and what
is still buffered is lost with the process, or written, wholly or in part, by the
close that comes after the unlock (375), between the steps of whoever holds the
lock by then. `last`, `admitted` and `late` are history: the batch each run was
last found valid with, who was admitted last, and whether a failed ingest wrote
after another had been. The sums of
`summarize_run` are sums over the events of a stream, of a model and over the
streams, in no order: what an event adds (`Contribution`) is its value or the
difference from the last one measured before it in the stream. Values are natural
numbers; the code takes non-negative floats too and adds them with their rounding.

### StackPush, StackRules, StackState

A guard is prepared from what the checkout and the remote showed when somebody
approved; then its command runs, git works out the updates from what there is
*by then*, and the hook judges them. The hook found in place may be another
guard's, which judges and records too; they nest two deep. The remote takes each
update, or an atomic push as a whole, only if the branch is still where git saw
it. Git reads the checkout and the advertised heads in one step. Meanwhile
branches move on both sides, the push URL changes, files of the guard are
changed and any of the processes is killed; what was sent may arrive afterwards.

`StackState` adds the stack of pull requests over those branches (a pull
request's head is its branch's), inserts, merges and restacks, and the four
requests of a snapshot: stack, base, stack again, base again. The base branch
only advances.

## 3. Runs

A world is a kind of repository and use, with its bounds; `Init` chooses one, so
that one run covers several. They are in the `MC` modules.

| Run | Instance | Checks |
|---|---|---|
| `server_handlers` | 1 connection, 1 poster; all frame kinds, 2 per read, 2 reads, 2 calls, 1 pending post, cap 2; no clocks | `NoUseAfterFree`, `WireDiscipline`, `OutputBounded`, `NothingStranded`, `DrainedBeforeDrop`, `HostContract` |
| `server_clocks` | 1 connection, fair; handshake and close timeout 1, ping after 2, idle after 3 ticks; 1 read of 1 frame, 1 call, 1 post, cap 2 | `NoClockForgotten`, `WaitNotExtended`, `AskedBeforeIdleClose`, `StallsEnd`, and no deadlock |
| `server_registry` | 3 connections, at most 2 live, 1 poster, no frames; symmetric | `OpenClosePaired`, `RegistryExact`, and no deadlock |
| `posts` | 2 threads, 2 connections, 2 envelopes, 2 calls of `Run`, fair | `NoLostWake`, `NothingLeaked`, `ExactlyOnceInOrder`, `PostsSettle` |
| `posts_stop` | 1 thread, fair | refutes `StopUnblocksRun` |
| `reply` | 3 invocations of one operation, one with another body, 1 death | `RepliesOnce`, `ReceiptTrue`, `NothingSentStale`, `HeldApart`, `RefusedByOthers` |
| `lock_takeover` | as `reply` | refutes `OneHolder` |
| `wait` | 6 values (two share a key, three decide), 2 changes, 1 kill, either order of change and decision, a new file or another wait's; fair | `NothingSwallowed`, `TimedOutSawNothing`, `ChangeTold` |
| `delivery` | 4 censuses (2 runs with a re-run; 3 runs racing the pages; 2 jobs; no confirmation) and 8 other waits (a workflow on push and on pull requests; an app beside statuses; three statuses of a context within a second; two apps of which GraphQL hides one; two apps and a workflow all of which it hides; merge; tag; release with 2 assets), fair | `GreenTogether`, `FailFast`, `WaitEnds`, `FallbackAgrees`, `NothingOverlooked` |
| `coderabbit` | 7 worlds: a cycle with draft and earlier review, repeated passes, refusals with faults, a shared head, pushes, skips, two runs that may die; 5 or 6 units of time | `TriggerWhenIdle`, `NoRepeatedTrigger`, `SilenceEnds`, `RefusalHonoured`, `CompleteIsCurrent` |
| `ledger` | 4 worlds: spans with 2 ingests; counters of every mode with 1; batches of one and of two runs with 2, and 2 failures; a span, a counter and superseded work with 2, and 1 failure | `LedgerValid`, `WrittenOnce`, `SummaryExact`, `RetryHeals` |
| `stack` | 4 worlds: two guards on 2 branches and 1 move of others; one guard, 3 moves; 3 pull requests read through 3 moves; a guarded push while a stack of 2 is read; symmetric in guards | `OnlyAdmitted`, `VerdictTrue` |

**Why these bounds are enough.** *Library.* Two reads of two frames let a frame
follow a failure, a close or a deferred drop, in the same read and in the next.
Two calls let a send follow a failing send, a Close follow a send, and the queue
pass a cap of two items while a third is offered. Ping 2 and idle 3 make
`IdleTimeout - PingInterval` smaller than either, so a late check meets every
order of the two; with every timeout 1 a wait lapses while a handler runs. Three
connections in a registry of two exercise the swap (hole in the middle, hole at
the tail), reuse of a slot, and the refusal. Two envelopes of two threads give
one in the reactor's chain or in flight while the other is queued or refused; the
theorems cover any number. *Tooling.* Three invocations are one that dies, one
that takes its lock over and one that meets both. Two changes let a value come
back to one seen before; the two values with one key, a change that is none. Three
runs on three pages let a run appear before, between and behind the pages read.
Two jobs let one be added after the other was read. Two runs of one name with
different origins are what supersedes and what does not; of three statuses of a
context, the middle one can be current when it is read and superseded later. In the adapter, five
units hold a trigger, the wait for its answer and another decision. Four
versions of a stack (three moves) leave one between every two of the four
requests. The bounds (`Max...` and those the worlds name) sit in guards and cut
off behaviours, never parts of a step.

**Fairness.** `FairSpec` of `WSServer` asks for: time (`Tick`); the sweeper
thread, which wakes every `SweepIntervalMs` (`SweepClocks`); handlers that
return or raise (`HostStep`, a host obligation of ADR-0003: a handler that
blocks blocks its context); and contexts that finish the frame loop, deliver an
envelope the transport owes, and report a peer that is gone (`ContextStep`).
Nothing is asked of peers, of the socket, or of host calls. `FairSpec` of
`WSPosts` asks that the reactor thread takes the next step it is not blocked in,
that `Stop` finishes, and that a posting thread finishes its call; never that
traffic arrives, `Run` is called or `Shutdown` happens. `WaitTransition` asks
that an invocation runs on, that its deadline comes, and that the caller repeats
it, which `SKILL.md` of delivery-wait tells it to; that GitHub answers now and
then is not assumed but the antecedent of `ChangeTold`. `DeliveryCommands` asks
that the census reads on and that jobs, and runs whose jobs have ended, end;
never that a run starts. The other models state safety only; that no wait of the
adapter is endless is checked as `SilenceEnds`, a bound on the decision in every
state.

**Divergences.** Two runs show the code doing other than it says:

- `posts_stop`: "Unblocks Run" (`TWSTransport.Stop`). `Run` begins by setting
  `FRunning`, so it overwrites the `False` of a `Stop` running at that moment.
- `lock_takeover`: "checkpoint is already owned by process ..." keeps waits
  apart, except that two of them taking over the same dead owner's lock can both
  get in: each re-reads the stale lock before the first removes it, and the
  second removes the first one's new lock. `HeldApart` shows that it takes a death.

Further ones were met while modelling, and the properties above are stated so
that they do not depend on them:

- "The budget is armed once per drain" (`docs/architecture.md`,
  `CloseTimeoutMs`): after a protocol failure a connection drains with `FState`
  still `wcsOpen`, and a posted proc that calls `Close` arms the budget again.
- "then drop: at once when it is out, once it drains otherwise"
  (`DrainThenDrop`): in that situation a posted proc that *sends* empties the
  queue through `FlushConn`, which does not drop. A silent peer keeps the
  connection until `CloseTimeoutMs`, and for good when that is 0.
- A wait that dies between creating its lock and writing its owner leaves a lock
  that refuses every later wait. A wait that finds the lock removed between its
  two looks is refused by whoever removed it, who may have died since. Both cases
  are named in `RefusedByOthers`; the second takes two deaths.
- A wait that is killed between writing its checkpoint and its result has
  recorded a change its caller never hears of (`crashes = 0` in
  `NothingSwallowed` and `ChangeTold`).
- A draft skip that answers another pull request on a shared head hides that
  head's running review from the adapter, which may trigger, or take an older pass
  for the newest; `OwnDraftSkips` names that one status in `TriggerWhenIdle` and
  `CompleteIsCurrent`, and the worlds leave it out.
- Two runs for one owner, the second of which lists comments before GitHub shows
  the first one's trigger, both trigger (`Lag = 0` in `NoRepeatedTrigger`).
- A ledger whose last line lacks its newline gets the next event on the same
  line, which no longer parses; an event reported as ingested may be on it.
  `WrittenOnce` names that line (`Glued`), which the worlds contain.
- A failed `ingest` frees its lock (`event_ledger.py:373`) before it closes the
  file (375), and the close writes what the failed write or flush has left
  buffered. An ingest admitted in between did not see it: if its batch is the same
  one, events are in the ledger twice, and if it is another, a run may be left
  conflicting or invalid and refuse the batch that is offered again, though
  `references/event-ledger.md:19` promises that a repeated event is idempotent and
  a conflicting one is rejected. `WrittenOnce` and `RetryHeals` stop at that write
  (`late`), which the worlds contain, and hold through a close that writes before
  anyone else is admitted. `LedgerValid` is about ledgers without failures. On
  Windows the unlock first flushes what is buffered, by its `seek(0)`.
- GraphQL names no app that the token cannot see, so that such apps share a source
  (`check_source`, `delivery_wait.py:174`), while REST names it (144-148). Two of
  them which run one check of one name are then judged as one over GraphQL, where the
  newer suite supersedes the other, and each by itself over REST: the paths differ.
  `FallbackAgrees` names that case (`SharedSource`), which a world contains, and
  holds for one hidden app beside any number of others. Hidden workflows are
  no such case, since their sources are still told apart by workflow and event.

## 4. Proofs

See the theorem list in `PROJECT.json`; each holds for every value of the
constants satisfying the module's `ASSUME`.

**WSPostsProofs.** `HandOffExact` (what was taken = what is done, then what the
reactor walks, then what is queued, without repetition) is not inductive alone:
a push keeps it only if the pushed envelope was never taken, a drain only if the
reactor holds no chain where it drains, and `NothingLeaked` needs to know where
a queued post's node can be. `IInv` adds exactly that: `NewUntaken`,
`ChainPlace`, `QueuedHeld`, `StoppedEmpty`, `DownStopped`, and for the wake
`WakePending`. One lemma per way nodes move (`PushKeeps`, `DrainKeeps`,
`DeliverNextKeeps`, `DeliverRaisesKeeps`) and one, `NodesAtRest`, for the steps
that move none; four facts about concatenation carry the sequence reasoning.
From `IInv` follow `NoNodeLost`, `WakeNeverLost` and `ShutdownLeaksNothing`.

That `WSPosts` implements `WSMailbox` needs two more
facts, and `RInv` is `IInv` with them: `PendingQueued` (an envelope that was taken
and not yet settled is still undecided, so settling it decides it once) and
`RefusedHeld` (a caller that was refused holds an envelope of its own, refused
and not yet given back). A push maps to `Accept` or `Refuse`, the return of a
refused call to `HandBack`, a delivery to `Settle(1)`, a delivery that raises to
`Settle(Len(chain))`, and every other step to a stutter. No fairness is involved:
that posts settle at all is `PostsSettle`, which is model-checked.

**WSServerProofs.** The promises on teardown (`OpenClosePaired`,
`NoUseAfterFree`, `RegistryExact`) lean on each other: `DropConn` is safe only
because the drop of a connection that is inside a delivery is deferred, the
registry is exact only because whoever sets `FDropping` also removes the
session, and `OnClientClose` is called once only because nothing refers to a
session that has begun to drop. `IInv` says what each procedure relies on. A
session is `Lawful`: the transport's `UserData` is set exactly while it is live
and not dropping, `FInDelivery` exactly while one of its callbacks is on the
stack and never under a drop, `OnOpen` has run exactly when the handshake is
over, and the close is counted when it begins. The registry is exact. What
`Destroy` still has to release is detached, idle and listed once
(`LeavingExact`).

The proof follows the unit's own structure. Inside a delivery every procedure is
`Alike`: it leaves what the invariant reads unchanged, because drops are
deferred (`...Alike`, `...Inside`). At the end of one, or outside, a procedure
turns a lawful record into a lawful one (`...Good`). `RegistryRemoveExact` is
the swap-remove: hole in the middle, hole at the tail, last element. `CommitKeeps`
joins a record that began to drop to its removal, and one lemma per action
(`...Keeps`) makes the step. `TypeOK` is proved first, one lemma per procedure.
The constants are any that satisfy `ServerAssumption`: the result is independent
of the number of connections and threads, of every timeout and limit (0 for
none included) and of the bounds on the environment.

That `WSServer` implements `WSLifecycle` rests on `IInv` and on when a session
still hears messages. `Hears` says it of one record between
two actions: code runs for a session only after `OnOpen`; a drop that was put
off is carried out as soon as the delivery unwinds; an open session drains only
because it failed, its handler raised or the peer closed; before `OnOpen` none of
that has happened; and while frames are left to parse it has neither failed nor
seen a Close, which is why a message parsed from them may be delivered.
`ProcsOpened` adds that a proc is posted only to a session that saw `OnOpen`.
`RInv` is the three together. Again the proof follows the procedures: each leaves
what the contract and `Hears` read unchanged (`Plain`), or only notes a deferred
drop (`Deferred`), only starts to drain (`Drained`) or ends the session (`Ends`).
What a callback makes of a record is then `Moves` (it goes on, or ends), `Opens`
or `HearsMessage`, and each of these is a step of the contract or none
(`...Told`): going on is `Return`, `Condemn` or a stutter; an end is `Notify` for
a session that opened and `Vanish` for another; `DeliverPost` is `RunPost`,
`CloseReturns` is `Release`, `Destroy` is `Shutdown`, `ReleaseNext` an end.

**WSServerSessions.** The other promises of the session layer speak of what one
session has said and scheduled: `WireDiscipline`, `OutputBounded`,
`NothingStranded`, `NoClockForgotten`, `WaitNotExtended`, `AskedBeforeIdleClose`,
`DrainedBeforeDrop`. None is inductive alone. The wire keeps its order only
because whoever ends it (a Close, an answer) also says so in the machine's flags;
the cap holds at rest only because every procedure that appends either flushes,
drops or begins to drain; an idle peer was asked only because the ping comes
before the deadline as long as both clocks run, and what is left of the deadline
once it is queued is known. `Sound` says this of a record between two callbacks:
the wire and the queue together are `Disciplined` and agree with the state, the
flags and the count of sends (`Spoken`, `Flagged`); the next check is the one
`Reschedule` computes (`Scheduled`); an open session is `Asked`; a live one that
is not being dropped is `Rested`. `Counted` adds that exactly one check is in a
session's inbox when `FSweepPosted` is set and none otherwise. `SInv` is `RInv`
with both of every connection; TLC checked it on the three `server_` instances
before it was proved.

The proof again follows the procedures: for each one what it does to a record and
that it keeps it `Tidy`; then one lemma per callback (`...Kept`), which says that
the record is `Sound` again and what the callback did to the deadline, to an
idle close and to the output of a dropped session; then one per action
(`...Followed`), which carries this to every connection. The three action
properties follow from the same lemmas, not from `SInv'`: they relate the two
ends of a step.

**ReviewReplyProofs**, from `LockAssumption` and `BodyAssumption`. That a reply
is sent once rests on an order: the checkpoint is on disk before the request is
made, and an invocation that finds a checkpoint never makes one. `ReplyInv` is
this order at every step of every invocation. `LockInv` ties the lock file to the
steps inside it (whose it is, who may remove it, and that without a death there
are no two inside). `Sending` says that without a checkpoint nothing was sent,
that who has not been inside has done nothing, and, as long as nobody was
crowded, that the one about to send has nothing in flight or on GitHub and that
there is at most one request or reply in all; `Receiving`, that what an
invocation believes of the reply is so; `HeadLeft`, that a head once left is not
come back to. One lemma per action. From it: `AtMostOneReply`,
`ReceiptsAreTrue`, `NeverSentStale`, and, for the lock alone, `ApartUnlessDead`,
for any number of invocations and deaths. `RefusalsMet` needs more of the lock:
who refuses is there until a second one dies. `RefusalInv` follows the lock's
story until then: nobody came (`Fresh`), the `First` to come is there and all the
others found its lock, somebody who got it lives on (`Lasting`), the first died
and the others read its lock with both attempts left (`Abandoned`), one of them
removed it and is about to try again (`Cleared`).

**DeliveryProofs** has two parts. *What is told*, from `WaitAssumption`: `WaitInv`
adds to the types of `WaitTransition` that an invocation which runs on has the
file of this wait (`FileMine`), that without a kill the digest it compares with,
or has just written, is what the caller was told or is about to be told
(`CallerKnows`), and that something observed that ends a wait is in hand until it
is returned (`Noticed`). `NeverSwallowed` and `DeadlineHidesNothing` follow for
any values, classification and key.

*What is observed*, from `CommandAssumption`. Both halves of a wait compare what
several requests returned while GitHub moved between them, so the invariant says
what each answer is still worth. *Census* (`CensusInv`): what a listing said of a
run stays so until the run is started again (`CensusRead`); if something was not
green when a census began, that census has a run or an attempt which the one
before lacks, or shows the failure (`Unlike`), so that two complete censuses which
agree on green had a green moment, the one at which the second began; and a
failure that stands is in the census that is judged (`Blamed`, `Told`).
*Checks* (`SnapshotInv`): what stood when the observation began and still stands
only shrinks (`StillStanding`, `StoodBefore`), and the checks and statuses read so
far contain it or what superseded it (`RunsRead`, `StatusesRead`, `Caught`). That
the REST reading is judged as the query would have been is `SameJudgement`, a
fact about the judging operators alone. The two readings give a check run of a
hidden app different sources, and which check supersedes which depends on nothing
but whose sources are equal: two check runs of one name have the same source in
both or in neither (`SameSource`), none has that of a status (`StatusSource`,
for which `CommandAssumption` says that no hidden app is called `status`), and
therefore the same checks are current (`JudgedAlike`). `DeliveryInv` joins the halves; from it
`SatisfiedWasGreen`, `FailuresAreTold`, `FallbackIsFaithful`,
`NothingIsOverlooked`. The last property had to be corrected to be proved: it told
the statuses of a context apart by their time, in seconds, and of three posted
within one second took one for another; it now identifies them (`Contexts_`).

**CodeRabbitProofs**, from `BoundsAssumption` and `RunAssumption`: for any bounds
of the adapter, any number of runs and any length of evidence. What a run decides
rests on statuses it read first and on comments it read later, so `CInv` says what
of the one is still true at the other. `Typed`, `Versions` and `Comments` give the
evidence its order in time. `Bot` ties CodeRabbit to it: while it reviews the head
the newest pending status is of that review and nothing after it ends one
(`InReview`), a review it lost is `Unfinished` in the history, and nothing ended
later than `bot.ended`. `Resting` keeps this between the two reads: as long as the
review that was under way at the first is, the statuses read then show it.
`Process` says that a run that is alive still has every trigger it posted, whoever
lists comments late. With these, one lemma per question runs through `decide`:
what a trigger implies of a pending review and of an earlier head's
(`Idle`), and of the triggers there are (`Posting`: each was followed by a status,
a push or a ready event, or the decision would have been "triggered").
`Unrepeated` carries the last to the posted trigger, one lemma per action.

From `CInv` follow `TriggersWhenIdle`, `TriggersOnce` and, with what a step does,
`CompletesCurrent`, whose point is that `reviewed_since` is no earlier than anything
that could make a pass obsolete. `WaitsEnd` is about the decision alone: of every
branch of `decide` that waits, the time it waits for is at most the longest bound
after some event in the evidence, so that in silence that time passes. Two
properties had to say what they depend on before they could be proved: a draft
skip for another pull request hides a review (`OwnDraftSkips`), and two
*processes* can both trigger when GitHub's listing lacks the first one's comment,
which one process, keeping what it posted, cannot.

`RefusalsHonoured` needs to know which of the comment's versions still count.
`Refused` says it: what CodeRabbit stated for its last refusal are the newest
versions of their seconds, the newest of all is among them, and the refusal's
status came no later than `Correlation` after the first. So the adapter, which
pairs a status with the newest version of each second in that window and retries
after the last of their waits (`WaitCovers`), has all of them in its evidence
whenever it judged that status (`RefusalDecided`), however the comment was edited
between its two reads. An earlier form of the property, about one wait, was true
only where no second holds two statements; this one is about all that were stated
and can still be seen.

**StackPushProofs**, from `PushAssumption` and `StackAssumption`. `OnlyAdmitted` speaks of what moved,
long after the hook judged it. `PushInv` follows a push from one to the other:
`Judged` (once checked, all of its updates are the guard's), `JudgedOutside` (the
hook found in place has agreed and recorded it), `Recorded` (the receipt is on
disk before git may send), `Settled` (what moved is of a guard past its approval,
and a hook found in place is of a guard already approved, so neither admission
changes any more). It is proved under `StackState`'s
specification, whose other steps touch none of this.

`VerdictTrue` has two parts. `Compared` is about the operators: for any two
snapshots in which no pull request stands twice, position by position and set by
set comparison finds what the longest common prefix of the evidence says.
`ReadInv` is about the readings: GitHub's stack has each branch once whatever is
inserted, dropped or merged (`Once`); the stack read twice is the one there was
at the second reading (`GotInv`), whose base lies between the two readings of a
base that only advances, so that equal ones make the four requests one moment;
and what is kept is such a moment (`KeptInv`). `StackAssumption`, that a stack
starts with each branch once, is what `parse_stack` demands of every stack.

**LedgerProofs.** `WrittenOnce` is about lines, and the text of a line is written
in pieces, under the lock or after it. An ingest is `Active` while nobody was
admitted after it: only such a one may write without being `late`, and of two
ingests at most one is. So at any time one writer's output goes to the end of the
file, and `Writer` says what it has still to write: the rest of the event it has
begun, whose last piece is the end of the file, and events whose key is nowhere in
it; what it has written of its batch is there on lines of its own (`Recorded`),
unless somebody's text was `Glued` to a torn line. From that `Joined` (a piece
that is no head comes behind the one before it) and `Distinct` (no event is begun
twice) are kept by every write (`WriteFile`, `WriteOn`); they hold when the next
ingest is admitted, which finds a ledger that parses and judges its whole batch
against it (`AdmitInTime`), and when nothing is left to write all of the batch
stands on lines, which is when it is acknowledged (`CommitInTime`). `InTime` is all
this, as long as nothing was `late`.
`LedgerValid` needs `Sound`: without failures every run in the file is valid while
nobody writes, and while somebody does, every run of the file and the batch
*together*; half a batch may well be invalid, which is why a failure ends the
promise. A batch leaves the runs it does not touch alone (`JudgedValid`). `LInv`
joins these to who holds the lock (`Locks`). `LedgerAssumption` asks that batches
are sequences; `LegacyAssumption`, that what the ledger held at first is what
ingests leave: valid events, none twice, every run valid. The rules of `EventRules`
are not unfolded here: these results hold for any rules of validity.

`RetryHeals` is about what an ingest leaves that failed in the middle of a batch:
the run in the ledger may well be invalid then. `HInv` says what it lacks. Every run
*together with the batch it was last found valid with* is valid (`Completable`),
before, between and after the pieces of that batch, since they only move events
from one part of the union to the other (`HealsWrite`); the batch of an `Active`
ingest is the last one of all its runs (`Current`), so that this holds of what a
close writes too, while nobody else was admitted. An ingest of another batch that
is admitted replaces it for the runs that it touches, which are valid with it or
it would not be admitted, and leaves the others alone (`HealsAdmit`). Nothing here
rests on newlines: the promise is about ledgers that parse.

`SummaryExact` is arithmetic. The library's sum is a choice among the solutions of
a recursion over the subsets of a finite set; that it has one (`PartialExists`),
that any two agree (`PartialSame`) and so that elements may be taken from a sum in
any order (`SumTake`) is proved from the well-foundedness of inclusion, by a
minimal counterexample (`Minimal`) in place of an induction. `SumParts` and
`SumPlus` then split a sum by its indices and by its terms. For one stream,
`Spanned` is what summing consecutive differences keeps: up to any sequence number
it is the last measured value less the base, wherever samples measured nothing
(`SpannedMore`). That the last value is the greatest and the base the least is
what `ValidStream` demands (`FinalValue`, `FirstValue`). For the run, the events of
one model after the other are taken out of the count (`ModelsSum`). That values
are natural numbers is not assumed but part of what makes an event valid.

**Only model-checked.** Liveness, which is out of the prover's reach: `StallsEnd`,
`PostsSettle`, `WaitEnds`, `ChangeTold`. Every other property of a run is stated by a
theorem. The type invariants of `WSServer`, `WSPosts`, `ReviewReply` and
`WaitTransition` are proved under that name; in the other modules with theorems
the types are part of the inductive invariant. The divergences are counterexamples
and need no proof.

## 5. Plan

Next, in this order:

1. `ReviewCensus`: the paged census of threads and reviews while GitHub changes,
   and `resolve`; `PublicationGuard`: the placeholder map under its lock, saved
   after the index was rewritten.
2. `WSProtocol`: `Ingest` as a step machine over symbolic bytes, with carry,
   stream phase, fragmentation and control frames; `WSDuet`, client and server
   machines joined by two channels that re-chunk freely: any chunking gives the
   same messages, conformant peers never fail each other, both see the close.
3. `WSEpoll`: descriptors and generations, accept with shedding and backoff,
   interest and the send-ready debt, deferred TLS close; refines a transport
   contract `WSTransport` that `WSServer`'s environment assumes.
4. `WSTlsServer`: carry, parked write, backpressure and close drain.
5. `WSIocp`, `WSNetworkFramework`: finalization and shutdown drains against the
   same contract; `WSClient`: close handshake and bounded reads.
6. Operators with reference definitions: UTF-8, header-block search, extension
   negotiation, frame header, bind addresses.
7. Proofs of what these modules will promise, foremost that `WSServer` over
   `WSEpoll` keeps what it promises over `WSTransport`.

## 6. Not modelled

The parts of section 1 without a module are planned, not done; so are, of those
with one:

- `WSServer`: payload bytes and sizes (an item of output counts as one), close
  codes, the host's `UserData`, TLS below the transport contract, memory
  exhaustion. `WSPosts`: a failed eventfd creation, and connections accepted
  after the start.
- Delivery waits: `workflow-terminal` and `wake-at` (one read, or none),
  `--all-workflows` together with `--check`, checkpoints of an earlier release.
- CodeRabbit: the `status` command's set of heads, the wording of statuses and
  comments (a status is its kind), paging.
- Ledger: gauges, coverage lists and the provenance of the summary, the form of
  each field, the rounding of floats.
- Review mutations: `resolve`, which keeps nothing.
- Push guard: the form of refs and object IDs, the file checks of `prepare` and
  the hook's environment, all of which either let a command go on or stop it.
- `wait` of the stack and of reviews run `wait_for_transition`; their
  composition with `WaitTransition` is not made.

The prose checker is a scan of text. Nearly all of the publication guard rewrites
text with regular expressions, and what those match is outside what these models
tell apart. Test and benchmark applications, comparison scripts and vendored
packages keep no state that either program's correctness rests on.
