# Verification of ffmpeg-agent

TLA+ models of this repository's own program, the agent under `agent/src`: an
HTTP worker that accepts one FFmpeg job per request, downloads its input, runs
FFmpeg, uploads the output and reports with callbacks; and of the end of the
workflow that publishes its images. The modules are translated from the source;
line numbers below refer to it.

* [Inventory](#inventory)
* [Modules](#modules)
* [Runs](#runs)
* [Fairness](#fairness)
* [Proofs](#proofs)
* [Disagreements found](#disagreements-found)
* [Not modelled](#not-modelled)
* [Plan](#plan)

Run a model with `tlc -config X.cfg M`, check a proof with `tlapm M.tla`;
`PROJECT.json` lists the runs, the mutants that show that each property can
fail, and the source lines behind every definition.

## Inventory

| Part | Where | State | Operations | Interacts with |
|---|---|---|---|---|
| Admission | `main.rs` 24-108 | identifiers in flight, permits | authenticate, submit | puts an `Accepted` into the channel, spawns its heartbeat |
| Queue and workers | `engine.rs` 94-109, 189-227 | channel, lock on its receiver, phase of each job | lock, receive, execute, conclude | share identifiers and permits with admission, the phase with the heartbeat |
| Shutdown | `main.rs` 136-188 | the cancellation token | signal, graceful stop, cancel, join | every worker and heartbeat selects on the token |
| Callbacks | `engine.rs` 126-187 | sequence counter of a job | notify, tick, retry | two tasks of one job, the caller's server |
| Job execution | `engine.rs` 323-547 | job directory, outcome, transfer attempts | download, encode, upload, retry | two servers and an FFmpeg process |
| Stall watch | `engine.rs` 234-282 | progress clock, sizes of the last scan | touch, scan | touched by transfers, progress lines, phases; ends the execution |
| Progress reader, log capture | `engine.rs` 285-321, 372-391 | a line, three maxima; head and tail of stderr | read a chunk | touch the clock; go into the terminal event |
| Listen socket | `listen.rs` | a path with an inode | bind, drop | other processes at the same path |
| Work directory | `engine.rs` 63-85 | a file lock, `job-*` directories | lock, clean | other processes on the same directory |
| Key store | `auth/jwks.rs` | cached keys, fingerprint, time | lookup, load | the host, which rotates the file |
| Token verification | `auth/jwt.rs` | none | verify | the key store, the clock |
| Authentication settings | `auth/mod.rs` | the policy, fixed at the start | from_env, bearer | the environment |
| Job document | `model.rs` | none | validate | admission; its arguments become the command |
| Configuration | `config.rs` | constants | load | everything |
| Release workflow, CD signer | `.github/workflows`, `third_party/hng-cd-sign` | tags, Releases with assets, the files of a run | tag, sign, attach, prune | GitHub |
| Image, unit, tests | `Dockerfile`, `agent/deploy`, `tests` | none of their own | build, supervise, measure | Docker, systemd |

What is hard here, and what makes each part right:

* **One thread, many tasks.** The runtime is `current_thread`: code between two
  awaits is atomic, everything else interleaves. Admission, workers, heartbeats
  and the signal task share five pieces of state that are updated at different
  awaits. Right means: an accepted job is in exactly one place, its slot and its
  identifier are released exactly once and together with its end, and no refused
  or finished job leaves anything.
* **Shutdown.** The token may be cancelled between any two awaits. Right means:
  nothing starts or advances afterwards, every accepted job is still reported,
  every worker ends, and the process exits.
* **Events over HTTP.** Requests and answers are lost, late and reordered, and two
  tasks send them. Right means: sequence numbers order the events of a job the
  way the job went, repetitions are identical, the end is the last thing sent,
  and the worker never takes an unacknowledged end for acknowledged.
* **Partial failure of transfers.** Attempts break off anywhere. Right means: FFmpeg
  reads one whole response, a cut output is never uploaded, the reported outcome
  is what happened, and the stall watch ends exactly the jobs without progress.
* **Processes that crash and restart.** Right means: a restart works after a
  crash at any point, and no process takes the socket or the job directories
  of one that runs.
* **A file that changes under the reader.** Right means: no keys older than the
  file allows, and no caller refused because of a rotation.
* **Settings and checks that depend on each other.** Nine settings exclude and demand
  each other, 22 rejections have an order, times have 64 bits. Right means: no
  setting is ignored in silence, nothing is believed before the signature, and a token
  is good for a bounded time wherever the clock goes.
* **Streams cut anywhere.** FFmpeg's two pipes arrive in reads of any size. Right means:
  the counters and the log depend on what was written, not on how it arrived.
* **A script that stops between two calls.** Runs of the workflow fail, stop and are
  repeated. Right means: the newest builds stay whole, and the leftovers of any other
  run go.

`PROJECT.json` lists these hazards one by one at the lines where they bite, with
the properties that would notice, and the ones no property covers yet.

## Modules

```
JobService  <== refined by ==  Agent           <-- AgentProofs
                               Callback        <-- CallbackProofs
                               Execution       <-- ExecutionProofs   (steps: those of a worker of Agent)
                               Encoding        <-- EncodingProofs
                               Authentication  <-- AuthenticationProofs
                               KeyStore        <-- KeyStoreProofs
                               Startup         <-- StartupProofs
                               Release         <-- ReleaseProofs
```

Each module opens what another one closes. What `Submit` of Agent calls
"unauthorized" and "invalid" is decided in Authentication and in Encoding; what it calls
one phase is Execution (which shows it, see `StepsOfWorker`), whose encode step is Encoding; when Authentication may
still use the keys it has is KeyStore. Where a module leaves such a question open it
allows every answer, so that what it shows does not depend on the other one.

`MCX` modules extend `X` with what TLC needs: a symmetry set, or the list of
inputs (settings, credentials, documents, streams).
Each component also has a section of *faulty variants*: the mistakes of the
mutants. No specification uses them.

### JobService: what callers may rely on

Three variables (identifiers waiting in order, executing, reporting), the door
and the latest answer. Start takes the oldest; at most `Concurrency` execute or
report; at most `Capacity` are in flight; 409 exactly for an identifier in
flight, 429 exactly when full, 503 exactly after the shutdown began.

### Agent: admission, queue, workers, shutdown

An *attempt* is one `Accepted` value with its `Active`, its heartbeat task and its
permit. Actions are stretches of code between awaits.

| Action | Code |
|---|---|
| `Submit` | `authenticate` and `submit`: every answer in the order of the checks; `SendFails` is the branch of lines 99-103 |
| `LockReceiver`, `Take`, `Stop` | `engine.rs` 191-201: the lock, the channel, `try_recv` once cancelled |
| `Advance` | a phase change in `execute`; its inside is the module Execution |
| `Succeed`, `Fail`, `Expire`, `Interrupt` | 204-212: the four ways out of the biased select, and the heartbeat's abort (`Return`) |
| `Finish` | 212-221: the aborted heartbeat is over, the result that was in hand becomes the phase |
| `Conclude` | 222-226: the terminal callback returned, the identifier and then the permit are released |
| `HeartbeatStops`, `Signal`, `ServeReturns`, `Exit` | the heartbeat's select, the signal task, the end of `axum::serve`, the join |

Three conventions. Line 212 awaits the heartbeat that was aborted, so a result is in hand
(`result`) while other tasks run: the signal may come then. `Take` leads straight into the select without an await, so a job
taken after the cancellation is only ever interrupted. A submission whose body
was read before the server stopped may still be answered while `run` joins, hence
`Submit` is enabled until the exit.

### Callback: the events of one job

Two tasks, `heartbeat` and `worker`, each waiting, sending or sleeping in `notify`, and
between the end of the execution and the terminal event the worker in the await of line 212;
`wire` holds requests that may arrive at any later time, or never. `sent`,
`accepted` and `settled` are history. A time limit, a refused connection and an
answer that came too late are one action, `TimesOut`, enabled as long as the
request is out: the code treats them alike. `MaxSequence` bounds the number of
heartbeats, nothing else.

### Execution: one job from download to upload

`step` follows `execute`, `retry_transfer`, `download` and `upload`; the environment
picks the size of the input, of the output it encodes to, and every status.
Sizes are units: `MaxInput` and `MaxOutput` are the configured limits, and input
and output range from nothing to one unit above them. `quiet` is history: time
since anything really moved, against which `age`, the program's clock, is judged.
Between two scans 250 ms pass (`Tick`, then `Scan`); a scan is one step and takes
less than that. FFmpeg writes the output through its limited word only; what another word
of the caller might write to the same file would be measured and refused in the same way.
A server that answers 2xx has stored the body: without this
assumption no client can tell. Bodies without a length that end with the
connection are left out.

### Startup: processes on one path and one work directory

Each process runs once; a restart is another process. The steps are the system
calls of `unix::bind` (look, connect, remove, bind, listen, look again, chmod), of
`initialize` (lock, one directory removal after the other) and of `Drop` (look,
remove), in the order of `run`. Each has its success, the failures its state asks for (a
path in use, a lock that is held) and a failure for any other reason (`StartFails`,
`ChmodFails`, `InitializeFails`, `DropFails`, `RemoveDirFails`), and a crash may come between
any two. What a failure leaves is what the code leaves: a socket whose listen(2),
registration or second look failed stays, since `SocketFile` does not exist yet; when the
mode cannot be set the file goes before the listener, which accepts until then; `Drop` ignores
that it could not remove. `failed` remembers the calls that failed, for the
properties to speak of. Inode numbers are used again once the file and every
process that holds it are gone. `Supervised` says that something orders starts
and stops, as the service unit does; without it any number begin at once.

### KeyStore: a lookup against a changing file

A lookup is four calls (stat, open, fstat, read); the host replaces, rewrites in
place (truncate, then complete), removes and protects the file between any two
of them, and gives it any modification time. `distinct` is history: whether no
two states of the file that the store could confuse had the same time.

### Authentication: settings, keys and credentials

A behaviour is one process and one caller. `Start` reads an environment and a key
document; every `Request` presents the same credential at any time of the clock, which
may jump both ways. Between two requests the document may become any other: `Lookup`
takes the cache or the file, whatever KeyStore would say, which allows more than the
program does. A credential is a record with a member for each thing that is checked;
what fails before there is a token to read (no header, two headers, three
segments, base64) is its member `flaw`. `Verdict` is the first failing check in
the order of the code, so a swapped order changes answers. A signature is its
signer. Integers have the width of `Top`: `Add` saturates, `Sub` wraps, as the release
build does. A clock before the epoch counts as 0 in the source and is not told
apart from 0. The three other readers of `from_lookup`'s values (`text`, the number, the
list) are one question: readable, or `Malformed`.

### Encoding: the command and its two pipes

`validate` counts words, `execute` replaces them; both are operators on a sequence of
words. A word of the command is the caller's or the agent's own: FFmpeg's current directory
is the job directory (line 342), so a caller's bare `output.mp4` names a file there as well,
the uploaded one or another, and has no limit. The documents of the run have such words, and
`CommandAsAdmitted` says what is true whatever they are: where the agent's own
two paths stand. `ReadProgress(n)` and `ReadLog(n)` read
any number of bytes up to the size of the buffer. A character of the progress is a digit,
a newline, anything else, or a counter's name together with its "=", which
makes a line of three characters as long as one of eleven. A byte of the log is its
position, so order, loss and repetition can be seen. `Abort` is the failure of a read and
the cancellation: what was captured until then is what is reported.

### Release: tags and Releases over failing runs

The jobs `tag` and `sign`, one API call or one asset per action, `Fail` between any two
(the command fails, the run is cancelled, the time is over). The concurrency group
admits one run at a time, in order, and skips pending ones (`Begin`); a run that ended
may be repeated from its start or from job `sign` (`Repeat`), and starts then on a fresh
machine. The two lists of the last step are two calls; with one run at a time nothing
comes between them but a stop.

## Runs

| Run | Instance | Shows |
|---|---|---|
| `admission` | 4 identifiers, 4 attempts, 2 workers, 1 waiting slot, symmetric | the invariants of Agent, its action properties, and that it implements JobService |
| `jobs_conclude` | 2 identifiers, 3 attempts, 2 workers, a deadline that may never fire | every accepted job is reported and leaves if it fires; shutdown ends everything and the process exits; a free worker takes the oldest job while another executes for ever |
| `callback` | policy of 2 attempts, 3 events | order, identical and bounded repetitions, none behind the end or a final answer, acknowledgement, end of the terminal notify |
| `startup` | 3 processes, 1 inode number, supervised | the inductive invariant; the live socket goes only by its own process; a start recovers from whatever two earlier runs left |
| `startup_race` | 3 processes, 3 inode numbers, unsupervised, symmetric | only a crash or a failure of its own leaves a socket; the lock keeps the directories of the living; none of the dead is left when serving |
| `two_starts` | the same | violation, see below |
| `keys` | 2 key sets, 2 inode numbers, 3 writes | the inductive invariant, no outdated key with distinct times, none older than the refresh with any, no refusal by a rotation |
| `keys_unreadable` | 1 write, then chmod | violation, see below |
| `execution` | limits of 2 and 3 units, 2 attempts each way, stall after 3 scans | input whole, output whole, outcome true, stall watch exact; each step is one Agent allows its worker |
| `authentication` | 3 bits of time, skew 2; 172 settings, 107 credentials, 7 key documents | settings are enforced exactly, only signed content counts, a token's time is bounded |
| `encoding` | words up to 5, lines up to 5 characters at a limit of 3, log of 6 at a limit of 2 | the agent's paths in their places, counters of whole lines, both ends of the log |
| `release` | runs 8 to 11, `KEEP` 2, one image | the newest builds stay whole, leftovers go |

Why the bounds are enough to see the interesting cases. `admission` has capacity
3 and four identifiers: the agent is full with one caller left outside, the
channel is longer than one, both workers compete for the lock, and an identifier
comes back after its job. `jobs_conclude` has two workers for the lock and a third
attempt that reuses an identifier. `callback` has two heartbeats before the end,
so an old request may arrive behind a newer one and behind the end; a policy of two
attempts has a first and a last one. Three processes are the smallest number where one races another over what a
third left. With one start at a time no two sockets are open at once, so one inode number
is enough and the worst case: every socket has the number of the last. Without an
order each process may have its own. Three writes allow a key set to come back on an old inode number with
an old time (the case the fingerprint cannot see). In `execution`, one unit
above and exactly at each limit are among the sizes, a retry may follow every kind
of failure, and the stall limit is longer than one scan period, so growth seen
late is told apart from no growth. In `authentication` a full and an empty environment
and one good token are varied: every member alone, the ones that depend on each other
(two names of the key file and the insecure switch; key identifier and signer) in
pairs, and every pair of times, so that sums and differences overflow. In `encoding`
lines are as long as the limit, one and two longer, empty, without a number and above the
width, the last one with or without its end, and reads of one to four bytes end at each
place of them. In `release` the run numbers gain a digit, which is where a sort of
names and one of numbers part.

Deadlock is checked for Agent and Callback (their last state stutters by a named
action), for KeyStore and for Release (an ended run may be repeated). The others end
and say `CHECK_DEADLOCK FALSE`: in Startup each process runs once, in Execution and
Encoding a job is over, in Authentication a start was refused.

What the runs showed of some questions the code raises:

* The recovery branch of `submit` for a full channel (lines 99-103) is dead code:
  permits and channel have the same capacity, and a job leaves the channel before
  its permit is free. Proved for all sizes (`SendNeverFails`).
* An identifier is free only after the terminal callback returned, *delivered or
  not*: `delivered = "unacknowledged"` is reachable, and a caller that missed the
  event may submit again. The code says as much in its log line.
* A late heartbeat may *arrive* behind the terminal event, and a repeated one may
  be accepted twice; what never happens is that one is *sent* behind it.
* A success is reported only from `execute`; a shutdown in the same poll wins. A signal in
  the await of line 212 does not: the job's execution had ended, and it is reported
  by that result, succeeded or not. `NothingAdvancesAfterCancel` speaks of the ends of
  executions for this reason.
* Without a crash a socket stays behind in three cases: listen(2) or the registration fails
  (104), the look at the inode fails (106), or `Drop` cannot look or remove (79, 80). The next start takes
  it over like that of a crash.
* The subtraction `exp - iat` (`jwt.rs` 141) cannot wrap, because line 126 was passed;
  the variant that adds the skew without saturation refuses good tokens near the
  end of time and is found by `SettingsEnforced`.
* `KEEP` counts tags, so a build that failed after its tag takes a place among the newest
  from one that has a Release. And a run repeated when it is older than
  `KEEP` others makes its Release, deletes it in its last step and succeeds;
  `KeepsNewest` therefore speaks of the newest only.
* A repeated run counts as failed from its first step. While it is incomplete its Release may
  lack an asset that `--clobber` deleted (line 286); the properties say nothing of that time.

## Fairness

| Assumed | Because |
|---|---|
| the steps of a worker between awaits (`LockReceiver`, `Take`, `Stop`, `Interrupt`, `Finish`) | the runtime polls ready tasks; tokio's mutex and channel wake in order |
| `Expire`, in `EveryJobConcludes` only (`DeadlineFires`) | a timer of the runtime fires, where a deadline is set |
| `Conclude` | at most ten attempts of five seconds with delays of at most a minute: `TerminalNotifyEnds` shows in Callback, from its timers alone, what Agent assumes here |
| `Exit` | `run` joins tasks that have ended |
| `TimesOut`, `Wake` of the worker in Callback | timers |
| `Tick`, `Scan` in Execution | a timer, and a local directory can be read |
| the system calls of a process in Startup | they do not block |

Not assumed: that a server answers, that FFmpeg moves or ends, that anybody submits
or signals, that a client closes its connection. So `ServeReturns` and `Drained` are
not fair: a client can keep a graceful shutdown waiting for as long as it likes
(the workers drain all the same), and with the default deadline of 0 an
execution that makes progress may last forever. `EveryJobConcludes` therefore
has the firing of the deadline as a hypothesis of its own, and `StallEnds` says what remains
without it: the job ends or something moves again and again. The fairness of the run does
not contain it: the behaviours of an agent without a deadline are among those of
`jobs_conclude`, and `ShutdownDrains` and `FreeWorkerTakesJob` hold in them. Only so they mean
something: a lock on the receiver that was held over an execution would be released when a
deadline ends that execution, and is found because nothing has to end it.

## Proofs

TLAPS proves for all values of the constants what TLC shows on one instance: every
invariant and every action property of every passing run is a theorem. Each
component has one module of proofs, with one lemma per action or group of actions; the
state predicates of the argument are the last section of the component's module,
so that TLC can check them.

What is assumed of the constants is in named `ASSUME`s, which TLC evaluates in each
run. Most say that a bound is a natural number and that a model value
stands for nothing else. Those that say more:

| Assumption | Because |
|---|---|
| Callback, Execution: 1 to 10 attempts | `Retry::validate` of `model.rs` refuses others |
| Execution: `StallTicks` and the two limits are not 0 | `config.rs` takes a stall timeout of 1 to 3600 s and limits above 0 |
| KeyStore: `Refresh` is not 0 | it is a constant of `jwks.rs` |
| Authentication: the default lifetime is within the limit; times have the width of `Top` | constants of `auth/mod.rs`; `u64` |
| Authentication: `Settings` and `Tokens` are records with the members the code reads | what `from_lookup` and `verify` ask for |
| Encoding: FFmpeg writes finite sequences of characters | a process has written finitely much whenever it is read |
| Release: `Keep` is not 0; run numbers are an interval | `KEEP` is 5 in the workflow; GitHub counts them |

**Agent** (`AgentProofs`). Constants: finite sets of identifiers, attempts and
workers, at least one worker and one waiting slot, and as many attempts as
there can be jobs at once. The inductive invariant `IInv` adds five facts to the
checked properties, each needed because a guard reads one variable where a property
speaks of another:

* `IdWhileLive`: an attempt has an identifier exactly while it exists. Without it
  `Conclude` could remove an identifier nobody owned.
* `PhaseByPlace`: queued in the channel, executing with a running worker, terminal
  with a notifying one. It turns "phase is not none" into "is in one place".
* `ReceiverLocked`: the lock is held by the worker in `receiving` and by nobody else;
  two workers could otherwise take the same job.
* `ResultAwaited`: a result is in hand exactly while the worker awaits the aborted heartbeat.
* `StoppedDrained`: a stopped worker implies cancelled and an empty channel. The
  cancellation is permanent and closes admission, so the channel stays empty.

One lemma per action shows that it preserves `IInv`; slots are counted with the
theorems on finite cardinalities (`SlotAccounting` relates a number to a set).
`SendNeverFails` needs one more argument: positions of the channel map one to one
to identifiers in flight (`ChannelBelowJobs`), so a free permit is a free place.
The run `admission` checks `IInv` itself. From it follow the run's other invariants, its
action properties, and what the run leaves to the proof: `TypeOK`, that a
heartbeat belongs to a job that executes (`HeartbeatOwned`) and that an identifier is
forgotten only after its report (`ReportedBeforeForgotten`).

**Agent implements JobService** (`AgentProofs`, theorem `AgentImplementsPromise`). The mapping: waiting is the
channel with each attempt replaced by its identifier; executing and reporting are
the identifiers of the attempts of running and notifying workers; the door is
open until the cancellation. Under `IInv` its in-flight set is the set `jobs`
(`InFlightIsJobs`), and fewer than `Concurrency` jobs are held when a worker is free
(`FreeWorker`), which gives the guards of the promise. `Submit` maps to Accept or
Refuse, `Take` to Start, `Finish` to Finish, `Conclude` to Conclude,
everything else to a stutter.

**Callback** (`CallbackProofs`). Constants: no policy, or one of 1 to 10 attempts; any
bound on the events. `IInv` adds `TasksInStep` (once the worker has left the
execution the heartbeat is over; the phase is terminal once it tells the end), `Claimed` (every number in use
is below the counter) and `BodySent` (what a task is about to repeat was sent,
is not settled and has an attempt left). The run `callback` checks it; all safety
properties of the module follow, `RetriesWithinPolicy` and `AcknowledgedWasAccepted`
among them, which are parts of it.

**Execution** (`ExecutionProofs`). For any sizes, limits, attempts and stall timeout.
None of the three properties is inductive: they speak of the moment something is
encoded or reported, and are decided earlier. `IInv` adds what each step hands to the next:

* `FfmpegInStep`, `InputReceived`: where FFmpeg is tells which half of the execution
  runs, and the input file is what *this* response has brought, not an earlier attempt's.
* `AttemptsCounted`: `attempt`, the number of requests sent and the limit of the transfer agree, although
  both transfers use the same loop.
* `OutputWhole`: what is uploaded was measured to be whole, in every attempt.
* `ResultIsLast`: nothing is reported twice; a receipt kept from an earlier attempt can only
  be one that allowed a retry.
* `ClockFollowsProgress`: the clock of the stall watch is behind the real one, unless
  a file has grown that the next scan will see. This is what makes `StallIsReal` true for
  every timeout, and not only for those longer than a scan.

**Execution is what Agent takes it for** (theorem `ExecutionIsWorker`). Agent leaves open
when a phase ends and how. The instance `Agent` of Execution is an agent with one
worker that has taken the job: its phase is `phase`, and the worker executes until
`step` is "over", when the result is in its hand. Each step is then an `Advance`, `Succeed`, `Fail` or `Expire` of that
worker or invisible; so what is proved of Agent holds with Execution in the place of
these actions. The lemmas follow the three cases (`SamePhase`, `NextPhaseAdvances`,
`EndIsSeen`); all they need of `IInv` is `FfmpegInStep` and the type of `ffmpeg`. A shutdown is not told apart from a
deadline: both drop the execution at an await and report a failure.

**KeyStore** (`KeyStoreProofs`). For any files, key sets, number of writes and refresh.
`NeverOutdated` holds because of `CacheGenuine`: if no two states of the file had the same
time, then *any* file with the remembered fingerprint has the remembered keys. It has to
speak of every inode, since the one behind the path may be replaced by an old one.
`StampsPast` says that a new write gets a time no file has had, and `LookupInStep` that a
lookup under way has open what the path gave at some time since it began.

**Startup** (`StartupProofs`). For any number of processes and inode numbers.
`LockHeld` and `DirsLocked` give the two properties of the work directory and
`SocketOwned` that only a crash, or a failure of its own process to listen, look or
remove, leaves a socket; with `ListenerOpen` they hold with
any number of starts at once. `NeverReplaces` does not, and its theorem has
the hypothesis `Supervised`: the conjunct `InTurn` says what the order of starts and stops
gives a process, namely that what it saw of the path stays so until it acts on it.

**Authentication** (`AuthenticationProofs`). For any width of the clock, skew, lifetimes,
settings, documents and credentials. `ModeFromSettings` ties the policy to the settings
of the start, `KeysSound` says that whatever documents came, the keys in use have
distinct identifiers and are usable (so the key found is the only one,
`FoundKeyIsOnly`), `AnswerIsVerdict` that an answer is the first failing check. The bound
on a token's life then is arithmetic with saturation on one side (`Timely`, `FirstWasTimely`):
both acceptances had the token within its times, hence they are less
than its lifetime and the skew apart wherever the clock went in between.

**Release** (`ReleaseProofs`). For any number of runs, images and any `KEEP`. A run is whole
when it succeeds because the files are signed before the first upload and uploaded
before the lists (`FilesInOrder`); it stays whole until it is behind `KEEP` newer tags
(`WholeOrBehind`), because only builds behind are on the list of deletions (`PruningOld`), also
when a part of it was done. Three facts about finite sets carry it: a build with `KEEP`
newer tags has them still when tags are added (`BehindStays`), it has them too when the tag
of a build that was itself behind `KEEP` newer ones is deleted (`BehindSurvivesDeletion`), and of
any builds at most `KEEP` are not behind `KEEP` newer ones (`AtMostKeepInFront`).

**Encoding** (`EncodingProofs`). For any documents, outputs, limits and sizes of the reads.

* `CommandSound` reduces `CommandAsAdmitted` to a fact about sequences: an accepted document has one
  `-i`, one `{input}` behind it and one `{output}`, last (`ArgsShape`). Expansion
  keeps every word but the last at its place (`FlattenedWords`). Nothing is assumed of the
  caller's words: that they are not the agent's is what a word records.
* `LogSound`: head and tail are intervals of the positions of the bytes, and a read takes intervals to
  intervals (`CaptureKeepsBothEnds`).
* `ReaderSound`: the reader knows the line it is in as long as it fits, the highest reading of
  each counter so far, and the number of records (`Sees`). `ByteStep` extends this
  by one character, by the four cases: an end with a new maximum, without, a
  character that is kept, and one that is not. `ChunkSeen` extends it by a read.

The concatenation of the command, the number of a line and the state after a read are
recursive functions. That they exist (`Iterate`, `Flattened`) and what they
preserve (`UpTo`) is proved from the least element of a set of naturals
(`LeastExists`, from the library's well-foundedness of `<`), since the
induction theorems of the library cannot be applied here.

The `IInv` of Agent, Callback, KeyStore and Startup is checked in its
component's run as well, on the instance given above; those of Execution, Authentication and Release,
`LogSound`, `CommandSound` and `ReaderSound` are only proved.

Only model-checked: everything under fairness, which is out of the prover's reach
(`EveryJobConcludes`, `ShutdownDrains`, `FreeWorkerTakesJob`, `TerminalNotifyEnds`,
`RestartRecovers`, `StallEnds`).

## Disagreements found

* `two_starts`: `listen.rs` 85 says that a socket that still accepts connections "is
  left alone". Between `connect` (93) and `remove_file` (95) another process can
  remove the stale socket, bind and listen, or the process of the socket, caught between bind(2)
  and listen(2), begins to listen; its socket is then removed, and it serves
  on at no path. `Drop` has the same window (79, 80). With starts and stops in order
  (`startup`) it does not happen, inode numbers used again included.
* `keys_unreadable`: `agent/README.md` 284 says that a file that becomes unreadable
  "rejects every request (it never keeps stale keys)". A chmod changes no part of the
  fingerprint, so the cached keys answer until the refresh; `BoundedStaleness` shows
  that this is the most it can be.

## Not modelled

* A panic in a task, a poisoned lock, exhausted memory: no code path leads there.
* Base64, JSON, ECDSA, UTF-8, the parsing of URLs and headers: a member of a
  credential or a document is right, wrong or unreadable.
* The text of errors and logs, and `describe` of the authenticator.
* TCP, TLS, proxies, HTTP framing: an answer arrives, in a class, or does not.
* A listen backlog that is full (`connect` would block), a foreign file put at the path
  between two calls, processes with one path but different work directories.
* The walk of the job directory (subdirectories, the cap of 4096 entries) in a scan.
* Real durations against each other: whether the unit's 45 seconds suffice for the
  terminal callbacks depends on the policy of the job.
* In the workflow: building images, merging them under the moving tag `latest`, the
  comparison of the signer's tree hash. In the signer: its arguments, its key and a call
  with several files, which nothing in this repository makes.
* The image build, the codec tests, sample media and recorded outputs: no state.

## Plan

Done: all components above; proofs of every safety and action property of the runs, and of
the refinement of JobService, and of the steps of Execution by those of Agent. Next, in this order:

1. **KeyStore below Authentication**: an abstract key store (some keys the file gave
   within the refresh, or none) that KeyStore implements and Authentication needs.
2. **Scan**: the walk of the job directory with its cap, for what files behind the cap
   do to the clock.
