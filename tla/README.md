# Specifications of yururi_personal

TLA+ modules for the Discord agent `yururi_personal` (Go, `src/`): what its parts
promise each other, checked with TLC on small instances. Every safety property that holds is
also proved with TLAPS for every instance; what the program eventually does is only checked.

## 1. The system

One Go process serves one Discord guild. It keeps its memory in a SQLite file,
runs an AI model through the *Codex app-server* (a child process it talks to over
a websocket), and holds a voice session with the OpenAI Realtime API.

| Part | State it keeps | Operations | What makes it correct |
|---|---|---|---|
| Job table and scheduler (`internal/jobs`, `memory/store_jobs.go`) | rows of `jobs` (state, next run, payload); the snapshot of the current tick | `tick`, `UpsertJob`, `UpdateJobState`, `DueJobs` | due jobs run; one-shot work is done once per request; cancels and completions hold; a crash loses and repeats as little as possible |
| Job handlers (`bot/autonomy_*`, `followup.go`, `logic_*`, `web.go`, `conversation.go`) | payload entries: thread ID, tag or hash seen | 25 kinds, each a sequence of reads, a Codex turn, a post, a write | announcements neither lost nor repeated; results written where later runs read them |
| Job tools (`bot/tools_*jobs*.go`) | none of their own | schedule, run now, cancel, list | they take effect whatever the scheduler is doing |
| Codex turns (`codex/client_turns.go`, `client_rpc.go`, `client_events.go`) | maps of pending calls and of turn waiters | `runTurn`, `call`, `InterruptActiveTurn`, `readLoop`, notifications | every call and turn is answered once, with its own answer; nobody waits for ever |
| Codex transport (`codex/client_transport.go`, `client_threads.go`) | `conn`, `cmd` | `Start`, `Close`, `handleConnectionLoss`, `EnsureThread` | one process, one reader; a loss reaches exactly the users of that connection |
| Conversation and threads (`bot/app_events.go`, `codex_threads.go`) | channel to thread cache, its copy in `kv`, a mutex per thread | `processMessage`, `processPresence`, `ensureChannelThread`, `handleJobResult` | one thread per channel; turns of a thread one at a time; a newer message interrupts |
| Voice engine (`voice/engine*.go`, `memory/store_voice.go`) | sessions by guild, `voice_sessions` rows | `Join`, `Leave`, event and audio consumers | one active session per guild, ended rows stay ended |
| Realtime client (`voice/realtime.go`) | connection, protocol, `sessionDirty`, event buffer | `Connect`, `Close`, `send`, `readLoop` | configuration told to every connection; a late error is its own connection's |
| Discord voice (`discord/voice_audio.go`) | connection and runtime by guild | join, leave, forward packets | no send on a closed channel |
| Memory (`memory/*.go`) | messages, facts, profiles, summaries, presence, `kv` | one statement each | facts are open or closed, never lost in between |
| Space tools (`space/describe.go`, `bot/tools_discord_*`) | none | list, classify, ensure, move | one channel per name unless calls overlap; views agree with the guild |
| Prompts, persona, configuration, logging, CLI | none | pure text, files | not modelled |

**How they interact.** Discord events arrive on goroutines of their own
(`processMessage`, `processPresence`, `processVoiceState`). A message handler binds
its channel to a Codex thread, interrupts the turn that is running there and runs
its own. The scheduler goroutine polls the job table and calls handlers in line;
most of them run a Codex turn too. The app-server calls tools back (each on a new
goroutine), and those tools write the job table, facts and Discord, also in the
middle of the job run that caused the call. `notify` starts one more goroutine per
job result, which runs a follow-up turn on the channel's thread. The store has one
SQLite connection (`memory/store.go` sets the pool to one), so statements are atomic
and ordered, but nothing spans two of them.

**What is hard.** The same row written by the scheduler, by a handler from a stale
snapshot and by tools; crashes between a post and the record of it; acknowledgements
lost by Discord; goroutines that share `c.conn` and two maps; a reader that may be
ahead of the goroutine it serves; contexts whose end kills a process that others
use; deadlines that race answers. `PROJECT.json` lists each hazard at its line.

## 2. Modules

| Module | Models | Status |
|---|---|---|
| `JobScheduler` | job table, scheduler, handlers, job tools, crash and restart | checked |
| `JobSchedulerProofs` | inductive invariants and six theorems of `JobScheduler`, and that it refines `OneShotPosts` | proved |
| `OneShotPosts` | what is promised of a one-shot job; `JobScheduler` refines it | abstract |
| `MCJobScheduler` | instances of `JobScheduler` | |
| `CodexTurns` | callers, thread locks, pending calls, waiters, read loop, server, connection loss | checked |
| `CodexTurnsProofs` | inductive invariant and four theorems of `CodexTurns`, and that it refines `TurnContract` | proved |
| `TurnContract` | what `RunTurn` promises its callers; `CodexTurns` refines it | abstract |
| `MCCodexTurns` | instances of `CodexTurns` | |
| `ChannelThreads` | binding of channels to threads: cache, `kv`, app-server threads, restarts and builds | checked |
| `ChannelThreadsProofs` | inductive invariant and four theorems of `ChannelThreads` | proved |
| `MCChannelThreads` | instances of `ChannelThreads` | |
| `AppServerLink` | the connection to the app-server: starts, writes, read loops, losses | checked |
| `AppServerLinkProofs` | inductive invariant and six theorems of `AppServerLink` | proved |
| `MCAppServerLink` | instance of `AppServerLink` | |
| `VoicePackets` | voice connections, forwarders and listeners of the Discord client | checked |
| `PacketStream` | what a listener of a voice channel is promised; `VoicePackets` refines it | abstract |
| `VoicePacketsProofs` | inductive invariant of `VoicePackets`, and that it refines `PacketStream` | proved |
| `RealtimeClient` | the client of the Realtime API: connection, schema, configuration | checked |
| `RealtimeClientProofs` | inductive invariant and four theorems of `RealtimeClient` | proved |
| `VoiceEngine` | sessions, their rows, their consumers and the members of the channel | checked |
| `VoiceEngineProofs` | inductive invariants and six theorems of `VoiceEngine`, two of `MCVoice` | proved |
| `MCVoice` | the three voice modules in one run | |
| `FactStore` | facts, their closing, and the facts a turn is given | checked |
| `PresenceWake` | presence rows and wake summaries | checked |
| `GuildSpaces` | channels and categories, their profiles, and what the tools say of them | checked |
| `MemoryProofs` | the invariants and eleven theorems of `FactStore`, `PresenceWake` and `GuildSpaces`, two of `MCMemory` | proved |
| `MCMemory` | `FactStore`, `PresenceWake` and `GuildSpaces` in one run | |

### 2.1 JobScheduler

State and code:

| Variable | Code |
|---|---|
| `row` | the `jobs` table: `state`, `next_run_at`, `schedule_expr` (`every`), and of the payload the tag or hash a watch has seen (`seen`, 0 when unset) and whether a job thread is bound (`bound`) |
| `clock` | `time.Now()`, one unit per scheduling interval |
| `pc`, `tick`, `todo`, `snap`, `cur` | the scheduler goroutine: where it is, `now` of the tick, the rest of the snapshot slice, the snapshot's rows, the job being run |
| `plan`, `found`, `outcome`, `told` | locals of the handler: the `nextRun` it computed, what it fetched, its result, whether it has posted |
| `published` | the tag of the first stable release, or the hash of the watched page |
| `armed`, `begun`, `delivered`, `excused`, `last`, `again`, `faults` | history, read by properties and bounds only |

`Poll`, `SkipMissing`, `Begin` and `Record` are the steps of `tick` between two
statements; `StoreFails` is the error return that ends `Run`. The handlers are
cut at their external calls, because other writers come in between:
`ReadMessages`, `EnsureJobThread`, `CodexTurn`, `Fetch`, `Send` (and
`SendAckLost`, a post whose acknowledgement is lost), `SaveSummary`,
`PersistWatch`, and `HandlerError` at any of them. 25 registered kinds fall
into eight shapes (`Kinds`), plus a kind without a handler. `Schedule`, `RunNow`
and `Cancel` are the tool calls (and `processPresence`, which schedules a wake
summary). `jobs.schedule` takes any schedule and any payload, so `Schedule` may write a row
with another interval, with a tag already seen, or with a thread already bound. `Start` and `Crash` are the process.
A start runs `EnsurePulse` (`ensureAutonomyPulseJob`), which writes the default row unless it finds one with the
default schedule: it also replaces, whatever its state, a row whose schedule another caller changed.
A graceful stop is a crash here: the cancelled context
makes every later statement of the tick fail, so the row is not recorded.

What a watch finds is only compared for equality (`logic_release.go:46`, `web.go:154`). `Publish` therefore sets
`published` to any tag at any time: a release may be withdrawn and come back, a page may change and change back.

Abstractions: each job ID has one kind (`jobs.schedule` could change it; `ensureAutonomyPulseJob` would then
replace the row of another kind as well, and only its schedule is compared here); daily, weekly and monthly clocks are
intervals; a time is a number (the
column is RFC3339Nano text, whose order within a second is a hazard of its own); a
store error inside a handler is a `HandlerError`; `last_error`, titles and
timestamps that no guard reads are left out.

Properties:

* `PostsArePaid`: a reminder or wake summary is posted at most once per
  schedule or `run_now`, plus once for every run cut short after its post. `JobScheduler` implements `OneShotPosts`, where
  scheduling a job or asking to run it now gives one credit, a post takes one, and a run cut short after its post gives
  that one back, once. The credit is `armed + excused - delivered`; a post is
  `open` while the job is in hand and `told`. So no two runs are excused by one post and no run posts twice, which
  a bound on the counts alone would not say. That bound, with the credit of each row that may still run, is
  `OneShotAccounting`, the invariant the proof rests on.
* `WatchNoRepeat`: a watch posts the tag it posted last (`last`) again only if, since that post, its run was cut short
  before it was recorded, or `jobs.schedule` rewrote its row (`again`). A tag that returns after another was announced is
  a new announcement, as in the code.
* `SeenWasAnnounced`: the stored tag changes only to what `jobs.schedule` stores, to what a watch finds on its first look, or
  to the tag it posted last. So no crash, error or write from a stale snapshot moves a watch past a release in silence.
* `CompletedUntilRearmed`: nothing but a tool revives a completed job that the
  scheduler does not hold: no tick and no late write. The exception is the one above: at a start, `EnsurePulse` replaces a
  pulse with another schedule, completed or cancelled ones too.
* `DueJobRuns` (liveness): an overdue row is eventually *served* (begun, or put off when its kind has no handler) or no
  longer overdue, also one left `running` by a crash, also when another row is due again in every tick and fills the batch. It
  rests on the `ORDER BY next_run_at` of `DueJobs`: with `AnyDueJobs`, the same query without it, TLC finds a job that is
  passed over for ever. Once a store error has ended `Run` no job runs until a restart (`pc = "stopped"`): the code does
  nothing about that, so the property excepts it.
* Violated, see section 5: `CancelStops`, `TaskRunsOnce`.

### 2.2 CodexTurns

A *caller* is one run of a handler: a message handler (`Chat`: its context ends
when it returns), a follow-up (`Timed`: 45 seconds) or a job. It makes one turn, so
it also names its call, waiter and turn.

| Variable | Code |
|---|---|
| `pc`, `expired`, `result` | the caller's place in `processMessage` / `runThreadTurn` / `runTurn`, its context, what `runTurn` returned |
| `holder` | `threadLock` of each thread |
| `pending`, `box` | `c.pending` and the channel of each call |
| `waiting`, `slot`, `heard` | `c.turns`, the channel of each waiter, the texts it was given |
| `conn`, `owner` | `c.conn`; the caller whose context `exec.CommandContext` got |
| `inbox`, `net` | the two directions of the websocket |
| `turn`, `stopping` | the app-server's side (external) |
| `missed`, `faults` | history and bound |

`Arrive` is `interruptChannelTurn`, `Lock` to `AwaitGrace` follow `runTurn` and
`call` from one blocking point to the next, `Return` is every return with its
deferred deletes and unlock, `Deliver` one iteration of `readLoop`, `Lose`
`handleConnectionLoss` after the process died (`ServerDies`) or was killed because
the context of the caller that started it is over (`ServerKilled`). The external
app-server (`Serve`, `Speak`, `Finish`) answers requests in order, sends the
messages of a turn in order, and ends every turn; it may refuse a start, fail a
turn, or finish one it was asked to interrupt.

Abstractions: `Start` is one step (its inner races are in `AppServerLink`);
the answer to `turn/interrupt` is only logged in the code and is left out, and so are
the seconds a caller waits for it; deltas are left out beside the completed message;
a thread binding is given.

Properties:

* `OwnResult`: texts, partial texts and interrupts that `runTurn` returns are those of
  its own turn; a partial text only when the message came too early.
* `NoSilentWait`: a caller that waits has a filled channel, or a registered waiter and
  an end on its way. The one hole is the code's own: a turn that ends, or whose
  connection is lost, between the answer of `turn/start` and `c.turns[id] = waiter`
  (`client_turns.go:77-90`). `missed` marks exactly these turns.
* `TurnsKeepContract`: the module implements `TurnContract`. A caller is away, queued, inside a
  thread or out of it (`PlaceOf` its `pc`), and its turn has a fate (`FateOf` what the server has). One caller at a time is
  inside a thread; what a caller is told is its turn's fate when it leaves; only a caller with a deadline is told of
  one; and a turn starts after its caller has left only if the caller was told nothing of its fate
  (its deadline passed, or the connection was lost). Hence `OneLiveTurn`, which is proved and not run: two turns of a thread
  run on the server at once only after such a caller left.
* `Returns` (liveness): every caller gets its lock and returns, unless a caller without
  a deadline on its thread is one of those.

A turn missed this way holds the thread lock for ever: message handlers and jobs have
no deadline, so every later caller of that thread stops at the lock. This is why the
runs of this module do not check deadlock: the system really stops there.

### 2.3 ChannelThreads

A *handler* is one run of `processMessage` or `handleJobResult` up to the end of its turn.

| Variable | Code |
|---|---|
| `pc`, `stored`, `mine` | the handler's place in `ensureChannelThread`, its `storedID`, its `session.ID` |
| `cache` | `channelThreads`, under `sessionMu` |
| `kvID`, `kvSig` | the two `kv` entries of `persistThreadBinding` |
| `build` | what `DynamicToolSignature` returns, the same during one run of the process |
| `tools`, `primed` | the app-server's threads: the tools each was started with, and those this process has given the bot context |
| `raced`, `torn`, `restarts` | history and bound |

`LookUp` is the first locked section, `ReadID` and `ReadSig` the two statements of
`storedThreadID`, `EnsureThread` resume or start, `Prime` the context turn, `SaveID` and
`SaveSig` the two statements of `persistThreadBinding`, `Publish` the second locked
section, `BindError` every error return. `Following` is the order of these steps.
`Restart` stops the process anywhere and starts it on the same or the next build; it
never goes back to an older build (after a rollback, a binding whose signature was
not yet written would vouch for a thread of the build in between). `ensureJobThread`
keeps its binding in the payload of the job and is part of `JobScheduler`.

Properties:

* `ToolsMatch`: a turn never runs on a thread with another build's tools. It rests on the
  order of the two writes. It does not hold for a handler that reads the ID before and
  the signature after another handler's write (`codex_threads.go:14-19`); `torn` marks
  these channels, and dropping the exception makes TLC find that run.
* `PrimedBeforeUse`: nobody talks on a thread before it has the bot context.
* `CacheIsStored`: a restart on the same build finds the thread the cache names, unless
  two handlers were binding the channel at once.
* Violated, see section 5: `OneThreadPerChannel`.

### 2.4 AppServerLink

Below the turns: one step per access to the shared fields of `codex.Client`, because
`Start` and `readLoop` use them outside `stateMu`. A *start* has a number that names its port, its
process, its socket and its read loop, so `conn`, `cmd` and `wsURL` (`url`) hold numbers. `Start` reads `wsURL` twice
more after it wrote it, for the process and for `dial`, so with two starts at once a server may listen on the other's
port (`port`) and a dial go to the other's server (`target`, `peer`). Of two servers on one port the later one ends, unless
nobody has reached the earlier one yet.

| Action | Code |
|---|---|
| `CheckOpen`, `Exec`, `KeepCmd`, `Aim`, `Dial`, `Publish` | `Start`: the look at `c.conn` and the write of `c.wsURL`, the process on the `c.wsURL` of that moment, `c.cmd = cmd`, the argument of `dial`, `dial`, `c.conn = conn` with `go c.readLoop()` |
| `Enter`, `Take`, `Write`, `Await` | `call`: registering, the read of `c.conn` in `writeJSON`, the write, the `select` |
| `ReadTop`, `ReadAnswer`, `ReadRequest`, `ReadError` | an iteration of `readLoop`: it reads `c.conn` again, then blocks on it |
| `HandleConnectionLoss`, `Close` | the same names |
| `Serve`, `ServerDies` | the app-server (external): it takes one `initialize`, refuses what comes earlier |

Properties: `NoStrandedCall` (a call that waits has its answer, or is registered while some
loop watches its socket), `PublishedIsGreeted` (a connection that callers find was
initialized, or is being initialized, or its `initialize` failed), `RepliesGoBack` (a tool's
reply goes to the server that asked), `CrashNeedsForeignLoss` and `OnlyStaleTeardown`. `dial` retries until a server
listens, and gives up after 15 seconds whoever called it; only the wait for an answer depends on the caller's own context
(`Timed`). The
exceptions are the code's own: two `Start`s at once (`overlap`) leave the first socket
without a reader; `handleConnectionLoss` has no argument, so the holder of an old socket
tears down a new connection (`foreign`); after that, `c.conn.ReadJSON` and a failed dial's
`c.cmd.Process.Kill()` dereference nil; an `initialize` that fails leaves its connection in
place for good (`abandoned`). Dropping any exception makes TLC find that run.

### 2.5 VoicePackets and PacketStream

`JoinVoice`, `LeaveVoice` and the client's `Close` (callers), a forwarder per joined
runtime and its listener. A join dials (`PkDial`: `ChannelVoiceJoin` returns the guild's
connection or a new one), starts the forwarder, takes `voiceMu` (`PkTakeLock`), closes the
runtime it finds in two steps (`PkCloseSignal`, `PkClosePackets`), installs its own
(`PkPut`). `LeaveVoice` detaches both under the lock and closes after it (`PkDetach`). A
forwarder receives, sends into the channel of 64 or parks on it, and stops at `closeCh`.

`PkNoOrphan`: a runtime that was not told to close is the installed one or in the hand of
a join or close. `PkIsStream`: the module implements `PacketStream` (packets received
come out once, in order, without a gap, a bounded number waiting), with `fed` and
`taken` counted per runtime. `PkPanic`, the send on a closed channel, is reachable: a forwarder that is parked in the
`select` is woken by `closeCh`, but one that has received a packet and reaches that `select` only after `close` has
closed both channels finds both cases ready, and may choose the send. Joins that overlap may hold one connection of
discordgo, also before it is in `c.voiceConn` (`PkConnsHeld`).

### 2.6 RealtimeClient

Callers run `ConfigureSession`, an operation (any of the other six; each is a `send`) or
`Close`; loops are `readLoop`s; a connection is numbered by its dial. `RtCheck` to
`RtPublish` are `Connect`, `RtEnsure` is `ensureSessionConfigured` with its nested `send`,
`RtPick` to `RtClean` the rest of `send`. The server (external) announces its settings with
`session.created`, applies an update in a schema it knows and refuses one it does not, which
turns the client to the legacy schema (`RtCompat`).

`RtCleanMeansTold`: once `session.created` was handled, an unmarked session has been told the
configuration in force, also after reconnections and whatever the full event queue drops.
`RtLossIsOwn`: the reader's and writer's `c.conn == conn` tests keep a late error from taking
a newer connection away. `RtCurrentIsRead`: the connection in place has a reader, although
`readLoop` reads `c.conn` only as it starts. Exception (`rtRaced`): `sessionDirty = false`
asks neither which configuration nor which connection the write was for.

### 2.7 VoiceEngine

| Variable | Code |
|---|---|
| `voCur`, `voChan`, `voState`, `voMembers` | `e.sessions` of the guild and the fields of its sessions, by number |
| `voStarted`, `voGone` | sessions whose consumers were started, whose context was cancelled |
| `voRow` | `voice_sessions`: none, open (`ended_at` empty), ended |
| `voIn`, `voPlace` | where Discord has the bot and the people |
| `voAt`, `voMine`, `voPen` | callers of `Join` and `Leave`; writers in `setSessionState`: consumers, `Leave`, `Interrupt` |
| `voHand` | the goroutines of `HandleVoiceStateUpdate` |
| `voWhy`, `voStale` | history: what left a row open, why a list of members may be incomplete |

`VoCurrentIsOpen`: the session in the table has an open row. `VoLiveIsCurrent`: consumers that
run are the current session's, save those of a session that the Leave of another deleted
(`stolen`). `VoOpenRowExplained`: the five ways a row stays open
without its session. `VoReopenedByCall`: other consumers never reopen an ended row, because
`Leave` cancels before it ends the row; overlapping tool calls do.

`VoGuestNotOwner`: a packet without a speaker is taken for the owner's only when the owner is alone in the list of
members, so once every update is handled no guest may be missing from that list. Four things break this, and
`voStale` records each of them until a right list is written with no other one under way:

* `overlap`: two lists that were read and not yet put in place, of two handlers, or of a handler and a `Join`;
* `missed`: an update between a `Join`'s read of the members (`engine_session.go:29`) and the start of its session
  (`:60`). `HandleVoiceStateUpdate` looks at the channel of the session `Status` shows (`:214`), which is not this one
  yet, and drops the update. One guest who arrives at that moment is enough;
* `failed`: `VoUpdateFails`, an error return of a handler that concerned the channel;
* `astray`: a handler writes the list of the channel it read for into the session that is there by then.

Of `VoPartFails`, a failed `Disconnect`, the client has forgotten the connection all the same (`voIn`). The `kv` entry
`voice.last_owner_channel_id` is written only, so its value is left out; an error of its write is in `VoUpdateFails`.

### 2.8 FactStore

`faTable` is the `facts` table as a sequence by `updated_at`, one row per kind and key (`UNIQUE(kind, key)`). A write
may land anywhere in that order, since it is a text of the writer's clock. `FaClose` and `FaRecord` are
the two statements of `closeFact` and `close_open_loop`; `FaWrite` and `FaDelete` the other
tools. `FaCollect`, `FaSearch` and `FaList` are the queries of `collectConversationFacts`: two searches, whose matches are
any rows, and the newest two of each kind. The code lists 15 kinds; `FaListed` has the eight that tools close or that
record a closing. An answer is a set of rows, those with fewer later ones than the limit (`FaNewest`), in the
one order in which the latest comes first (`FaInOrder`). Of each answer the merge takes what it does not have yet
(`FaNew`), up to the limit of the list (`FaMerge`).

`FaGoneIsTraced`: an open fact that is gone left a resolution, unless it was deleted,
closed without a word, or its close stopped half-way. It rests on the prefixes of the
resolutions' keys being different per kind. `FaContextWhole`: the list is within its limit and names no fact twice,
and the newest facts of a kind nobody touched meanwhile are in it unless it is full. Nothing is said of the order of the list
or of the matches of the searches. The run has one key, and asks for one fact of a kind instead of two, so that the decisions that
closes leave exceed the limit of their kind; of an open kind there is one fact, and the proof has any number.

### 2.9 PresenceWake

`processPresence` in its statements: `PwRead` (`LastPresence`, then the clock), `PwSave`,
`PwSchedule`; `PwRun` is the job. `PwText` gives the order of RFC3339Nano texts within a second: a time without a fraction
ends in `Z` where the others have a point, and sorts after them. `PwWokenOnce`: two summaries of one absence
need two updates handled at once, or a snapshot that could not be saved. `PwSinceIsLast`: a
summary begins when the owner was last seen to leave, up to the order within one second.

### 2.10 GuildSpaces

`gsGuild` is the list of channels (kind, name, parent) that Discord keeps. Kinds are categories, text channels and, for all
others (voice, announcement, forum, stage), `voice`; any channel may be renamed, and any but a category moved. Names are a
stem, upper or lower case and a count of prefixes. Of `sanitizeChannelName` only the lower case is kept (`GsSanitized`): names here have none of
the characters it replaces, are not empty and not over 90 characters, so that two names which become one by those
replacements are one name from the start. `GsList`, `GsCreate` and `GsMoveFound` are the
requests of `EnsureCategory` and `EnsureTextChannel`; `GsFetch`, `GsFile` and
`GsPrefix` those of `archive_channels` after its category; `GsSpeak`, `GsDefault`,
`GsSetProfile` and `GsSet` the read-then-write of channel profiles; `GsSurvey` and `GsLook` a
view that lists channels and then reads `ChannelActivitySince` (groups of channel *and name*, the largest ones up to
the limit). `GsStale`, `GsSuggest`, `GsPlannedEmpty`, `GsMappedEmpty` and `GsServerLists` are the
classifications of `space/describe.go`.

`GsTwinsOverlapped`: tools make two channels of one name only when two calls overlapped.
`GsViewsHonest`: a channel told stale was silent when the channels were listed, a suggestion counts
all messages of a channel, and the views differ on empty categories only by voice
channels; exceptions are cut rows and channels with two names. `GsChosenKept`: a chosen
field of a profile falls back only by a call that had read the profile before.

## 3. Runs

| Run | Instance | Shows |
|---|---|---|
| `jobs_oneshot` | reminder and wake summary, batch 1, time 2, 2 armings each, 2 faults | `TypeOK`, and `PostsArePaid`, the refinement of `OneShotPosts`; about 870 000 states |
| `jobs_watch` | a watch, 2 tags that come and go, time 3, 2 armings, another schedule, 2 faults | `WatchNoRepeat`, `SeenWasAnnounced`; about 1.2 million states |
| `jobs_live` | the pulse and a kind without handler, batch 1, an endless clock, 1 arming each, another schedule, 1 fault | `DueJobRuns` under fairness, `CompletedUntilRearmed`; about 655 000 states |
| `jobs_cancel` | one periodic task | `CancelStops` is violated |
| `jobs_once` | one background task, no faults | `TaskRunsOnce` is violated |
| `turns_safe` | two messages and a follow-up on one thread, 1 death of the server | `TypeOK`, `OwnResult`, `NoSilentWait`; about 3.6 million states |
| `turns_live` | a message and a follow-up on one thread, 2 deaths | `Returns` under `FairSpec`, and `TurnsKeepContract`, the refinement of `TurnContract`; about 64 000 states |
| `threads_bind` | three handlers of one channel, 2 restarts, 2 builds | `TypeOK`, `ToolsMatch`, `PrimedBeforeUse`, `CacheIsStored`; about 23 000 states up to symmetry |
| `threads_one` | two handlers of one channel | `OneThreadPerChannel` is violated |
| `link` | two turns, or a turn, an `EnsureThread` and a tool call; 2 restarts, 1 death | the properties of 2.4; about 5.4 million states |
| `voice` | packets: 2 callers, 2 joins, 3 packets, a queue of 1; client: 2 callers, 2 dials, 1 loss; engine: 2 callers, 2 sessions, 2 channels, 2 moves | the properties of 2.5 to 2.7 and the refinement of `PacketStream`; about 2.2 million states |
| `memory` | facts: 2 closers, 2 kinds; context: a turn over one closer; presence: 3 updates; guild: 2 calls, up to 4 created channels | the properties of 2.8 to 2.10; about 1.3 million states |

*Why the bounds are enough.* A job is armed, run, cut short and run again within the
two faults and two armings, and two jobs in batches of one make one of them wait
through the other's run, with tools acting at every step. The watch runs three times in
its four time units: it primes or finds a tag that was stored for it, announces the other one, and has one more run in
which the tag is the same, the other, or the first again, with a fault between any two of its steps.
The pulse of `jobs_live` is the row that a start may write: its one arming gives it another schedule before it is
cancelled, or revives it after, and the fault is the crash before the next start. Periodic jobs, reviews and space reviews take steps that the
kinds of these runs take too, and are in no passing run of their own; the theorems of section 4 hold for every kind.

`jobs_live` asks about jobs that are passed over again and again, so a clock that stops would decide it. `EndlessSpec`
(`MCJobScheduler`) has no last time: times are only compared, and new ones are counted from the clock or the tick, so
`Renumber` takes a time that nothing uses, earlier than both, out of the numbering, and the clock goes on.
With `MaxTime` 3, which now bounds only how far apart the times in use are, the pulse, and the job that is put off,
may be due again and again for ever while the other one waits in the batch of one row. The mutant that drops the `ORDER BY` shows that this case is reached.

Three callers on
one thread are a holder, a waiter and an interrupter; the second death of the server
in `turns_live` hits a connection that a caller has restarted. Three handlers of a
channel are a binding to be cut short and two that race for the next one, over an old
and a new build; channels share no state, so one is enough. Handlers and threads are
symmetric there, and the run does not check deadlock: it ends with its handlers.

In `link` two callers without a connection overlap in every way two `Start`s can; a third start
would only repeat the second's part, and one death makes the loss that all the races need.
`voice` and `memory` each explore several modules in one run: the variable `part` says which of them a behaviour
moves, the others rest, so nothing of one bounds another. `Budgets`, `Calls`
and `Errands` list the mixes of calls a behaviour may make: each mix is the smallest that makes one of
the overlaps happen, and together they are what a product of all bounds would
otherwise make too large. Two callers are enough because each race is between two; the queue of
one packet is full after one. Six time units of a quarter of a second, with a threshold
of one second, hold texts of the same second in both orders and an absence that is
long enough. The two columns of a profile stand for its fields, which are merged alike. These runs do
not check deadlock: they end when their calls are spent.

*Fairness.* `link`, `voice` and `memory` check safety only and state none. `JobScheduler!Fairness`, which
`EndlessSpec` takes over: the scheduler goroutine is scheduled (the Go
runtime), every handler call returns (`Handler`: the code sets no limit, so this is an
assumption on Codex, Discord and HTTP; `CodexTurns` says when it fails), and a stopped
process is started again by its supervisor. No fairness for tools, faults, releases or
the clock. `CodexTurns!FairSpec`: each caller's goroutine, the read loop, the timer of
a deadline and the kill at the end of a context happen; the server reads requests
and ends turns. A mutex is handed over in the end (Go's starvation mode); each
caller takes it once, so weak fairness is enough.

## 4. Proofs

`JobSchedulerProofs` proves for every set of jobs, kinds, intervals, batch size and
bounds, from `JobsAssumption` alone (kinds and intervals are typed, the bounds are
natural numbers, `None` is no job):

* `TypeCorrect`: `Spec => []TypeOK`,
* `OneShotBalance`: `Spec => []OneShotAccounting`,
* `CompletedStays`: `Spec => CompletedUntilRearmed`,
* `AnnouncedOnce`: `Spec => WatchNoRepeat`,
* `SeenFollowsAnnounced`: `Spec => SeenWasAnnounced`,
* `EveryPostIsPaid`: `Spec => PostsArePaid`, the refinement of `OneShotPosts`.

`OneShotAccounting` is not inductive alone: that a finished run pays for its post
depends on what the scheduler holds. The inductive invariant `IInv` adds `TypeOK` and
`RunInHand`: the job in hand is set exactly while a handler runs or its result is
being recorded, it is no longer in the rest of the batch, a run that has posted is at
one of the steps after a post, and it returned no error if it is being recorded.
`Owed(j)` is the post a job may still make unasked; each action either leaves it,
takes it over into `delivered` or `excused`, or gets a new arming for it. The lemmas
state this per kind of step (`QuietBalance`, `ArmedBalance`, `DroppedBalance`) and per
statement of the store (`ActiveAfterUpdate`, `InactiveAfterCompletion`,
`ActiveAfterUpsert`, `OtherRow`).

`EveryPostIsPaid` maps each step to one of `OneShotPosts` or to none. Steps that leave `armed`, `delivered`, `excused`
and `told` alone are stutters (`QuietPaid`), the tools and `processPresence` that make a row due are an `Ask`
(`ArmPaid`), a `Send` is a `Post` (`SendPaid`), a lost acknowledgement is a `PostUnheard`, and the end of
a run that posted is a `Keep` or a `Redo` (`EndPaid`). That there is a credit to take comes from the
invariant: a row the scheduler may still run is `Owed` a post (`CreditFacts`).

The watches have an invariant of their own, `WatchInv`. `WatchRun` says where a run may be and what it has in hand: a run
about to post has found a tag other than the one in its snapshot, and one about to write has either posted what it found or seen
nothing before. `KnowsLast` says that, as long as nothing excuses a repetition, the row and the snapshot the scheduler still
reads (`Holds`) name the tag posted last, or the run that posted it is about to write it. `WatchStep` goes through the
actions: most leave a watch alone (`AsideKeeps`), a run cut short after its post sets the excuse (`CutKeeps`), and writing back stores the
tag found (`WrittenTag`). A post of the same tag would need a snapshot that names another, which is `AnnouncedOnce`, and
a tag written back is the first one or was just posted, which is `SeenFollowsAnnounced`. Nothing is assumed of the order of tags,
and nothing of the payloads that `jobs.schedule` stores.

`ChannelThreadsProofs` proves from `ThreadsAssumption` alone (channels of handlers are
typed, `None` is no thread):

* `TypeCorrect`, `ToolsAlwaysMatch`, `PrimedAlways`, `CacheAlwaysStored`: each of the
  invariants of `threads_bind`, for any handlers, channels, builds and restarts.

`ToolsMatch` alone says nothing of what a handler is about to take from the cache or from
`kv`. The invariant adds that a signature of the running build vouches for the ID beside
it, whoever wrote either (`KeptCurrent`), and that a handler between the two writes has
already put a current ID there (`HeldCurrent`): this is where the order of the writes is
used. Stored signatures are never of a build to come, so a restart on a new build starts
with nothing that vouches. `PrimedInv` says the same of primed threads, `StoredInv` that the
only binder of a channel finds the cache empty and its own writes unchanged.

`VoiceEngineProofs` proves from `VoAssumption` alone (the bounds are natural numbers and no
budget exceeds them, and the owner is not one of the guests):

* `CurrentAlwaysOpen`, `LiveAlwaysCurrent`, `OpenRowsExplained`, `NoConsumerReopens`: the
  properties of 2.7 about sessions, consumers and rows, for any callers, channels and sessions,
* `EngineTypeCorrect`, and `GuestIsNotOwner`: `VoSpec => []VoGuestNotOwner`, for any people and moves.

None of them is inductive alone. `InHand` adds whose a session is: a Join's own, and no other
Join's, until its consumers are started; a Leave holds one that was started, cancels it before it
gets to the row, and has it out of the table when it ends the row. `Rows` adds that a started
session has a row and an ended one was started. `Writes` adds which row a state write is for: a
started session's, and a consumer's own as long as its session is the current one. The three
need each other, so they are proved together (`VoInv`); `NoConsumerReopens` follows from them by
looking at the three steps that write rows (`RowWrites`).

`GuestIsNotOwner` needs to know where a list of members may be. While `voStale` is empty, one handler or one Join at most
has a list in use (`OneList`), and each list of the session's channel (in a handler, of a Join or of the session) names
everybody who is there, or an update or a read is still to come that will replace it (`ListsHonest`). Each cause
answers for one step at which this would break: a second read for `overlap`, an update dropped for `missed`, a
handler that returns an error for `failed`, a list of another channel for `astray`. A write that empties `voStale` has just
put the right list in place with no other one in use. With nothing to come, the members of the session are complete.

The run `voice` explores three modules side by side. `VoicePartsHold` (`VoiceSpec => PkSpec /\ RtSpec /\ VoSpec`)
says that the composition is a behaviour of each: a step moves the chosen part by its own next-state relation
and leaves the others alone. So every theorem about a part holds of what the run explores, and
`VoiceTypeCorrect` (`VoiceSpec => []VoiceTypeOK`) follows.

`CodexTurnsProofs` proves from `TurnsAssumption` alone, for any callers, threads and
deaths of the server:

* `TypeCorrect`, `TurnsDoNotOverlap`, `ResultsAreOwn`, `WaitersAreWoken`: the invariants of
  `turns_safe` and `OneLiveTurn`,
* `ContractIsKept`: `Spec => TurnsKeepContract`, the refinement of `TurnContract`.

The invariant follows one turn from end to end. The lock: who is inside holds it
(`LocksHeld`). The call: it is numbered once, it is pending exactly while it may be answered,
and its request is in one place (`FreshCalls`, `CallsPending`, `RequestsOnce`). The wire: what
is in the queue was said by the server of a turn that has started, the answer of a start
precedes the turn's events, and the end comes last (`MessagesTrue`, `AnswerFirst`, `AnswerSent`,
`EndFollows`, `ItemFirst`). The caller: its box and its waiter's slot hold only its own turn's
(`AnswersTrue`, `SlotsTrue`), a registered waiter stays until it is served (`WaitersKept`), and
one that is neither served nor missed has the end of its turn still to come (`WakeUp`). For
`TurnsDoNotOverlap` this gives that the holder of the lock either has a turn that ended or
gave up.

`ContractIsKept` uses each part once more. A caller enters a thread alone because whoever is inside holds its lock.
A turn begins for a caller that is inside, or that gave up: its request was sent once, and a caller with an
answer had its turn begun before. What a caller takes from its box or slot is its own turn's fate (`ReturnTells`). Only a
caller with a deadline waits out the grace time (`GraceTimed`, an invariant of its own). `RunKeeps`, `ServeKeeps`
and `StepKeeps` collect the steps of callers, of the server, and all of them.

`AppServerLinkProofs` proves from `LinkAssumption` alone, for any callers, starts and deaths:

* `LinkTypeCorrect`, `CallsAreNotStranded`, `FoundIsGreeted`, `RepliesReturn`,
  `CrashIsExplained`: the invariants of `link`; `TeardownIsStale`: its action property.

The properties speak of one connection, and the code compares none; so most of the
invariant says that, as long as no two starts overlap and nobody tore down another's socket,
there is only one: one caller in `Start` (`OneStart`), one process and socket
(`OneServer`, `OneSocket`; between the start of a process and `c.cmd = cmd` it is the one of that `Start`), one loop
(`OneLoop`), watched while it is in place (`InPlaceIsWatched`). `KnownNumbers` and `Unpublished` say that nobody else knows
the numbers of a `Start` under way. `Greeting` and `AskedFirst` follow the `initialize` of each socket.

`VoicePacketsProofs` proves from `PkAssumption` alone, for any callers, joins, packets and
length of the queue:

* `PacketTypes`, `NoForwarderIsLeft`, and
* `PacketsAreAStream`: `VoicePackets` implements `PacketStream`. Its initial states are
  initial there (`PkInit => StreamInit`), a receive is a feed (`ReceiveFeeds`), what a listener
  takes is the oldest packet that waits, and every other step leaves the stream alone
  (`StepStreams`).

`FlowKept` makes this work: the queue of a runtime, with the packet its forwarder has in
hand, is the run of consecutive packets after the last one taken. `Exclusive` is `voiceMu`:
one call at most is between the lock and the unlock, which is why the runtime it
replaces is still the one it found.

`RealtimeClientProofs` proves from `RtAssumption` alone, for any callers, dials and losses:

* `ClientTypeCorrect`, `CurrentIsRead`, `CleanMeansTold`, `LossIsOwn`.

`RtCleanMeansTold` needs to know what the server will answer: each message on the wire is of
the schema it was written in (`MessagesKnown`), an event that is on its way tells what the
server has at that time (`EventsTrue`), and the sender about to clear the mark has told the
configuration it read, unless another one wrote in between (`CleanerTold`). `WriterHolds` is
the write mutex, `DialsOwn` that each dial has one owner until it is published.

`MemoryProofs` has a part for each module, from `FaAssumption`, `PwAssumption` and `GsAssumption`, and one for their composition:

* `OneRow`, `GoneIsTraced`: the facts table never holds two rows of a slot, and an open
  fact that is gone left its trace. The lemmas say which slots a table names after an
  insertion and a removal (`Inserted`, `Removed`, `Without`, `Upserted`) and that a resolution's
  key is never an open fact's (`SlotsApart`). `GoneIsTraced` is inductive with the types.
* `FactTypeCorrect`, `ContextWhole`: `FaSpec => []FaContextWhole`. `ListWhole` says it of a list that is not
  finished: each kind listed so far that nobody wrote since has its newest rows in it, unless it is full. A query adds
  the newest rows of its kind (`Answered`, `Merged`, `Gathered`); later queries only add to a list that is not
  full. Meanwhile a write of a row of another kind leaves the order of all other rows (`LaterInserted`,
  `LaterRemoved`, `OrderKept`), hence the newest of each other kind (`NewestKept`). A query's answer
  lists its whole set, each row once, because a sequence of as many rows in strictly falling order can leave none out (`Answered`).
* `PresenceTypeCorrect`, `WokenOnce`, `SinceIsLast`. `HandlersTrue` says that the snapshot a
  handler read was the last *by text* among those saved before, and that its own was saved after
  it; `SummariesTrue` says the same of the updates behind scheduled summaries. Two
  summaries of one absence would make one of two handlers read a snapshot although a later one had
  been saved. That the texts order times of different seconds is `TextOrder`; it is
  all the order the proof has, hence the assumption that the threshold, four hours in the code, is at least a second.
* `GuildTypeCorrect`, `TwinsOverlapped`, `ViewsHonest`, `ChosenKept`. `GuildGrows` says what a step does to the
  guild: channels are only added, at the end, keep their kind, and keep their name unless
  they are archived with a prefix. So a call that listed the first `seen` channels and found no namesake has been
  overtaken by whoever made the one that is there now (`CallLooked`). For `ViewsHonest`, `SurveyTrue` follows a view from
  its list of channels to its reading of the activity: what it heard at first is still in the window when
  it reads, since messages do not leave it in between, and a reading that was not cut by the limit has all groups
  (`AllRows`). A channel of one name is one group, so a suggestion has all of its messages (`Suggested`).
* `PartsHold` (`MemorySpec => FaSpec /\ PwSpec /\ GsSpec`) and `MemoryTypeCorrect`
  (`MemorySpec => []MemoryTypeOK`), as for the voice modules.

*Only model-checked.* `DueJobRuns` and `Returns` are liveness: they need fairness, hence ENABLED,
which the prover does not reason about. Everything else the passing runs check is one of the theorems above. The three
properties of section 5 are violated, so there is nothing to prove of them. Where a definition counts or
lists data (queries, views), the proofs go by what one step adds or removes and never by induction over the data.

## 5. Where the code and its words differ

* `jobs.cancel` is described as stopping a job (`bot/tools_core_jobs.go:94`). A cancel
  between the `DueJobs` query of a tick and the job's turn in it is overwritten by the state `running`
  (`jobs/jobs.go:124`): the job runs, and a periodic one goes on. Run `jobs_cancel` shows this order, which is the shortest. A cancel during
  the run is overwritten in the same way by the run's result (`:146`), and by the whole-row writes of the handlers.
* `jobs.schedule_codex_task` is described as running the task once
  (`bot/tools_jobs_schedule.go:110`). The handler returns `Done: true` with the error of
  a failed turn, but `tick` drops the result of a failed run (`jobs/jobs.go:128`), so the
  task is retried until a turn succeeds. Run `jobs_once`.
* The agent's self model says it has a conversation thread for each channel
  (`selfmodel/docs.go:45`, also `README.md:12`). Two handlers that miss the cache at once
  start a thread each and talk on both at the same time (`bot/codex_threads.go:66`). Run
  `threads_one`.

What the exceptions of the properties stand for is behaviour no document speaks of, so it is
listed here and not as a finding:

* the start of the process revives an autonomy pulse that was completed or cancelled when its schedule is not the
  default (`conversation.go:49-56`; 2.1);
* a store error ends the scheduler goroutine, and no job runs until the process is started again (2.1);
* a guest who arrives between the read of the members in `Join` and the start of its session is not in the list
  until the next update, and the same is true after a failed handler or a list written into another session (2.7);
* a turn that ends before its waiter is registered is waited for for ever (2.2);
* a stale reader or writer tears down a new app-server connection, and the program may end with a nil
  dereference after it; a failed `initialize` leaves a connection nobody can use (2.4);
* `close` of a voice runtime may panic the forwarder (2.5); `runtime.audio.Close()` in `Leave` comes before
  the consumers' context is cancelled (`engine_session.go:146`);
* a Join elsewhere replaces a session without ending its row; after the next Leave,
  `Status` reports that row's session as active (2.7);
* overlapped `Connect`s leak a connection with two readers on the other, and a late update clears the
  mark of a newer configuration (2.6);
* `find_orphan_channels` and the category map call a category with only voice channels empty,
  `plan_space_refresh` and `describe_space_candidates` do not (`space/describe.go:421`, `:294`);
* `archive_channels` with a prefix that has capitals prefixes the name again each time, since the
  stored name is sanitized to lower case, and its rename undoes one made after its `GetChannel`;
* `EnsureTextChannel` moves a channel of the same name out of another category.

## 6. Not modelled

Prompts, persona, the self-model documents and all other text; configuration, file layout, the
entry point and log viewing; the opus codec and resampling; web pages and media; topics,
snapshots and their diff; searches of messages and transcripts; the tool
registry, a map filled once. In the voice engine: playback and truncation. They are pure functions or
one read and its formatting, without state that another step depends on. The main thread of the
autonomy pulse and the order in which two replies of a channel are posted are state, and are still open.

## 7. Plan

Done: every module of section 2, with proofs for each module that has a protocol, for every safety
property of the runs, and for three refinements (`PacketStream`, `OneShotPosts`, `TurnContract`).

Open: the main thread of the autonomy pulse in `ChannelThreads`, bound once per process like that of a channel but without its lock; the order of
the replies of a channel, which are posted after the thread lock is released; and a contract of
`AppServerLink` under which the connection of `CodexTurns`, one step there, could be refined.
