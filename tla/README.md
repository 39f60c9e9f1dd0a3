# Verification of llmport

llmport is a local gateway for language-model APIs. Clients speak the OpenAI or
the Anthropic protocol to one port; the gateway authenticates them, routes each
request to the first healthy provider bound to the model they name, translates
the format where the two protocols differ, and passes the answer back. A daemon
manager runs the gateway as a background process, and a command line edits the
configuration files it reads.

This directory holds TLA+ models of those parts, TLC configurations that check
them on small instances, and proofs that TLAPS checks for every value of the
constants. Source paths below are relative to `src/src/llmport/`.

Run a check with `tlc -config <run>.cfg <module>`, a proof with `tlapm <module>.tla`.

1. [The system](#1-the-system)
2. [The modules](#2-the-modules)
3. [What is checked](#3-what-is-checked)
4. [What is proved](#4-what-is-proved)
5. [Where the code and its documents disagree](#5-where-the-code-and-its-documents-disagree)
6. [What is not modelled](#6-what-is-not-modelled)
7. [Plan](#7-plan)

## 1. The system

### Components

| Component | Source | State it keeps | Operations | Modelled in |
|---|---|---|---|---|
| HTTP gateway | `gateway/server.py`, `handler_base.py`, `openai_handler.py`, `anthropic_handler.py`, `health.py` | one coroutine per request: the request, the provider chosen, the upstream's answer, the open stream | `/health`, `/openai/v1/models`, `/openai/v1/chat/completions`, any other `/openai/v1/*`, `/anthropic/v1/messages`; the key gate in front of them | `Gateway` |
| Router and health | `gateway/router.py`, `gateway/state.py`, `models/provider.py` | a health record per provider (status, deadline); configuration read once at start | `resolve`, `mark_down`, `is_down`, `reload` | `Gateway`, `Failover`; `reload` in `Apply` |
| Stream translation | `gateway/translator.py` 645-833 | a generator per stream: block numbers, open blocks, tool-call numbers, `finished` | an event in, events out; end of the stream | `ToAnthropic`, `ToOpenai` |
| Request and response translation | `gateway/translator.py` 63-599 | none; the loop over messages holds results that wait | a request or a response in, one out | requests: `Requests`; responses: the reference of the stream modules |
| SSE framing | `gateway/translator.py` 604-642 | buffer, UTF-8 decoder | a chunk of bytes in, events out | `Frames` |
| Daemon lifecycle | `daemon.py` | processes, signals, ports, `daemon.pid` | `start`, `stop`, `restart`, `is_running`, `get_status`, `run_daemon` | `Daemon` |
| Configuration store | `config/store.py` | `config.yaml`, `providers.yaml`, the old `models.yaml`, `config.yaml.bak`, temporary files | `init_first_run`, `migrate_layout`, `load_*`, `save_*`, `set_api_key` | `Config`, `Settings` |
| Commands | `cli.py` | none of their own; what they have read from the files | `setup`, `provider add/remove`, `model add/remove`, `api-key set/clear`, `config init/edit`, `start`, `stop`, `restart`, `status`; the restart after a change (`_apply_if_running`) | `Config`, `Daemon`, `Apply` |
| Provider validation | `config/validation.py` | none | refuse or warn about a `base_url` | its verdicts, in `Config`, `Gateway` and `Routes` |
| Model configuration | `models/model.py`, `models/parser.py` | none | parse the bindings of models | `Routes`; a constant of `Gateway` |
| Probes | `cli.py` `_model_test`, handlers' `list_models`, `test_connection` | none | read-only requests | no |
| Terminal interface | `app.py`, `ui/` | widgets | calls the gateway's former `/api/` routes | no |

### How they interact

- Commands and the daemon share the **configuration files**: a command writes
  them, a daemon reads them once, at its start. After a change the command
  restarts a running daemon (`_apply_if_running`).
- Commands and daemons share the **pid file**, the **process table** (signals,
  `ps`) and the **port** (`/health`).
- Requests share the **health records** of the providers inside the daemon's one
  event loop: what happens between two awaits is atomic, nothing else is.
- The gateway wraps the **stream translators** around an upstream's byte stream;
  a translator runs inside the request's coroutine.

### What is hard about it

- *Concurrency in the gateway.* Routing reads health before a long await and
  judges the provider after it. Verdicts of concurrent requests come in any order.
- *Four parallel paths.* Plain and streaming, direct and translated requests have
  separate code for the same obligations: pass the upstream's status on, judge the
  provider, close the stream, on every way out.
- *Permanent and temporary down* share a record; only routing keeps a failure
  from turning the one into the other.
- *Processes that find each other through a file.* Check, probe, spawn, write and
  unlink are far apart, pids are reused, daemons die at any moment or come up late.
- *A configuration read in parts.* A daemon makes three reads of two files while it comes
  up, and a command may save one of them between any two.
- *Streams.* Two block numberings, interleaved tool calls, three ways to end; bytes cut
  anywhere, in the middle of a character too.
- *Requests.* One protocol has a message for each tool result, the other one message
  for all of them; what a message becomes depends on those around it.
- *Files and crashes.* An upgrade changes three files in turn; users edit them too.

### What makes each part correct

- Gateway: a client never sees success for an upstream failure nor another status
  than the upstream's; no upstream sees a request without llmport's key; a failing
  provider is left alone for the cooldown, and only that long; a blocked one
  always; every request is answered; streams are closed.
- Daemon: one daemon at most; the serving one can be found; no signal reaches an
  unrelated process; every command ends. (Not all of it holds of all circumstances: section 5.)
- Configuration: once a change is done, the serving daemon has all of it.
- Routes: what was added is used as given, what was removed is not, and `start` warns of
  what will not be used.
- Requests: nothing that is said is lost or moved; tool results are where the
  provider's protocol wants them; every parameter arrives under one name.
- Framing: the events do not depend on where the network cuts.
- Streams: the client can follow the translated stream, the pieces of each block
  stay together and in order, and what it has in the end is what it would have had
  without streaming.
- Store: files are whole; a command does all of its one change or nothing;
  upgrades lose nothing; keys are never overwritten by `setup`; comments survive.

`PROJECT.json` lists the hazards at their source lines with the properties that
answer it, and maps each definition to the lines it models.

## 2. The modules

| Module | What it is |
|---|---|
| `Failover` | What the gateway promises about failing providers: a breaker per provider. |
| `Gateway` | The gateway process, an action from one await to the next. |
| `MCGateway` | Its instances for TLC. |
| `GatewayProofs` | Its theorems, and that it implements `Failover`. |
| `Daemon`, `MCDaemon` | The lifecycle of the gateway process, an action per system call or probe. |
| `Apply`, `MCApply` | `Daemon` with the configuration that commands save and daemons read. |
| `DaemonProofs` | The theorems about both. |
| `Routes`, `MCRoutes`, `RoutesProofs` | From the documents that commands and users write to the bindings the router goes through, an action per edit. |
| `Requests`, `MCRequests`, `RequestsProofs` | Requests of one protocol to the other, an action per message. |
| `Frames`, `FramesProofs` | Bytes to server-sent events, an action per chunk. |
| `ToAnthropic`, `MCToAnthropic`, `ToAnthropicProofs` | OpenAI chunks to Anthropic events, an action from one yield to the next. |
| `ToOpenai`, `MCToOpenai`, `ToOpenaiProofs` | Anthropic events to OpenAI chunks, an action per upstream event. |
| `Settings` | What the commands promise about the settings, apart from the files. |
| `Config`, `MCConfig`, `ConfigProofs` | Files and the commands that edit them, an action per file read, write, rename or unlink; that they implement `Settings`. |

Modules contain *mutants* beside the definitions they change: operators with a
comment that begins with "Mutant", each a plausible bug in the code. No specification
uses them; substituted for the definition that follows, they break the property
`PROJECT.json` pairs them with, which shows that the property depends on the code.

### Gateway

`health` is `ProviderHealth` of every provider. The code compares
`down_until` with the clock; the model keeps the ticks left, so that the clock
needs no bound, and `Tick` brings all deadlines nearer. The other variables are
what a request's coroutine holds: `pc` names the await it is at, `inp` the request,
`target` the result of `resolve()`, `upstream` the `UpstreamResult` or the open
stream's status, `conn` the open stream, `reply` the status the client has.

| Action | Code |
|---|---|
| `Receive` | `APIKeyAuthMiddleware`, `/health`, `/openai/v1/models` |
| `Reject`, `Choke`, `Dispatch` | `_read_json_body`, model lookup, `resolve`, protocol check, request translation, in the three handlers |
| `NoResponse`, `Break`, `Forward`, `OpenStream` | `forward` and `open_stream` of `handler_base.py` and what the handlers do with the result |
| `Drain`, `DrainBreak`, `CloseDrained` | the error branch of `_stream_response` and `_stream_translated` |
| `PipeEnd`, `ClosePiped` | `_pipe` and its finally clause |
| `Release` | the connection is free for the next request |

`Break` is every httpx error other than a timeout or a refused connection; a
body is "odd" when the code raises on it. `PipeEnd` has a branch for a client that
is gone before Starlette starts the generator, whose finally clause then never runs.

### Daemon

`proc` says what runs under each pid: nothing, an unrelated process, or a
daemon at some point of `run_daemon` (`booting`, `writing` the pid file,
`loading`, `serving`, `draining`, `leaving`). `file` is `daemon.pid`, `fd` whether a
daemon still has it open (and whether it has been unlinked since), `cmd` the
command each shell is running, down to the step of `is_running`, `start` or
`stop` it is at. `Mishaps` selects what happens around the program: `crash`,
`term` (a SIGTERM from outside), `delete` (of the pid file), `slow` (a daemon that
answers later than `start` waits), `recycle` (a pid reused inside a `stop()`), `ps` (not
installed, failing, or slower than the three seconds it is given).

`Identify` reads a process's command line through `ps`, which takes any daemon
for ours and trusts the earlier `kill(pid, 0)` when the process has just died
(`TakenForOurs`). With the mishap `ps` it may take any process for ours, as
`_pid_is_our_daemon` does when it has no command line to look at.
`AfterTerm` is what SIGTERM does at each point of a daemon's life: uvicorn's handler
exists only while it runs. The model is that of POSIX; the Windows branches
are left out.

### Configuration changes

`Apply` extends `Daemon`. `reads[n]` is how many of the three reads of `reload()` daemon `n`
has done (models from `config.yaml`, providers from `providers.yaml`, the key from
`config.yaml`), `stale[n]` whether a file has been saved since `n` read it. `Change` is a
command that saves a file and goes on to `_apply_if_running`; what a save does to the
file is in `Config`. `Read` is enabled once the pid file is written, because `run_daemon`
calls `create_app` after that: a command that saves before a read is read, one that saves
after it finds the daemon in the file. `Lives` lets a daemon bind once it has read
everything. All other steps are those of `Daemon`.

### Routes

`Config` follows commands from one file operation to the next and has a set of entries;
`Routes` has the documents in their order, as lists in which hand edits leave duplicates,
incomplete entries, and entries of older versions. `entries` and `models` are the two
sections; the actions are the commands that change them (each as a whole) and edits by
hand. What a daemon that loads them makes of it are operators: `Name` and `IsDown` are
`ProviderConfig.from_dict` and the check of `GatewayState.reload`, `Bindings` is
`parse_models_config`, `Routes` what `Router.resolve` goes through while no provider fails.
`Warned` is `_validate_providers_config`, which `start` runs in its own process.

### Requests

`read` is what the client has sent, `out` what has been translated, `pending` the tool
results that wait for the user message they go into (`flush_tools`). Texts are sequences
of blocks, so that joining them is concatenation and blocks can be told apart afterwards.
`ReadSystem`, `ReadTool`, `ReadCalls` and `ReadPlain` are the branches of the loop of
`openai_to_anthropic_request`, `ReadAnthropic` the one of `anthropic_to_openai_request`,
`Finish` what follows the loop: the last flush and the other parameters, of which only the
name they are sent under and the one they come from matter. `odd` are those of `tools` and
`tool_choice` whose value the conversion has no form for, and returns `None` for; a known
field without a value (null, or an empty list) counts as one that is not there.

Messages and parts that are no mappings are left out (the code skips them), as are tool
calls without an id, which get a fresh one. Content that is empty is an empty string with
either protocol, never an empty list.

### Frames

A field's name (`data:`) and a character are a symbol each, except for one character of
two bytes, which a cut can tear. `Decode` is the incremental decoder with
`errors="replace"`, `SplitAll` the loop that takes blocks off the buffer, `ParseBlock`
`_parse_sse_block`. White space around values is left out.

### Streams

The generator's local variables are the variables of the module. `view` is a client:
it accumulates events the way an SDK does and notes when it cannot follow
(`garbled`). History variables record what the upstream has sent, so that the client's
result can be compared with `Response`, which says what the non-streaming translation
(`openai_to_anthropic_response`, `anthropic_to_openai_response`) makes of the same
message. Pieces of text and arguments are model values.

### Configuration

`disk` holds the files: a document, or nothing, or something that is no YAML
(`Corrupt`), no mapping (`NotAMapping`), half written (`Torn`) or from before the first
split (`Ancient`). `tmp` holds the temporary files of `_atomic_write_bytes`. A command's
`job` is its operation, the step it is at, what it has read, what an upgrade
carries in memory, and the write it is about to make. `Open`, `Write`, `Replace` are
`_atomic_write_bytes`; `BackUp`, `Upgraded`, `Upgrade`, `UnlinkModels` are `migrate_layout`;
`Templates` is the rest of `init_first_run`; the others are the commands.

The code takes no lock. Commands here overlap only when they replace different
files of an upgraded directory (`MayOverlap`): two that change the same file lose one of
the changes, as read-modify-write without a lock does, and no document
promises otherwise.

`Settings` is the promise: each command changes one thing, entirely or not at all.
Its variables `conf` and `provs` are computed from `disk`: the gateway, models and
key wherever the layout of the moment keeps them (in `providers.yaml` and `models.yaml`
before an upgrade; in the command's memory during one), or `Unreadable`.

## 3. What is checked

| Run | Instance | Distinct states |
|---|---|---|
| `Gateway_serving` | 2 connections; 3 providers, one per protocol and one blocked; one model bound to the blocked one, to a name nobody has, and to both others, the first twice; cooldown 2; statuses 200, 404, 429, 500; every endpoint | 174,263 |
| `Gateway_mark` | the same, with one streaming and one plain request | stops at a violation |
| `Daemon_safety` | 1 shell, 3 pids, 2 ports; crashes, SIGTERMs, `ps` failing, the pid file deleted; with fairness | 221,432 |
| `Daemon_slow` | 1 shell, 3 pids, 1 port; slow daemons | stops at a violation |
| `Apply` | 2 shells, 2 pids, 1 port; slow daemons, the pid file deleted | 7.8 million up to symmetry |
| `Routes` | 2 providers, 2 models, up to 3 entries of 6 forms, 4 forms of a model | 26,560 |
| `Requests` | both directions; requests of up to 5 out of 9 OpenAI or 8 Anthropic messages; 4 sets of other parameters, with values of `tools` and `tool_choice` that can be converted or not | 1.4 million |
| `Frames` | streams of up to 7 bytes, cut in every way | 671,846 |
| `ToAnthropic` | 3 chunks, 2 pieces, 2 tool calls | 162,295 |
| `ToOpenai` | 3 blocks of 2 pieces, text and tool use | 224,030 |
| `Config` | 2 commands at a time, 3 in a row, from 9 directories; 2 providers, 1 model, 2 addresses | 1.5 million |
| `Config_unreadable` | the same, with a file made unreadable before an upgrade | stops at a violation |

### Gateway

- `Transparent`: an upstream's error status reaches the client as it is, on
  all four paths; success is told only on success; a 504 of the gateway's own
  stands for an upstream that did not respond.
- `AuthorisedContact`: no upstream exchange without llmport's key, nor when none is set.
- `PermanentStaysDown`: a provider blocked at load is never contacted and never comes
  back. `mark_down` would make its down temporary; that it never meets one is the point.
- `StreamsClosedUnlessBroken`: an answered request has closed its stream, the three
  exceptions of section 5 aside (a broken transport, or a client gone before the pipe begins).
- `FailureCoolsDown`: the step that answers a client whose upstream failed marks
  the provider down for the whole cooldown. `OnlyFailureMarksDown`: nothing else does,
  and it never marks another provider.
- `ImplementsFailover`: seen through `breaker`, `serving` and `verdict`, the gateway is
  the circuit breaker of `Failover`.
- `TemporaryDownEnds`, `EveryRequestAnswered`: a cooldown that no failure renews ends;
  every admitted request is answered.

*Bounds.* Two requests are enough for one to mark a provider down while another waits
for it, to extend its cooldown or to fall over; a third adds no kind of
interference, as requests meet only in `health`. With a cooldown of 2 a deadline can be
renewed half-way. The four statuses are one of each class the code tells apart.

*Fairness.* `Tick` is weakly fair: time passes. Each coroutine's steps are weakly fair
(`Progress`): asyncio runs every ready coroutine, and httpx times out
an upstream that is silent. It does not time out one that keeps sending, and the
model assumes that answers end. Receiving a request or closing a connection is up
to clients and not fair.

### Daemon

- `AtMostOneDaemon`: in one shell, of two daemons one has lost its pid file (`Robbed`);
  also when daemons crash or are terminated, through repeated starts and restarts.
- `KeepsItsPidFile`: how a daemon can lose its file while commands are given in one shell: a
  user deletes it, or another daemon that has lost its own takes it along on its way out. No
  command does it there. With two shells one can (section 5).
- `NeverDoubled`: in one shell, no daemon is started on the port of one that serves, also
  when the pid file no longer tells of it.
- `ClearsOnlyTheDead`: who unlinks the pid file has made sure its daemon is gone.
- `CommandsEnd`: every command ends, also when a daemon fails to come up or never finishes
  draining.

*Bounds.* Three pids hold an old daemon, a new one and a stranger, or two daemons and
a third that a start would add. Two ports let a `--port` differ from the configured one.
One shell is what single users have. With two, `AtMostOneDaemon`, `NeverDoubled` and
`KeepsItsPidFile` fail, even with no mishap at all (section 5).

*Fairness.* A command's steps are weakly fair: it is a running process, its waits are
bounded by deadlines. A daemon on its way up or out moves on (`ComesUp`), unless `slow`
is among the mishaps; draining may last for ever, which is what `stop()` must cope with.

### Configuration changes

- `UpToDate`: once the commands that changed the configuration are done, the daemon that
  serves and is on file has read all three parts since they were last saved; whatever other
  shells do meanwhile, and however slowly daemons come up.
- `SignalsOnlyDaemons`: two shells that start, stop, restart and change at once signal no
  unrelated process, where `ps` tells whose a pid is and none is reused inside a `stop()`.

*Bounds.* Two shells are one that changes and another that changes, starts or stops under
it; two pids an old daemon and a new one, or a stranger. `ps` and `recycle` are left out
because the code then does signal a stranger: with one shell and either of them alone
`SignalsOnlyDaemons` fails (section 5). A stale file, and a stranger under its pid, are in the
run: a daemon that fails to load leaves its file. Crashes are left out to keep the run short;
the theorems of section 4 include them.

### Routes

- `EditsTakeEffect`: a provider or a model that has been added is used as it was added,
  whatever the sections held before; one that has been removed is not, except that a provider
  may come back from an entry of an older version (section 5).
- `OtherRoutesStay`: a command that names one provider or model leaves the routes of the
  others as they are, in their order.
- `WarningsAreRight`: `start` warns of an entry exactly if the daemon will not use it for
  what is written in it. Entries of older versions are apart (section 5).

*Bounds.* Three entries hold one that commands know, one that shadows it or is shadowed, and
one that makes a save fail. The forms of a model have every form of a binding.

### Requests

- `NothingLost`: at every moment, what has been said of each kind (text, images, calls,
  results, by whom) is the same, and in the same order, on both sides.
- `AnsweredAtOnce`: a conversation in which the client's protocol finds every call
  answered, once and by its id, and nothing answered that was not called, is one in which the
  provider's does: a tool message for each call right after it (OpenAI), all results in the
  next message (Anthropic).
- `RoundTrip`: to Anthropic and back is what the client sent, but for the system messages,
  which come first and as one.
- `EveryFieldOnce`: every other field arrives, under one name, and none gives way to an
  unknown one; except `tools` and `tool_choice` with a value for which the conversion has no
  form (`odd`), which are not sent at all.

*Bounds.* Five messages hold a call of two tools, its two results, and what follows them,
or system text before and between. The messages are one of each form the code tells
apart, with images of a form that is carried over and of one that is not, and arguments
that are no JSON.

### Frames

- `CutsDoNotMatter`: after any chunks the events are those of the whole text so far, each
  as soon as it is complete, and no character is torn.
- `AllDataArrives`: when the stream has ended, every data line has arrived once and in
  order, also without a last blank line or with half a character at the end.

*Bounds.* Seven bytes hold two events, or one of two lines with an event's name or with
a torn character, and each stream is cut in all ways.

### Streams

- `WellFormed`: the client can follow: blocks numbered from 0, deltas and stops
  only for open blocks, `message_stop` after all are closed (to Anthropic); tool
  calls in order, nothing after the finish chunk (to OpenAI).
- `Unmixed`: what a client holds in a block or a call is a prefix of
  what the upstream sent for it, never a piece of another's.
- `AsInOnePiece`: when the stream has ended, the client has the message and the stop
  reason that the non-streaming translation gives. (To Anthropic, up to the place of
  the text among the calls: the non-streaming translation always puts it first. To OpenAI,
  unless the upstream has reported an error, which the client is not told; section 5.)
- `EndsOnce`: nothing follows `message_stop`, unless the upstream itself
  goes on after its `finish_reason`.

*Bounds.* Three chunks hold a call that begins, is interrupted by another, and goes on,
or an end and what comes after it; three blocks hold text between two calls.
The upstream may end, be cut, or (to OpenAI) report an error after any of them.

### Configuration

- `TypeOK` says more than types: at every moment, also where a command was
  killed, `config.yaml` and `providers.yaml` are whole documents.
- `NothingLeftBehind`: no `models.yaml` remains beside a configuration in use, where
  nothing would read it any more.
- `CommentsKept`: the key commands and `setup` leave the user's comments in `config.yaml`.
- `ImplementsSettings`: every step of every command, seen through `conf` and `provs`,
  changes one thing as the user asked, or nothing; `setup` never overwrites a key;
  an upgrade step changes nothing at all, from any older layout.

*Bounds.* Three turns are an upgrade, a change and another that depends on it. The nine
directories are a fresh one, a current one, the two older layouts, whole and
with parts missing, and two with an entry that validation refuses. Commands may be killed
before any step (`crash`) outside an upgrade, and files made unreadable or
deleted by hand (`edit`).

## 4. What is proved

The theorems hold for any providers, bindings, connections, shells, pids, chunks,
messages, documents, directories and bounds that satisfy the `ASSUME`s of the modules. Those
say what the configuration or the protocol guarantees (a cooldown is positive, a tool's
message has an id and no other has, the initial directories are ones the program or its
older versions have left) and that values which stand for "none" differ from those they
stand in for.

| Theorem | States |
|---|---|
| `GatewayProofs!TypeCorrect`, `Invariant` | types; the inductive invariant |
| `GatewayProofs!PermanentDown` | `PermanentStaysDown` |
| `GatewayProofs!Authorised` | `AuthorisedContact`, with a key configured or none |
| `GatewayProofs!TransparentErrors` | `Transparent` |
| `GatewayProofs!StreamsClose` | `StreamsClosedUnlessBroken` |
| `GatewayProofs!FailuresCoolDown`, `OnlyFailuresMarkDown` | the two action properties |
| `GatewayProofs!GatewayImplementsFailover` | `ImplementsFailover` |
| `DaemonProofs!TypeCorrect` | types |
| `DaemonProofs!SignalsSpareStrangers` | `SignalsOnlyDaemons`, where `ps` works and no pid is reused within a `stop()` |
| `DaemonProofs!OneShellOneDaemon` | `AtMostOneDaemon`, with one shell and no slow daemons |
| `DaemonProofs!OneShellNeverDoubled`, `OneShellKeepsItsPidFile` | `NeverDoubled` and `KeepsItsPidFile`, under the same conditions |
| `DaemonProofs!OneShellOnFile` | also with nobody deleting the file, that the pid file names the daemon that serves (`ServingIsOnFile`, which `Daemon_slow` shows to need them) |
| `DaemonProofs!OneShellClearsTheDead` | `ClearsOnlyTheDead` with one shell, whatever the mishaps |
| `DaemonProofs!ApplyImplementsDaemon` | every behaviour of `Apply` is one of `Daemon` |
| `DaemonProofs!ApplySparesStrangers`, `ApplyTypeCorrect` | `SignalsOnlyDaemons`, on the same two conditions, and types, while configurations change |
| `DaemonProofs!ChangesTakeEffect` | `UpToDate`, for any shells, pids, ports and mishaps |
| `ToAnthropicProofs!TypeCorrect`, `StreamsAreWellFormed` | types and `WellFormed` |
| `ToAnthropicProofs!StreamsAreUnmixed`, `StreamsTellTheSame`, `StreamsEndOnce` | `Unmixed`, `AsInOnePiece` and `EndsOnce` |
| `ToOpenaiProofs!TypeCorrect`, `StreamsAreWellFormed`, `CallsAreUnmixed`, `StreamsTellTheSame` | types, `WellFormed`, `Unmixed` and `AsInOnePiece`; the last three for an upstream that uses text and tool_use blocks |
| `FramesProofs!CutsAreInvisible`, `DataArrives` | `CutsDoNotMatter` and `AllDataArrives`, for streams of any length |
| `RequestsProofs!SaysWhatWasSaid`, `ThereAndBack`, `AnswersStayAtOnce`, `FieldsArriveOnce` | `NothingLost`, `RoundTrip`, `AnsweredAtOnce` and `EveryFieldOnce`, for conversations of any length |
| `RoutesProofs!EditsAreObeyed`, `OthersAreLeftAlone`, `WarningsAgree` | `EditsTakeEffect`, `OtherRoutesStay` and `WarningsAreRight`, for documents of any length |
| `ConfigProofs!TypeCorrect` | types, and that files are whole |
| `ConfigProofs!UpgradesAreComplete` | `NothingLeftBehind`, also with upgrades killed half-way |
| `ConfigProofs!CommandsMeanWhatTheyWrite` | `Intents`, the invariant behind the next two |
| `ConfigProofs!ConfigImplementsSettings` | `ImplementsSettings`, unless an upgrade is killed or a file it has yet to read is spoilt |
| `ConfigProofs!KeysKeepComments` | `CommentsKept` |

**Gateway.** That a blocked provider stays down does not follow from the health
records alone: `mark_down` would end it. `IInv` adds `Coherent`, which says of each
request what holds at each await: its target is not blocked, its stream is open while
drained or piped, its reply agrees with the upstream's status. Preservation goes by the
step of one request (`StepOfOne` leaves the others alone) and `Tick`. The action
properties and the refinement follow from `IInv` and one step each: a step that answers is a
`Serve` or a `Trip` of `Failover`, `Dispatch` is a `Route` because `Candidates` are the
bindings whose breaker is closed (`ClosedIsHealthy`), `Tick` is `Elapse`, and all
others stutter.

**Daemon.** `Purposeful` says that a command acts only on a pid that it has read.
`NoStranger` extends `SignalsOnlyDaemons` to the wait between SIGTERM and SIGKILL: a
process under a pid that a `stop()` relies on was identified (`EndingBegins`, for which `ps`
has to work), and a stranger comes only to a pid that is unused (`StrangerArrives`). `Sole` says
where the one daemon is as long as nobody deletes the file: it is named there once it has
written it, it is on its way there only while the shell polls for it, and the shell, if it
is at a daemon, is at this one.

When the file may be deleted, the daemon that serves cannot be found by it. `Orderly`
then leans on the port: a daemon that comes up is the one the command waits for, nothing else
is on its port, and nothing is on file but what it has written (`Awaited`); and what a command
has learnt from the file and the port is still so when it acts on it (`Informed`). Only
`Bind` makes a daemon serve, and it finds its port free. A daemon that is slow has no command
that waits for it, which is why `slow` is excluded.

**Configuration changes.** `UpToDate` is not inductive: a daemon is outdated from the save
to the restart. `Replaced` says that while it is, and is on file, the command that will end
it is on its way: it has yet to read the pid file or it has read this pid there
(`Coming`). That is preserved by the steps of that command (`ComesCloser`); a new
daemon cannot come to be on file outdated, because it reads after it has written the file
(`ReadsLate`, `NamedBefore`). The theorems of `Daemon` carry over by `ApplyImplementsDaemon`.

**Streams.** `WellFormed` is about the client, and the code does not see the client.
`InStep` ties the two: the code's open blocks are the client's blocks, numbered alike,
and while blocks are being closed those still in `closing` are those still open.

To Anthropic, a chunk takes several events, and between them the client has only a part of it.
`Told` says that for each owner of a block what the upstream has given is what the client has
and then what is due of the chunk in work; that the reason told is the one given; and that
after `message_stop` either all of it has arrived or it is the upstream that went on. The
pieces given in a chunk are a recursive function of its calls, about which the lemmas are
proved by induction over the length.

To OpenAI, `InStep` relates three things: `tool_index_map` takes the upstream's
`tool_use` blocks to the client's calls and back, and each call has what its block has
been sent. For `AsInOnePiece` the client's text is the text of the blocks joined in
their order, which pieces that arrive later may disturb unless the one open text block is the
last (`OneText`); calls are in the order of their blocks (`Ordered`); and the reason is told
once (`ReasonTold`). All that needs `"server_tool_use" \notin Kinds`: the arguments of such
a block go to call 0 (section 5).

**Frames.** `IInv` says that while the stream is open the decoder's held bytes, the buffer and
the events are what decoding and splitting all of the bytes in one piece would leave. That a
chunk keeps it is a fact about the operators: decoding `s \o t` is decoding `s`, then `t` with
what was held (`DecodeConcat`), and splitting it is splitting `s`, then what was left of it with
`t` (`SplitConcat`). `Lines`, `SplitAll` and `Decode` recur on what is left of a text;
`RecursionOnLength` shows once that such a function is what its equation says, and every
fact about them is by induction over the length. That each data line arrives once does not
mention the events' framing: `SplitData` relates the data of the events to the data lines.

**Requests.** All that the translations and the properties do to a sequence is to collect what
becomes of each of its elements: `Collect(s, f)` joins the `f(s[i])`. Collections of a
concatenation concatenate (`CollectConcat`) and a collection of a collection is one
(`CollectTwice`), so that each property comes down to a fact about one message.

- `NothingLost`: `Same` says that what was read is what is out and then what the results that
  wait say, for each speaker and kind apart.
- `RoundTrip`: what is out, then what waits, is on the way back what was read.
- `AnsweredAtOnce` is about whole conversations, and the prefix read so far need not be answered.
  To Anthropic, `Waits` says of a prefix that may still be answered (`Extendable`) that
  the results that wait answer calls of the last message that is out; and a message
  that is no answer can follow only when all have been. To OpenAI, `Tended` says that what is
  out is answered but for the calls of its last message. Ids are compared as sets, of
  sequences whose ids are distinct, which is where the cardinalities come in.
- `EveryFieldOnce`: each known field that has a form in the other protocol has a source of its
  own, and an unknown one is passed on only under a name that no known one has taken; what
  has no such form is known, and so not passed on (`UnknownAdded`).

**Routes.** The gateway uses the last entry of a name; the commands filter the entries of
a name and append. Filtering twice is filtering once by both conditions (`ThoseTwice`), and
filtering a sequence to which one element is appended is filtering it and appending, or not
(`ThoseAppend`). Routes of the others stay because a command filters by the name and routes are
what is left when that name is filtered out.

**Configuration.** A file is whole because the command that is about to rename its
temporary file is the only one that has touched it. `IInv` says so: a command at
`replace` finds in `tmp` what it has written, and of two commands at work, neither is
upgrading and each replaces another file (`Apart`). `NothingLeftBehind` needs that a
`config.yaml` comes to be only after `models.yaml` is gone.

A command shows its change when it renames the file, several steps after it read the settings
from which it made it, and other commands may have run in between. `Intents` says what a command
carries: the document it is about to write, read as settings, is what is on disk *now* with
the one change, or with none; and what an upgrade carries in memory is what the old files
held. It stays true under the steps of others because they replace another file, and an upgrade
is alone. Then a `Replace` is one change of `Settings` (`OneChange`), an edit by hand is one of
the user's (`HandEdits`), and all else stutters. The two mishaps in the hypothesis are those
in which the code does lose settings (section 5).

**Only model-checked:** liveness (`TemporaryDownEnds`, `EveryRequestAnswered`,
`CommandsEnd`), which is out of TLAPS's reach. Every other property of the passing runs is
a theorem, some of them under the conditions that the table names. Induction is not out of
reach where it is over numbers or lengths: the set of those for which a statement holds takes
the place of the predicate (`SetInduction`).

## 5. Where the code and its documents disagree

Three runs end in a violation of what a document or comment says:

- `Gateway_mark`: `server.py:11-13` says that a provider that fails is marked down.
  One whose connection breaks (`httpx.ReadError`, `RemoteProtocolError`) is not:
  `forward` and `open_stream` catch timeouts and connect errors only.
- `Daemon_slow`: `daemon.py:382-383` says that the pid file makes `status` and `stop`
  work. When `start` gives up after ten seconds and is repeated, the daemon that fails to
  bind unlinks the file of the one that serves.
- `Config_unreadable`: `cli.py:897-899` says that an unreadable file is not silently
  replaced. In a directory without a current `config.yaml`, `migrate_layout` takes an
  unparseable `providers.yaml` for an empty one and saves that.

Found while modelling, without a run of their own:

- *Gateway.* A stream is left open, although `handler_base.py:43` makes its caller close it,
  when the read of an error body breaks (`server.py:186`), when `send` raises another error
  than a timeout or a refused connection (`handler_base.py:117-123`), or when the client is
  gone before the generator of the pipe starts (201-202); the exceptions of
  `StreamsClosedUnlessBroken`. A 3xx is passed on as it is without streaming and piped under
  a 200 with it (`server.py:175-176`, 185). The catch-all answers 400 when the first healthy
  binding is an Anthropic provider although a later one is not (383-384, 403). A non-ASCII
  credential raises in `hmac.compare_digest`.
- *Daemon.* Any process is taken for the daemon when `ps` is missing, fails or takes longer
  than three seconds (111-114, 144-145), which `tests/test_daemon.py:489` asserts: `stop()` then
  signals a stranger under the pid of a stale file, although `daemon.py:297-299` says that an
  unrelated process can never be killed by mistake. So it does, against the same lines, when
  the pid is reused after it was identified, before the SIGTERM or in the six seconds before
  the SIGKILL (327, 336). (Mishaps `ps` and `recycle`: with either, `SignalsOnlyDaemons` fails.)
- *Two shells.* `is_running` reads the pid, looks the process up and unlinks the file by its
  name (184-189); when a daemon that another shell has started has written it in between, that
  one loses its file, and `stop` and `status` do not find it, although the docstring (180-182)
  says that it is the stale file that is cleared. `start` looks whether the port answers and
  spawns later (250, 274): two starts at the same time both find it silent and make two
  daemons, although the comment at 246-249 says that no duplicate is spawned. (With two
  `Commands` and no mishap `KeepsItsPidFile`, `NeverDoubled` and `AtMostOneDaemon` fail.)
- *More of the daemon.* A daemon that has lost its file and drains unlinks its successor's when it
  leaves (431), the exception of `KeepsItsPidFile`. A command line is taken for the daemon's
  if it contains `llmport` and `--daemon` (146), whatever program it is of. An exception of
  `create_app` leaves the pid file behind (417, 423). `restart`, also the one after a change
  of configuration, forgets `--port`; and the check of `validation.py:5` against providers
  that point to the gateway itself knows the configured port only (`state.py:48-58`).
  `config edit` and `setup` do not restart a running daemon, nor does a command that is
  killed between its save and the restart, or one that does not find the daemon's file: the
  old configuration then stays in force.
- *Routes.* An entry of an older version, which has its name under `id`, is known to the
  gateway and not to `provider remove`: it comes back into use, with its key, when the entry
  that shadows it is removed, although `cli.py:376` says that the key is removed with the
  provider. The health in an old entry, which `provider.py:74-75` says is ignored, is read
  (81), and "down" takes the provider out of use for good. `cli.py:975` warns that an entry
  without a name will be ignored; it is used under its `id` (`provider.py:86`). Of two
  entries with the same name the last is used and `start` says nothing of the other. A
  section that is empty (`providers:`) or an entry that is no mapping raises in the commands
  and in the daemon. An upstream that is a mapping is sent as it is.
- *Requests.* Tools that Anthropic's server runs become functions of the client's (412-418).
  Tool results and a user message after them become two user messages in a row,
  although the comment at `translator.py:125-127` says that roles must alternate. A
  `developer` message is taken for the user's. Images in tool results, system text,
  messages with calls and Anthropic assistant messages are dropped, and arguments that are no
  JSON become `{}`. A `max_completion_tokens` is passed through beside the default
  `max_tokens`. Tools that are no functions, and a `tool_choice` of a kind that the conversion
  does not know, are dropped without a word (384-394, 431-436, 447, 460) and, as known fields,
  not passed through either, although the comment at 52-54 says that what the gateway does not
  know is not silently dropped; a `tool_choice` may be sent without any tools.
- *Streams.* An error event in mid-stream is skipped, and the stream closed as a success, in
  both directions, although `server.py:10-12` says that the client sees the real error:
  `Error` followed by `End` in `ToOpenai`. Content after a `finish_reason` is sent after
  `message_stop`, with blocks that are never closed. Arguments of a `server_tool_use` block
  go to tool call 0, while the non-streaming translation leaves it out. A tool call without
  input streams `""`, and is `"{}"` otherwise. Calls without an index are merged. An SSE
  stream with CRLF line ends is not split (634).
- *Configuration.* A command killed between `store.py:239` and 253 loses the gateway, or
  the models, of the old layout (`"crash in upgrade"` in `Mishaps` makes
  `ImplementsSettings` fail), although `cli.py:764-766` says that an upgrade does not drop
  models. An unreadable `models.yaml` is dropped by the upgrade without a word.
  `load_gateway` and `load_api_key` raise on broken YAML against their docstrings.
  Commands that write the same file at the same time lose one of the changes. An entry that
  validation refuses blocks every later change of providers.

## 6. What is not modelled

- The terminal interface (`app.py`, `ui/`): `cli.py:86` keeps it out of use, and it calls
  `/api/` routes that `create_app` no longer has.
- Probes (`model test`, `list_models`, `test_connection`) and all that commands print:
  they change no state.
- The parsing of URLs and the lists of addresses in `config/validation.py`: pure functions
  over strings; their verdicts are constants of `Gateway` and `Config` and a field in
  `Routes`. `models/parser.py` is used by the terminal interface only.
- File modes (0600), and the legacy `secrets.yaml`, which initialisation deletes and nothing reads.
- Windows: another `_pid_alive`, `TerminateProcess` for SIGTERM.
- The shapes of tool definitions and of `tool_choice` (`translator.py:378-460`). Whether such a
  value has a form in the other protocol is in `Requests` (`odd`); which values have is not, nor
  that of a list of tools some may be dropped and the others sent.

## 7. Plan

Done, in this order: `Failover`, `Gateway`, its proofs and refinement; `Daemon`;
`ToAnthropic`, `ToOpenai`; `Settings`, `Config`; `Apply` and its proofs; `Requests`;
`Frames`; the theorems about one shell; `Routes`; the theorems about `ToOpenai`; those about
`Config` and its refinement; about `ToAnthropic`, `Frames`, `Routes` and `Requests`.

`Apply` was expected to fail for a daemon that reads its configuration before it writes its
pid file. The code writes the file first, and `UpToDate` holds.

What the proofs have changed in the models: `Requests` had content that was an empty list on
the way back, which the code never makes, and let a conversation be answered with the same
id twice; `Config` left open which directories an upgrade may find.

Next proofs:

1. `ToOpenai` with `server_tool_use` blocks: what holds of a stream in which each is the first
   block that takes input.
2. `Daemon` with two shells that do not start at the same time.
3. That the two stream translations, one after the other, give the message back.
