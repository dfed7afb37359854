# A TLA+ model of Plasmid

Plasmid (`src/`) is a Go framework that turns an ADK agent into a coding agent: a
*Harness* owns durable sessions, file and shell tools, MCP servers, language servers,
context and extension discovery, and a compaction of the model's context. This
directory holds TLA+ modules of the parts where concurrency, failures and restarts or
delicate arithmetic decide whether the program is right, TLC configurations that check
them on small instances, and proofs for every value of the constants of what matters most.

- [The system](#the-system): parts, state, interactions, hard behaviours
- [The modules](#the-modules)
- [The runs](#the-runs): what each one checks, its bounds and its fairness
- one section for each part, with the correspondence to the code and the exact properties
- [The proofs](#the-proofs)
- [Where code and documents differ](#where-code-and-documents-differ)
- [Not modelled](#not-modelled)
- [Working with the project](#working-with-the-project)

## The system

| part | code | state | operations | interacts with |
| --- | --- | --- | --- | --- |
| session store | `sessionstore/` | transcripts, create and delete markers, app and user journals, order sequence; locks, inventory, cache | Create, AppendEvent, Get, List, Delete, sidecars | called by Harness, ADK runner, compaction |
| Harness | `harness.go` | closed, active sessions, running operations, close state | NewSession, ResumeSession, Run, RunTemplate, AskTemplate, ListTemplates, GetTemplate, Ask, Close | owns every other part |
| context resolver | `contextresolver/` | session views, invocation scopes, operation count | StartSession, DropSession, SetRunPolicy, ReleaseRun, Instructions, Expand, Close | Harness, tool guard |
| extension store | `extensions/` | catalog snapshots of sessions, pending discoveries | StartSession, DropSession, Snapshot, ObserveTouch, Close | Harness, skills tools, MCP manager |
| file tools | `codingtools/`, `workspace/` | mutation queue, read ledger | read, write, edit | output budget, touch bus |
| shell executor | `shellexec/` | process group, pipes, captures | Run, RunMerged | bash tool, prompt commands |
| output limits | `outputlimit/` | budget of a session; samples of a stream | Reserve, Consume, Reset; Writer.Write; Policy.Apply | all tools, compaction |
| text matching | `codingtools/internal/textmatch/` | none | Apply, restore, unified diff | edit, write |
| MCP manager | `mcp/` | connections, locks, failure counts, teardowns | Tools, calls, DropSession, Close | Harness, model requests |
| language servers | `lsp/` | servers, clients, document versions, diagnostics, receipts | ObserveTouch, AfterTool, Close | touch bus, tool callbacks |
| one-shot runs | `oneshot/` | statistics, first failure, result | Run, Probe | Chat adapter, ADK runner |
| Chat adapter | `openai/` | none | conversion of conversations and responses | one-shot runs, compaction |
| compaction | `compaction/` | decisions of a session, in a sidecar | BeforeModel, AfterModel | store, budget |
| discovery, configuration, syntax, foreign agents | `config/`, `foreign/`, `internal/syntax/`, … | none after construction | parse, scan, validate | Harness construction |

What is hard here, and which property each point has, is the list of `hazards` in
`PROJECT.json`. In short: the store promises durability over several files that are
written one after the other and has a crash between every two; Close competes with every
operation and can be called by a tool inside a run; reads, writes and shell commands
share files while only some of them take the mutation slot; one lock is taken by a call
and given back by another goroutine (MCP); servers start, exit and are replaced while tool
calls hold tickets for their reports; a response of a model may reuse, omit or forge
call IDs; compaction has to find its old decisions again after a restart; the two
sampling buffers of a capture forget the middle of a stream and are cut again later.

## The modules

| module | extends | models | proofs |
| --- | --- | --- | --- |
| `SessionStore` | | the session store | `SessionStoreProofs` |
| `HarnessLifecycle` | | Harness with the resolver, the extension store and the scopes as far as it relies on them | `HarnessLifecycleProofs` |
| `FileMutation` | | read, write, edit, bash on files; queue; ledger | `FileMutationProofs` |
| `McpManager` | | MCP connections | `McpManagerProofs` |
| `LanguageServers` | | servers, documents, reports, receipts | `LanguageServersProofs` |
| `ChatCompletions` | `Positions` | conversion of conversations and responses | |
| `OneShot` | `ChatCompletions` | one-shot runs and probe | `OneShotProofs` |
| `Compaction` | `ChatCompletions` | the compaction policy | |
| `Allowance` | | abstract: what a session's budget promises | |
| `OutputBudget` | | `Budget`; instantiates `Allowance` | `ConversationProofs` |
| `Conversation` | `Compaction`, `OutputBudget` | the runs of a session: model, tools, budget, compaction manager, sidecar, restart | `ConversationProofs` |
| `Positions` | | positions of a sequence in order | |
| `OutputLimit` | `Positions` | cutting texts to limits | |
| `Capture` | `OutputLimit` | captures of streams; answers of tools | |
| `ShellCommand` | `Capture` | a command, its process group, pipes, timeout | |
| `TextMatch`, `UnifiedDiff` | `Positions` | edit's matching, restore, diff | |
| `ToolCalls` | `ShellCommand`; instantiates `UnifiedDiff` | one call of bash, read, edit or write from start to answer | `ToolCallsProofs` |

Every `MC…` module makes small instances of the module it names and, where needed, a
symmetry set and a view. A definition named `…_Bug` is the same definition with a plausible
mistake in it. No specification uses one; each stands for the mistake that the property
it is listed with (`mutants` in `PROJECT.json`) is there to catch.

The composition follows the program: `Conversation` runs compaction, sidecar and budget
together because they meet in the same callbacks; `OneShot` uses the adapter's
conversions in both directions; `ToolCalls` follows output from the pipe through the
captures to the bounded answer. `FileMutation` (the files of these tools),
`SessionStore` (below the sessions of the Harness) and `McpManager` are separate since they
touch each other only through calls whose outcome the other module leaves open.

## The runs

`tlc -workers 2 -config <cfg> <module>`; states are distinct states
(that of `files` varies a little with the order in which TLC meets the states its view identifies).

| run | cfg | states | properties |
| --- | --- | --- | --- |
| `store_concurrent` | `SessionStore_concurrent` | 1,621,658 | TypeOK, UserJournalBehind, ReadsAreCurrent, DeletedStaysDeleted |
| `store_recovery` | `SessionStore_recovery` | 490,144 | TranscriptSound, AckedDurable, RecordsAgree, TranscriptAscends |
| `store_live` | `SessionStore_live` | 134,375 | OperationsReturn |
| `harness_safety` | `HarnessLifecycle_safety` | 1,144,115 | TypeOK, InterruptsOnlyAfterTimeout, SessionsAreWhole, ScopesFollowRuns |
| `harness_live` | `HarnessLifecycle_live` | 36,674 | CloseStopsAll |
| `files` | `FileMutation_safety` | 482,600 | TypeOK, Serialized, ReadsAreWhole, NoLostUpdate |
| `mcp_safety` | `McpManager_safety` | 264,390 | TypeOK, NothingLeaks, OneTransport |
| `mcp_live` | `McpManager_live` | 31,768 | OperationsReturn |
| `lsp_safety` | `LanguageServers_safety` | 230,681 | TypeOK, NothingForgotten, OneServer, DecorationsFit |
| `oneshot` | `OneShot_safety` | 1,056,536 | TypeOK, ResultsAreExact, OutcomeIsHonest |
| `conversation` | `Conversation_safety` | 334,438 | TypeOK, RequestIsSound, ReachesTarget, DecisionsStick, KeepsPromises |
| `tools` | `ToolCalls_safety` | 653,012 | TypeOK, ResultIsFinal, CapturesAreWhole, AnswersAreSound, EditIsExact, DiffIsRight |

Deadlock is checked in the runs of the store, the Harness, the files and the one-shot runs:
no mix of the operations there may end with everybody waiting. It is switched off where
the system really stops: a closed MCP manager and closed language servers serve no more
(what must not happen there is in `OperationsReturn` and `NothingForgotten`), a session may be
left alone for ever (`conversation`), and `tools` follows a single call to its end.

No run bounds the depth of the search; every instance is finite through its constants.
The bounds, and the cases they are chosen to reach, are given in the sections below. Between
them the runs take every action and every disjunct of every next-state relation.

## SessionStore: the durable session store

`SessionStore.tla` models `src/sessionstore` for one application: any number of
goroutines (`Procs`) that call `Create`, `AppendEvent`, `Get`, `List` and `Delete`
on the sessions of several users, over the files below the storage directory.

| variable | code |
| --- | --- |
| `file`, `log` | a transcript `<id>.jsonl`: missing, cut short inside its header, or a set of logical records (`sessionLog`) |
| `cmark`, `dmark` | the incarnation in the `.create-pending` / `.delete-pending` marker |
| `seq` | `shared_sequence` |
| `appJ`, `userJ` | `app_state.jsonl`, `user_state.jsonl` |
| `inv` | `recordInventory` of `appLocks`: the reserved and committed records and the maximum order |
| `pending` | `appLocks.pending` |
| `cacheA`, `cacheU` | `projectionScope`: the remembered recovery baselines |
| `handles` | the `durableSession` values callers still hold |
| `createL`, `opL`, `projL` | the create mutex, the op mutex of a session, the project mutex |
| `pc`, `ctx` | where a call is, and its local variables |
| `acked`, `gone` | history: records acknowledged, incarnations deleted |

A delta is identified with the record that carries it. `projectJournal` keeps for every
key the value of the record with the highest order, so a projection is a function of
the set of records it was computed from, and that set is what the model keeps. Every
record has an app delta; the records of `UserEvents` have a `user:` delta as well.

A step is a stretch of code between two points at which another goroutine can
interfere. `Create` is `CallCreate`, `CreateBegins`, `readSharedProjection`, then either
`reserveRecord`, `persistCreateStart`, `commitCreate` (a new session) or
`validateReservedRecord`, `ResumeLoads` (a marker with the same initial state), then the
reconciliation and `finishCreateMarker`. `AppendEvent` is `CallAppend`, `AppendLoads`,
`reserveRecord`, `appendNewEvent` and the reconciliation; a known event ID skips to the
reconciliation (`replayCommittedEvent`). `Get`, `List` and `Delete` scan the transcripts
one by one (`scanApp`) before they take the project mutex (`repairShared`). The
reconciliation appends the missing records to the app journal, then to the user journal
(`RepairApp`, `RepairUser`), refreshes snapshots and cache (`RepairDone`) or falls
back (`authoritativeFallback`, `FallbackToJournals`, `FallbackToCache`). `Delete` goes on with
`WriteDeleteMarker`, `removeSessionLog`, `removeCreateMarker`, `finishDeleteMarker`.

`Faults` names the I/O errors a run allows: `log` (transcript writes and
removals), `cleanup` (the ignored removal of a half-written header), `marker`, `journal`
(journals and snapshots), `read`, `seq` (`writeFileAtomic` of the sequence, which may
fail before or after its rename), `seqlost` (the sequence file disappears). An error
that is returned before anything changed equals the call not being made and has no step.
`Crash` keeps the files, loses the memory, and may cut a header short that was being
written.

**What is checked.** `ReadsAreCurrent`: whatever an operation returns holds every delta
acknowledged before it began, and its own. `UserJournalBehind`: a user journal never holds
what the app journal lacks. `DeletedStaysDeleted`: no retry, marker or stale handle
brings a deleted incarnation back. `TranscriptSound`, `TranscriptAscends`: a transcript is one
incarnation in ascending order whatever was cut short and resumed. `AckedDurable`: an
acknowledged delta stays on disk when its session is deleted. `RecordsAgree`: no two
records share an order or an identity, the rebuilt sequence included. `OperationsReturn`:
every operation comes back.

**Bounds.** Two callers are enough for every pair of operations to overlap.
`store_concurrent` has two users with a session each, so that scans read other users'
transcripts and the user journals can get ahead; `MaxOrder` 3 allows two creations and an
append, and reaching it is the exhausted sequence. `store_recovery` works on one identity,
which creations and deletions reuse, with every fault of the marker protocol and a crash
at any point. `store_live` keeps to creation, append and list with unreadable files (the
fallbacks without a remembered projection) to stay checkable; the absence of deadlock for
`get` and `delete` is in `store_concurrent`. **Fairness**: strong fairness of every caller;
`sync.Mutex` hands a lock to a starving waiter, and file operations return.

**Limits the checks show.** Some promises do not survive some combinations of faults, and
the runs leave these combinations out: see "Deltas lost by a resumed Delete" and "A handle without its own user delta" below. After a crash
with unreadable journals, acknowledged deltas may be missed by reads until the files can be
read again. With a lost sequence file `DeletedStaysDeleted` does not apply (an incarnation
number is used again) and `List` beside a resumed Delete can still see records that
contradict each other.

## HarnessLifecycle: operations, sessions and Close

Callers are goroutines of the host. `CallOperation`, `CallSessionOperation` and `CallClose` begin
an operation; `beginOperation` and `beginSessionOperation` are the admission under the
Harness mutex; a run is any sequence of model turns, instruction and tool requests and
appends (`RunContinues`) between its start and its end. `finishClose` is the goroutine of the
same name with the order of `closeResources`: plugins, MCP, extensions, contexts, store.

| variable | code |
| --- | --- |
| `closed`, `rootDone`, `active`, `activeRuns`, `finish`, `closeErr` | the fields of `Harness`; where `finishClose` is; what its error joins |
| `store` | sessions that exist, the one a pending create marker completes, calls inside |
| `contexts` | `Resolver`: views, run policies, `ScopeStore`, DropSession in progress, calls inside |
| `extensions` | `extensions.Store`: snapshots, plain or with instruction records |
| `mcpClosed` | the MCP manager has been closed |
| `pc`, `proc` | callers |
| `used`, `known`, `ready`, `leftover` | history: IDs generated, IDs the host may know, sessions made ready, sessions whose undo failed |

**Checked.** `InterruptsOnlyAfterTimeout`: parts are taken down under a running operation only
if Close reports `ErrCloseTimeout`. `SessionsAreWhole`: NewSession and ResumeSession are all or
nothing, through failures of any part, a failed undo, and Close. `ScopesFollowRuns`: a
tool-policy scope lives exactly as long as a run of its session, and is narrowed if
and only if that run is of a template. `CloseStopsAll`: every Close returns, also one called
by a tool, and no operation hangs after it except inside a model or tool.

**Bounds.** Two callers and two sessions, sessions of an earlier process included in `Init`.
The safety run fails every part and cancels calls; the liveness run has one session, and
`stuck`: models and tools that ignore cancellation. IDs are handed out once each and a
session ID used up ends NewSession. **Fairness**: goroutines go on (`WF` of each step and of
`finishClose`); the context of an operation learns of its cancellation; a *cancelled* run ends
if its model does, and nothing makes an uncancelled one end.

**Left out**: construction (it ends with the same `closeResources` when it fails), plugin
callbacks, closing the language servers, event subscriptions. A plugin whose own Close
calls `Harness.Close` waits for itself (`harness.go:549`); `Expand` runs prompt commands as
no counted operation of the resolver (`contextresolver/expansion.go:30`).

## FileMutation: read, write, edit and bash on files

| variable | code |
| --- | --- |
| `disk`, `data`, `temps` | paths to inodes, contents of inodes, temporary files |
| `queue` | the one slot of `MutationQueue` |
| `ledger` | `Ledger`: the hash a session last saw of a path |
| `pc`, `proc` | tool calls |
| `seen`, `outside`, `leaked` | history: what a session saw last, calls whose file a shell command changed, temporary files that were left |

A content is two halves, so that a half-read and a half-written file exist in the model.
A read opens a file, reads it in two steps and verifies path and inode twice (`OpenRead`,
`readOpenedFile`, `readToEnd`, `CheckRead`, `RecordRead`). A mutation is `Acquire`, `Inspect`, a
read of the old text, `Verify` (ledger and current content), `CreateTemp`, `FillTemp`, `Rename`,
`RecordWrite`; any of its steps may fail and gives the slot back; the end of its context is
one of these failures. `Bash` changes a file in place or by replacement without slot and
ledger. An inode nobody holds may be used again, since `os.SameFile` cannot tell. `Crash`
keeps files and temporaries.

**Checked and proved**: `Serialized` (the slot belongs to the one call that mutates),
`ReadsAreWhole` (no text of two writes), `NoLostUpdate` (a rename replaces exactly what the
call verified, and that is what its session has read or written, unless another call of the
session reported meanwhile or a shell command hit the window). **Bounds**: two calls of two
sessions, one path, three inodes (two open or temporary files beside the current one), two
half contents; bash is an operation of an idle caller, at any moment of the other's call.

A read that promises the *current* text is deliberately not stated: with inode reuse a
verified read may return the text of the predecessor file; a later write is then refused
or overwrites only what it verified, which is what `NoLostUpdate` says.

## McpManager: connections of sessions and servers

| variable | code |
| --- | --- |
| `closed`, `connections`, `result` | `Manager`; `connections[s][v]` is the map entry |
| `locks[v]` | the mutex of a server name: the caller that holds it, or the connection whose teardown goroutine will unlock it |
| `failures`, `suppressed` | the failure threshold of a server name |
| `teardowns` | the wait group |
| `orphans` | connections that Close took over |
| `key`, `wire` | a connection's session and server; its transport: up, draining (`closing` set) or down |
| `pc`, `proc` | callers inside `Tools`, a call, `DropSession` or `Close` |

Actions follow the functions: `LockToConnect`, `Dial`, `ConnectFails`, `Publish`/`Install`;
`BeginCall`, `CallSucceeds`/`CallFails`, `DrainBroken`, `MarkBroken`, `FinishCall`; `BeginDrop` to
`DropReturns`; `BeginClose` to `CloseCollects` or `CloseTimesOut`; the goroutines are `TeardownCloses`,
`TeardownEnds`, `CloseOrphan`. `DropSession(s)` never overlaps `Tools(s)`: the Harness calls it in
the exclusive operation of ResumeSession.

**Checked.** `NothingLeaks`: a transport that is up is in the map or about to be closed by
somebody, and a Close without error leaves nothing behind. `OneTransport`: a session has at
most one transport per server, and none is closed under a call that has begun.
`OperationsReturn`: everything returns, except operations waiting for an uncancelled server
and those caught in `Wedged` (below). **Bounds**: three callers (two calls and a Close or Drop),
two sessions and servers in the safety run, one of each in the liveness run, two
connections alive at a time. **Fairness**: strong for acquiring a mutex, weak for steps, for
answers of cancelled calls, and for the closing goroutines; dialing, waiting and Close have
time limits, a call does not.

## LanguageServers: enforcement of diagnostics

| variable | code |
| --- | --- |
| `closed`, `starting`, `client`, `failures`, `disabled`, `closing` | `Manager` and `serverState` for each server and root |
| `key`, `wire`, `watched`, `docLock`, `version`, `diag` | a `Client`: transport, watch goroutine, `documentMu`, document versions, `diagnosticState` |
| `disk`, `received`, `mistold` | the file, what the server was told, and a history of notifications that failed although they were sent |
| `enforcing`, `receipts` | `Enforcer` |
| `touches`, `pc`, `proc` | write and edit calls |

A call touches the document (`BeginTouch`), starts or finds a server (`BeginStart`, `Launch`,
`Initialize`, `Complete`, `FinishStart`), synchronizes (`Prepare`, `NotifyDocument`, `NotifyFails`,
`Rollback`), keeps a receipt, and after the tool waits for a report of its version
(`Await`, `LookUp`, `Decorate`, `Unsettled`). Servers publish, garble their output and exit at any
time; `Watch`, `Reap` and `Lifecycle` are the goroutines.

**Checked.** `NothingForgotten`: a running process is the manager's, its starter's, or dies with
the closed manager, and a clean Close leaves none. `OneServer`: one process for a server and
root. `DecorationsFit`: a diagnostic in a result was reported for the text of that call
(versioned reports), or at least for the first version (unversioned); the exception, marked
`misled`, is a server that was sent two texts under one version. All three are proved, too. **Bounds**: two calls, one
document, one server key, two clients (the old and its replacement), two touches, a failure
limit of 2; publications are unbounded because the view forgets what no ticket can see.
Liveness is not checked: the instance with fairness is too large.

## ChatCompletions and OneShot: bounded runs

`ChatCompletions` has the conversion of a conversation (`convertContent` with its
`chatCallTracker`) and of a response (choices, finish reasons, call IDs that are synthesized
where they are missing or repeated, recovery of malformed arguments). IDs are triples, so that digests of
different inputs are different. `OneShot` has `Run` and `Probe` with the guards of
`boundaries.go` around a model and tools that may fail, panic and answer anything.

| variable | code |
| --- | --- |
| `request`, `pc`, `ctx`, `session` | which operation and model; where `Run` is; the context; the session |
| `contents`, `batch`, `tasks`, `last` | what the ADK runner holds: conversation, calls of the current response, their progress, the last event |
| `statistics`, `failure`, `responses` | `statistics` with completed calls, the first recorded failure, text counts |
| `result`, `found`, `probed` | what `Run` and `Probe` return |
| `malformed`, `executed`, `incidents` | history |

**Checked.** `ResultsAreExact`: `ToolResults` are the completed answers of guarded tools in the
order of the calls, each once, whatever IDs a model reuses, omits or forges; a malformed
call is answered without its tool, and only that. `OutcomeIsHonest`: the error is the first
thing that went wrong; success means that nothing did; the session is gone unless the error
says so. **Bounds**: two model calls, two calls a response (a third is over the limit), two
bytes of text (a third too), one ordinary and one long-running tool; the provider and the
caller's model have a list of responses each (`MCOneShot`) that includes every shape the guards
distinguish. The context ends at any step. There is no liveness property: an end is
reached unless model or tool hang, and deadlock is checked.

The runner of the ADK is external: it executes the calls of each response it sees, in
parallel, answers an unknown tool itself (a test relies on it:
`openai/chat_fixture_test.go:376`), and such answers are no tool results
(`oneshot/controls_test.go:418`). Not modelled: schemas and tool choice, think blocks, usage,
the Responses protocol and the transport.

## Compaction, OutputBudget and Conversation: a session's context

`Compaction` is `applyPolicy` with all it calls as operators: estimates, candidates, sticky
drops and elisions, turns that may be dropped with their call/response pairs. Decisions are
bags, as the code counts how often a turn or a body was dropped. `OutputBudget` is `Budget` for
one session. `Conversation` lets prompts, answers, calls, parallel tools and restarts happen in
any order a session allows: the Harness admits one run of a session at a time, so the
callbacks never overlap while the tools of one response do.

| variable | code |
| --- | --- |
| `contents` | the session's events as contents |
| `sidecar`, `loaded`, `durable`, `estimate` | the `compaction.v1` sidecar; `sessionState`; `Manager.pending` |
| `used`, `reserved`, `pending`, `nextID` | `Budget` |
| `request` | what the last model call was shown |
| `phase`, `calls`, `crashes` | the run, its tool calls, restarts so far |

**Checked.** `RequestIsSound`: a request is the conversation with whole turns left out and bodies
elided; the first content, recent contents, the active turn and preserved tools are
complete; a call and its response stay together; and the adapter accepts the request if it
accepts the whole conversation. `ReachesTarget`: from the trigger on, a request comes down
to the target or as far as the policy may go; below it nothing is decided.
`DecisionsStick`: what was left out or elided stays so, across restarts too. `KeepsPromises`: the
budget refines `Allowance`, which says that a promise never exceeds what is left, that a tool
spends at most its promise, and that only a renewal gives anything back.

**Bounds.** Seven contents hold two complete turns with tools and an active one; `Trigger` 20
and `Target` 12 make elision alone enough in some histories, dropping necessary in others and
neither in some; bodies of 1 and 4 units are below and above the minimum of 2. Calls come
with IDs, without, and mixed. The sidecar may fail to load once; one restart. A budget
of 6 bytes with a minimum grant of 2 makes two tools compete for the remainder. The factor of
calibration moves towards 60 percent. A failing save is in the module but not enabled in
the run, for its cost. Estimate errors, tool policies and ID reuse across turns by the
provider are left out.

## OutputLimit, Capture, ShellCommand, TextMatch, UnifiedDiff, ToolCalls

`ToolCalls` follows one call from its arguments to its answer.

*bash.* `ShellCommand` has the caller in `Run`/`RunMerged` (`pc`), the process group (`alive`, `born`,
`signals`, `exit`), the pipes (`open`, `written`, `copied`), the captures and the goroutine in
`Cmd.Wait` (`wait`, `late`). Processes write, fork with any subset of their pipes, and exit; the
context or the timer ends the wait; the group gets SIGTERM, then SIGKILL, and after the
backstop the caller goes on without it. `Capture` is `Writer` with its head, ring and
boundary, and the way bash cuts two captures again under its grant. `ResultIsFinal`: a
command that returns without error leaves no process that was not killed; one that does not
say "killed" was not signalled while it could write; and unless `Cmd.Wait` gave up, all that
was written is accounted for. `CapturesAreWhole`: what the captures show are edges of the bytes that
were copied, cut between characters and line ends, with a truthful report, within the limit.
`AnswersAreSound` has two parts, one for bash and one for read: `AnswersAreWhole` says the same of
bash's answer, in which the captures are cut again, markers included, until both fit the grant.

*read.* `selectReadWindow`, `renderReadWindow` and `Policy.Apply` under a grant. `ReadingIsSound`, the
other part:
only lines that were asked for, an answer that is not called truncated is complete to the
end of the file, and limits hold. *edit.* `TextMatch` has normalization, the three tiers and
restore. `EditIsExact`: the ranges replaced hold the old text as their tier compares it, all
else stays byte for byte (files with one kind of line end), and a refusal is justified.
*write and edit.* `DiffIsRight`: headers and lines of a diff turn the old text into the new,
and no edit script is shorter unless the work budget was exceeded (the reference is the
textbook recurrence of the longest common subsequence).

**Abstractions.** A byte is a record of its class and offset, so "which part is shown" can be
stated; a marker takes two bytes, a line number one. `WaitDelay` may fire any time after
the shell was reaped and the backstop any time after SIGKILL. Signals reach all members of
the group; a process that leaves the group with `setsid` is not in the model. A failing shell's
`ExitError` masks `ErrWaitDelay`, so incomplete output leaves no trace (`late`). A command that
ends between the timer and SIGTERM counts as timed out. After the backstop the captures are
read while the copying goroutines may still write; bash drops that result with the error.

**Bounds.** One descendant (it outlives the shell, holds pipes, or both); two outputs with
characters and line ends across the cuts; grants of 0, 3 and 6 bytes. Reads: every file of up
to five units out of LF, CR, CRLF and a two-byte character, with offsets and limits before,
at and beyond its end. Edits: every file of up to four characters out of a letter, a space
and LF, and files with byte order mark and CRLF, with every old text of up to three
characters. Diffs: every pair of texts of up to four lines, the last of them possibly
unterminated, with a work budget of 12 that some pairs exceed.

## The proofs

Checked by `tlapm`, for every value of the constants that the named assumptions allow.

| theorem | module | says |
| --- | --- | --- |
| `TypeCorrect` | `SessionStoreProofs` | `Spec => []TypeOK` |
| `RecordsNeverContradict` | `SessionStoreProofs` | `Spec => []RecordsAgree`, without the loss of the sequence file |
| `JournalsOrdered` | `SessionStoreProofs` | `Spec => []UserJournalBehind` |
| `TranscriptsAreSound`, `DeletionsAreFinal`, `TranscriptsAscend` | `SessionStoreProofs` | `TranscriptSound`, `DeletedStaysDeleted`, `TranscriptAscends`, without the loss of the sequence file |
| `AcknowledgedStays`, `AcknowledgedStaysAlive` | `SessionStoreProofs` | `AckedDurable`, on the hypotheses below |
| `ReadsStayCurrent`, `ReadsStayCurrentAlive` | `SessionStoreProofs` | `ReadsAreCurrent`, on the hypotheses below |
| `TypeCorrect`, `MutationsSerialized`, `TextsAreWhole`, `TemporariesCleared`, `UpdatesKept` | `FileMutationProofs` | the invariants and `NoLostUpdate` |
| `TypeCorrect`, `Interrupts`, `Whole`, `Scoped` | `HarnessLifecycleProofs` | `TypeOK`, `InterruptsOnlyAfterTimeout`, `SessionsAreWhole`, `ScopesFollowRuns` |
| `TypeCorrect`, `NeverLeaks`, `OneTransportEach` | `McpManagerProofs` | `TypeOK`, `NothingLeaks`, `OneTransport` |
| `TypeCorrect`, `NothingIsForgotten`, `OneServerEach`, `Decorations` | `LanguageServersProofs` | `TypeOK`, `NothingForgotten`, `OneServer`, `DecorationsFit` |
| `ToolCallsTypeOK`, `CommandResultIsFinal`, `CapturesStayWhole` | `ToolCallsProofs` | `TypeOK`, `ResultIsFinal`, `CapturesAreWhole` |
| `OneShotTypeOK`, `ToolResultsAreExact`, `OutcomesAreHonest` | `OneShotProofs` | `TypeOK`, `ResultsAreExact`, `OutcomeIsHonest` |
| `BudgetImplementsAllowance`, `BudgetWithinLimit` | `ConversationProofs` | `BudgetSpec => KeepsPromises`, and the bound |
| `SessionKeepsPromises` | `ConversationProofs` | `Spec => KeepsPromises` of the whole conversation |
| `ConversationTypeOK`, `CompactionReachesTarget` | `ConversationProofs` | `TypeOK`, `ReachesTarget` |
| `RequestIsFaithful` | `ConversationProofs` | `Faithful`, `Protected` and `PairsWhole`, which `RequestIsSound` is made of, but not that the adapter accepts the request |

**Session store.** `TypeInv` adds to `TypeOK` what a label says of the local variables of a call. The
identity of records needs more than `RecordsAgree`, which says nothing of what will be
handed out next. `IdentityInv` is the conjunction of
*LocksHeld* (labels and locks match, so a session's transcript has one writer), *Bounded* (the sequence
is at or above every order and incarnation that exists anywhere), *Agree* (records do not
contradict each other, those in the scans and in memory included), *LogComplete* (a
transcript holds every known record of its incarnation), *Resumable* (a create marker that may be
resumed has led to no record but its header), *NoFileNoLog*, and *FilesAt* for
each caller (what the files look like while a call is between two of its steps). There is
one lemma for each action; `Move`, `QuietMove`, `FileMove` and `LateMove` prove the part that
actions of one kind share. `RecordsNeverContradict` assumes `"seqlost" \notin Faults`: the sequence
is otherwise rebuilt from what can be read, which the run `store_recovery` covers.
`JournalsOrdered` needs `TypeInv` alone: only the two steps of the repair write a journal.

`SoundInv` carries the three theorems about transcripts, on top of `IdentityInv`. Of the files (*SoundFiles*, *GoneFrom*)
it says what `TranscriptSound` and `DeletedStaysDeleted` say, and that deleted incarnations and delete markers
are at most the sequence; of each call (*SoundAt*), that a record about to be committed is later than its
transcript, and what a Delete has already removed at each label. A create transaction that is
open has no deleted incarnation: that is what keeps a retried Create from writing one again.

Durability follows a record from one place to the next. *Covered* says that its app delta and its
user delta are each in a journal or in a given set of records. `DurableInv`: every acknowledged record is covered by its
own transcript and the journals; a Delete that scans has covered what it read (*DurableAt*), and from its
marker on the journals alone cover the transcript it removes. That last part is what a Delete resumed from its marker
breaks, because it projects nothing (see "Deltas lost by a resumed Delete" below), so
`AcknowledgedStays` is about the behaviors with `[]DeletesRunThrough`: no Delete fails or dies between its marker
and its end. It allows every fault but the loss of the sequence file, and crashes anywhere else.
`CurrentInv` adds what the operations see: a record that is due to a call (acknowledged before it began, or its own) is covered by
what it has scanned, the transcripts it has yet to scan (*Reach*) and the journals; an acknowledged record
that the journals do not hold is still in `pending`, and who reconciles `pending` holds the projection lock.
`ReadsStayCurrent` needs, besides, that reads succeed and the process lives: `pending` is
memory, and the cached projection that stands in for an unreadable one may be another user's.
`DeletesDoRunThrough` shows that the hypothesis holds of every behavior
of a process that lives and can write transcripts and markers, so `AcknowledgedStaysAlive` and
`ReadsStayCurrentAlive` have none; with them, the constants of `store_concurrent` are a case of what is proved.

**Files.** `FileInv` = *Types* ∧ `Serialized` ∧ *Linked* (paths, temporaries and open files are distinct inodes)
∧ *Reader* and *Writer* for every call (what a call knows of its file at each label) ∧ *Accounted* (a
temporary file that is not leaked belongs to a call that is writing it). `Serialized` is what makes *Writer* inductive: only the holder
of the slot replaces files, apart from bash, which `outside` records. `NoLostUpdate` follows from
*Writer* at "rename".

**Harness.** `HarnessInv` has one part for each thing that `SessionsAreWhole` and the others lean on
without saying it. *Balanced*: the wait group is the number of operations inside, with a resume
that was admitted counted twice, so "nobody inside" and a counter of zero are the same, and the
counter never falls below zero. *Ordered* and *OneCanceller*: what Close has taken down follows from
where it is. *Sound* says of every operation where it can be (*Stage*), which session it holds
(*Holds*, *Creates*) and what a start has built up by now (*Starts*, *Runs*). *Admitted*, *Alone* and
*Pending*: `active` and the operations agree, and nobody else has the session of a start.
*Accounted*, *Fresh* and *Readied* are `SessionsAreWhole` in the form that a step preserves: every
session of the store is known, or its start is under way, or a failed undo reported it. *Policies*
and *Scopes*: a policy view and a scope belong to a run of the right kind.

**MCP.** `McpInv` counts, too: the wait group is the calls that may still start a teardown plus the
locks that a teardown holds (*Balanced*), so a Close that sees zero sees nobody (*Collects*, *Clean*).
*Found* generalizes `NothingLeaks`: an open transport is in the map, or it is on the list of a
caller that drains, drops, closes or has just dialed, or a teardown goroutine or `orphans` has it.
*Single* generalizes `OneTransport` to transports that are not in the map. They are inductive because
of *Unrivalled*, *Hidden* and *Private* (a dialed transport is known to its caller alone, who
holds the lock of the server and found none), *Entries* (what the map refers to is open), *Lists*
(what is to be closed has left the map), *Locked* (a lock that belongs to a connection is that of a
teardown) and *Apart* (a session is not dropped while it asks for its tools).

**Language servers.** `NothingForgotten` and `OneServer` follow from *Kept* (a running process has
somebody who will stop it), *Slots* (a server has a client or a start or is disabled, never two of
these), *StartsAlone* (one call starts it), *Hands* (what a call holds at each label) and *Shut* (the
order in which Close goes). For `DecorationsFit`, *LocksHold* says what holds of a document
between Prepare and the end of Notify (the version announced is the next one, the one before is
what is restored), *Reports* that a report was made on a text the server has received, *ToldOnce*
that a version stands for one text unless the server is `mistold`, and *TicketsSound* that a ticket
stands for the text of its call. *Room* gives versions their type: a touch raises a version of a client
once, so version and calls still to come stay within the number of touches. That is counting,
by induction over the steps, with the cardinality of the calls that still have the server before them.

**Budget.** `BudgetInv` bounds `used + reserved`; each method maps to a step of `Allowance` or to
none. `ConversationProofs` shows that every step of a session is a step of the budget, a restart being
a renewal, and carries the refinement over.

**Compaction.** `ReachesTarget` says of two folds that they leave nothing undone, whatever the conversation. That
an elision reduces the estimate is a property of the whole request in the code and of one body in the proof:
sizes are sums (`ContentTokensAdd`, `TokensAdd`, where a sum does not depend on the order of adding up, `SumIsOfAll`), so
one body more or less changes the estimate by its own (`ElideSaves`) and the bodies elided earlier do not
make another one eligible. `ElidesAll` goes through the candidates from the oldest on: those it has come by are elided
or not worth it, as long as the target is not reached. `DropsAll` counts: a round drops at least one content, so
as many rounds as there are contents end with no turn that may be dropped, and a drop makes no
body a candidate that was none (`DropLeavesNoneWorth`). The folds are over finite sets, with an induction
over subsets (`EverySubset`) and the existence of the function that a fold computes (`FoldsExist`) proved
for all of them once. `ConversationInv` is the inductive invariant: contents and decisions have their types,
calls run in "tools" only, every running call has a reservation of its own or none (*Reservations*), so
settling one takes away no other's grant, and `reserved` is the sum of the grants (*Grants*).
`RequestIsFaithful` is about the same folds, which carry `Shows` from one decision to the next: what is shown has the
ends and the recent contents of the whole conversation (*Ends*, *Recent*), every content is like the one it was told as
(*Likeness*) and in order (*Ascending*), and where something is left out it begins and ends with a
turn (*Gaps*), comes before the last prompt and is of no preserved tool (*Omissions*). A turn of what is shown is then one of the
whole conversation (`TurnIsWhole`). *Pairs* is needed since a call without an ID is known by its
number among those of its name, and leaving out a turn renumbers the later ones: a turn that contains its pairs
has as many calls of each name as responses, numbered alike and without a gap (`NumbersWithin`, `TwinsWithin`), so the calls
and the responses after it move by the same number (`DropRenumbers`) and belong together as they did when they were told (`DropKeys`).
`PolicyAssumption` and `ConversationAssumption` type the constants; the one condition among them is that the
target is not above the trigger, which the configuration requires.

**Coding tools.** `ShellInv` has the control of a command and the contents of its captures. The control: *Unstarted*, *Waited*
(`Cmd.Wait` comes to its end in order, and nothing is copied after it), *Signalled* (who was sent what, at each label), *Finishing* and *Closed* (after
the last SIGKILL of `finishCommand` nobody of the group lives without one). The contents: *Copying*, which says
by `Sampled` what a writer holds after the first `n` bytes of a text, however they came: a head and a ring
described byte by byte, with the byte before the ring and the four bytes after the head. `Write` folds `WriteByte` over what one read of the pipe
returned, so `SamplesCopy` is an induction over the bytes of a copy. It is done in first-order logic: the fold has a trace (`WritesInTurn`), and
the set of the numbers of bytes for which the trace is right contains 0 and the next of each (`EveryNumber`,
from the least number of a set). `CaptureShows` then goes from two samples to the text: `limitSplit` divides the limit, each cut moves inwards to a
byte where the stream may be cut (`EndsOfStream`), though the sample ends there and
the next byte is known from `boundary` or `before` only, and the two ends are apart and in order.
The one assumption is `ShellCommandAssumption` (a limit that is not negative, as `NewWriter` requires; any outputs).

**One-shot runs.** A result can be told from the others because no two calls of a batch have the same ID. The
adapter and the guards both see to it, each by a loop over the calls; in the model these are
folds. As for `Write`, a fold has a trace (`NamesInTurn`, `AssignsInTurn`, `AddsInTurn`) and
`EveryNumber` carries what a step keeps to the end: `NormalizedIDsAreDistinct` for the adapter, and for
the guards `NormalizedPartsAreKept`, which also says that calls that have distinct IDs already, as those of the
adapter do, keep them (so a malformed call is found under the ID it was remembered with). A call without an ID
of its own finds one among the candidates because more names than are taken cannot all be
taken (`SomeFree`). That `ToolResults` come in the order of the calls rests on `SortedOnce`: there is one way to
sort a set of places, so collecting the completed answers and listing the calls that ended give
the same sequence (`AnswersCollected`).
`RunInv` is the inductive invariant. *BatchInv*: a batch has distinct IDs and a task for every call, and there is none
outside "tools". *RecoveryInv*: of the calls that have not come up, exactly the malformed ones are in
`toolFailures`, which is empty whenever the adapter may answer and always without the adapter. *ResultsInv*: the completed IDs are those of the
calls that ended. *FailureInv*: the recorded failure is the first incident, and the codes begin with it. *SessionInv*: the
session lives from its creation to the cleanup, which fails only with its code. *ValuesInv* has the types and limits.
`OneShotAssumption` is the one assumption: positive limits, and responses of the adapter's and the
ADK's types with any contents. A caller's model marks no call as malformed: the key of the mark is of an
internal package (`internal/toolcallrecovery`), so only the adapter can set it.

**Only model-checked**: all liveness (fairness is out of the prover's reach); the store with the loss of
the sequence file, and its durability when a Delete is resumed from its marker without journal faults (`store_recovery`
covers both); of `Conversation` the last part of `RequestIsSound`, which is about two conversions of
whole conversations, and `DecisionsStick`, which is about two applications of the policy; of `ToolCalls` `AnswersAreSound`, `EditIsExact` and `DiffIsRight`, which
are about the cutting, matching and diffing of texts. Each of these functions would need an induction of its own
over its data, written out like the ones above, since the library's induction theorems take an operator as a parameter.

## Where code and documents differ

Met while modelling; the checked properties state what the code does keep, and leave these
cases out by the constants or exceptions named.

- **Deltas lost by a resumed Delete.** `resumeDelete` (`sessionstore/store.go`) removes the marked
  transcript without projecting its records first, and AppendEvent does not look at the
  marker. A Delete that failed after its marker, an append whose journal write failed, and the
  retried Delete lose an acknowledged delta, which `TestDeleteProjectsSharedStateBeforeRemovingTranscriptAndSidecars`
  excludes for an undisturbed Delete. (`AckedDurable` runs without journal faults.)
- **A handle without its own user delta.** `mergeKnownSharedRecords` skips a record that is
  among the cached app records before it looks at the record's user delta; the app records may have
  been cached for another user. (`ReadsAreCurrent` runs without read faults.)
- **A torn header is no corrupt log.** A transcript cut short inside its header is truncated to
  nothing and then reported as `ErrCorruptLog`, against its comment (`sessionstore/errors.go:11`).
- **RunTemplate on a session of an earlier process** that was not resumed fails with "session
  view is unavailable"; `README.md:477` of the repository calls it the normal run path.
- **A shell command between Verify and the rename** is overwritten; `codingtools/descriptions.go:8` and
  `workspace/queue.go:5` speak of all mutations. (`NoLostUpdate` excepts it through `outside`.)
- **Two calls that break one MCP connection together** wedge its server name: the first starts a
  goroutine that keeps the lock until the connection has no active call, and the second is active and
  waits for that lock. From then on `Tools`, failing calls and DropSession of that name
  hang for all sessions and Close times out. So does a call that breaks a connection while DropSession
  tears it down. (`Wedged` in `OperationsReturn`.)
- **Unversioned reports of servers** can be stale and still settle a ticket of the first version, where
  the section "LSP enforcement" says that stale publications are ignored. A notification that is sent
  just when its time runs out counts as failed: the version is rolled back and used again for
  another text (`lsp/transport.go:123`). (`DecorationsFit`: `versioned`, `misled`.) Close may return before
  `finishStart` has closed a late transport.
- **Call IDs across responses.** IDs are unique only within one response. A provider that reuses them, or
  omits them with an equal response ID, makes every later request fail with
  `duplicate_tool_call_id`, against `README.md:84-86` of the repository.
- **Compaction.** Reused call IDs across turns make a sticky drop stop applying; responses without IDs and
  with equal bodies may be elided without pressure once their turn was dropped; a first load that fails
  lets the next save overwrite the sidecar with decisions made from nothing; a compaction that ends exhausted
  resets the output budget at every model call.
- **edit's restore.** A file of mixed line ends gets those of the majority; in a file without a final LF all
  trailing LFs of the result are trimmed, so deleting an unterminated last line also removes the end
  of the line before.

## Not modelled

| part | why |
| --- | --- |
| Construction, options, plugin registry, plugin callbacks | one goroutine before anything else runs; a failure ends in the `closeResources` that is modelled |
| Tool guard and policy patterns | checks without state before a call; the scopes they read are in `HarnessLifecycle` |
| find, grep, list, walk, path patterns | read the file system once, keep nothing; their difficulty is pattern syntax |
| Context and extension discovery, skills, prompt commands | one step that succeeds or fails in `HarnessLifecycle`; the rest is reading and text processing |
| Configuration, foreign agents, document syntax, TOML and YAML subsets | parsers, run once |
| Touch bus | synchronous fan-out; `LanguageServers` begins at a touch. Touches are published after the mutation slot is free, so those of two writes may swap (`write.go:100`) |
| HTTP transport, Responses protocol, schemas, usage | I/O and encoding |
| Windows, other platforms | other builds |
| Power loss (missing directory syncs, `store.go:388`) | the crash in the model keeps what was written |
| `ApplyLines`, `BoundJSON`, binary detection, policy validation, totals beyond an `int` | same cutting points, or plain validation |
| Warnings, fixtures, architecture tests | no decision of the program depends on them |

`PROJECT.json` lists every part under `components` with its source files.

## Working with the project

```
tlasany SessionStore.tla
tlc -workers 2 -config SessionStore_recovery.cfg MCSessionStore
tlapm OneShotProofs.tla
```

`PROJECT.json` maps every definition that models code to the lines it stands for; after a
change in `src/`, the definitions whose lines changed are the ones to compare. To see that a
property still has teeth, let the body of the listed definition be its `…_Bug` variant and run
its configuration: TLC must report a violation.
