# A TLA+ model of the Pi host of the Agent IDE

The repository is a native Electron workbench, taken over from an upstream IDE
(`UPSTREAM.md`), whose agent is Pi: a coding agent that runs as a child process and
speaks JSON records over its standard streams. What the repository adds to the upstream is
the *Pi host* in `packages/services/src/pi-agent/`: about 9,300 lines of TypeScript that start
Pi, own its session files, admit the renderer's commands, and keep their promises when Pi,
the pipes, the disk or the Host itself fails. `CONTEXT.md`, `docs/adr/0001-native-zcode-base.md`,
`docs/adr/0002-pi-capability-scope.md` and `docs/delivery/` say what it should do;
`packages/services/test/pi-*.test.ts` test it. This directory models it, checks the models
with TLC and proves the main results with TLAPS.

Paths below are relative to `src/packages/services/src/pi-agent/`.

## 1. Inventory

How the parts call one another, from the renderer down:

    renderer
       | sendConversationCommandV4, queryConversationCommandsV4, subscriptions
    native v4 service --- command ledger, session catalog, queue media, image uploads, settings
       | createSession, resumeSession, sendText, runBash, compact, stop, closeSession, dispose
    session supervisor --- session lease (files shared by all Hosts)
       | request, notify, dispose; events: record, malformed, exit
    rpc client --- jsonl decoder
       | stdin, stdout, process tree
    Pi (external), with the control bridge, an extension loaded into Pi

| Component | State | Operations | What makes it hard | What makes it correct |
|---|---|---|---|---|
| session lease, `pi-session-lease.ts` | lock file, runtime-uncertain marker, recovery claims on disk; `releasing`, `marking` in memory | acquire, markRuntimeUncertain, release | several processes, every step a file operation; crashes between any two; a dead owner whose Pi lives on | one holder, one Pi tree per session file, no lock stolen, nothing left by a release |
| rpc client, `pi-rpc-client.ts` | state, pending requests, stdin queue and its byte count, child and tree, cleanup flight | start, request, notify, dispose, callbacks of Node | deadlines race write callbacks, `drain`, exit, close; a tool keeps the pipes of a dead Pi | "not sent" is true; order; no stranded queue; dispose means that the tree is gone |
| jsonl decoder, `rpc-jsonl.ts` | the bytes of an unfinished line | push, end | cuts within a character; the size limit | same lines however the bytes are cut |
| supervisor: run state, `pi-session-supervisor.ts` | phase, foreground, uncertain delivery, Stop's progress, dialogs | sendText, runBash, compact, resumeQueue, stop, respondExtension, records of Pi | each call awaits Pi several times while the others and the records change the same fields | a failed call leaves the session usable; Stop excludes admissions; a dialog is answered once; nothing sent in doubt |
| supervisor: lifecycle, same file | sessions, pendingStarts, closeFlights, exitCleanups, disposal | createSession, resumeSession, the exit of Pi, closeSession, dispose, branchSession | starts, exits, closes, disposal overlap and fail one by one | no lease dropped or given back over a living tree; nothing comes up after disposal; no waiting circle |
| command ledger and admission, `pi-command-ledger.ts`, `pi-native-v4-service.ts` | receipts on disk; `commandResults`, `sessionAdmissions` | sendConversationCommandV4, dispatchSerialized, queryConversationCommandsV4 | resends, two Hosts, crashes, storage errors | at most one execution; truthful answers; order in a session |
| control bridge, `pi-control-*.ts` | in the Host: operation, pending request, snapshot, uncertain flag; in Pi: lock, binding, generation | refresh, act, router; edit, navigate, reload in Pi | deadlines pass while a control is at work; a reload evaluates the extension anew under its own handler | no prompt over a control at work; what is reported as done was done |
| native v4 service, `pi-native-v4-service.ts` | session records, subscriptions, closures, tree operations | dispatch by command type, loads, releases, reconciliation, deletion, disposal | loads overlap releases and deletion | one record per session, no use after release |
| queue compatibility and media, `pi-queue-*.ts` | copies of queued images, names in record and bookmark | materialize, persist, prune | prune beside a queue that changes, a reload, a crash | no named copy is deleted |
| rows and history, `pi-message-row*.ts`, `pi-session-history.ts`, ... | projection, row ids, snapshot | records, diff of rows, reads of the history | an answer of Pi is taken up after later records | deltas rebuild the rows; at rest they are Pi's history |
| image uploads, `pi-image-upload.ts`, ... | staged uploads | begin, append, commit, abort, release | a commit beside an abort | no file without an owner |
| transfer, share, catalog, `pi-session-*.ts` | bookmark files | import, export, delete | partial failure | no bookmark of a lost file |
| settings, `pi-settings-documents.ts` | a document and its lock directory | load, save | two Hosts, Pi and outsiders write the file | no lost update |
| auth manager, `pi-auth-manager.ts`, with the auth parts of the service | the operation and its prompts; fence and admissions of the session; catalog of providers | start, refresh, answer, cancel, the timer, dispose; synchronize; readPiAuth, startPiAuth | cancel and deadline while a stored change is followed up; shared and remembered reads | truthful outcome; a synchronization is alone; a start sees the newest catalog |
| extension UI state, snapshot, frames, llama router, small helpers | little or none | conversions, HTTP | - | formats |
| workbench of the upstream | - | UI, desktop shell, providers | - | not this product's core |

`PROJECT.json` lists all of them with what is modelled, and every hazard with its line.

## 2. What is modelled

| Module | Models | Composes with |
|---|---|---|
| `OwnedSession` | the abstract promise of a lease | implemented by `PiSessionLease` (whole steps) and, file by file, by `PiSupervisorLifecycle` |
| `PiSessionLease` | `pi-session-lease.ts` | |
| `PiRpcClient` | `pi-rpc-client.ts` | |
| `RpcJsonl` | `rpc-jsonl.ts` | takes the output that the client hands on |
| `PiSessionRun` | the run state of a live session in the supervisor | |
| `PiSupervisorLifecycle` | starts, exits, closes, disposal in the supervisor | uses the promises of lease and client |
| `PiCommandAdmission` | admission of commands, with the ledger | dispatch abstract |
| `PiControlBridge` | `pi-control-bridge.ts` and `pi-control-bridge-extension.ts`, both ends | |
| `PiMessageRows` | `pi-message-rows.ts`, `pi-message-row-diff.ts`, the client's `apply.ts`: operators | extended by `PiFeed` |
| `PiFeed` | records, reads of the history and what is shown, in the native service | |
| `PiImageUploads` | `pi-image-upload.ts` | extended by `PiWorkspace`, which releases it |
| `PiWorkspace` | loads, creations, branches, imports, deletes and release, in the native service | uses the promise of the supervisor |
| `PiQueueMedia` | `pi-queue-media-store.ts` and its use in the native service | |
| `PiSettings` | `pi-settings-documents.ts` | |
| `PiAuth` | `pi-auth-manager.ts` and `synchronizePiAuthSessions` | |
| `PiAuthCatalog` | `readPiAuth`, `startPiAuth` in the native service | before a `start` of `PiAuth` |
| `...Proofs` | theorems about the module they extend | |
| `MC...` | values of the constants for TLC | |

**Conventions.** JavaScript runs from one `await` to the next without interruption, so an
action is the code between two awaits, and a variable (`pc`, `at`, `stage`, `place`) says where each call awaits. Awaits
with nothing read or written between are one await. An awaited operation may come back well or
fail whenever the code allows it. An operator whose comment begins with "Bug:" is no part of a
specification: it is what a plausible mistake would make of the operator after it, and each
property is known to be violated when one of these takes the operator's place. A variable whose
comment begins with "ghost" is history that no action reads: a property needs it to name an exception
or a moment.

### PiSessionLease

A lease is one call of `acquire`, its random token the lease itself. `lock`, `marker` and
`claims` are the three kinds of files; `claims[x][p]` is the claim on the lock of the dead
owner `x` after the dead claimant `p`, a name that no other generation has. `alive` are the
processes. `Begin`, then one action per file operation of `acquire` up to `Recreate`;
`Mark...` for `markRuntimeUncertain`; `SpawnTree`, `TreeEnds` for Pi's tree; the release in the
order of the code (marker, then lock, each after a read). `Throw` is every error a file
operation, an unreadable file or a recycled process id can make. `Crash` ends a process at
any step. `RecoverManually` is the documented removal of a marker by hand, when no tree runs.
`LockFileLost`, in `OutsiderSpec` and in the run `lease_stale`, lets somebody delete lock files: the
markers alone must then keep writers apart.

### PiRpcClient and RpcJsonl

One client. `outcome[o]` is the promise of a call, `writes`, `activeWrite`, `waitingDrain` and
`queuedBytes` the fields of the code, `wire` what stdin was handed. The events of Node (spawn,
flush, drain, data, malformed data, exit, close, error, timers) are actions in any order. `tree` has the root
process and one tool, so that a dead root with living pipes is a state. `cleanupOwnedTree` is
one flight that ends with the tree seen empty or with an error.

The decoder is a record of its fields, `Receive` a chunk of any length. Bytes are a line
feed, a carriage return, a character of one byte, and the halves of one of two, so that a cut
falls within a character. `RecordBefore` is what lies between the last line feed and a position: `Push` looks for it in a
chunk, while `Lines` and `Problems` define the answer from the whole output, with no chunks in them.

### PiSessionRun

`SessionRuntime`: `phase` and `fg` (foregroundExecutionId), the doubt flags, Stop's state and
the dialogs. The calls are elements of `Calls` with a kind. Every catch and finally block is a disjunct of
its own. Pi is external: it may answer, refuse or not answer each request, and sends records
whenever it likes. Whether a run that settles has failed depends on texts and is a choice here.

### PiSupervisorLifecycle

A runtime is a call of `createSession` or `resumeSession` on a file. `pc` says where the start
awaits, `flight` where its close does, `cleanup` where the cleanup after an exit does, and
`disposing` where `dispose` does. The lease is taken as the abstract one, `lease[f]`. The client's
`dispose` ends with the tree gone or with an error, which is what `PiRpcClient` shows
(`DisposedTreeEmpty`, a part of `EndIsFinal`, and `DisposeSettles`, a part of `EndReported`).

### PiCommandAdmission

A call is one request of the renderer about a command, to a Host. `receipt` is the file of a
command, "torn" between its creation and the end of its write. `results` are `commandResults`:
the call that the others of the command on that Host await. `lanes` are `sessionAdmissions`, a
chain of promises, as a queue. Hosts share the receipts and die at any moment. `dispatch` is
abstract: it can have effects, which are counted, and answers or throws.

### PiControlBridge

Both ends. In the Host, `op` is the operation that `busy` stands for and `at` its await; `ask` is
the key of `pending`; `binding`, `current`, `uncertain` are the fields. In Pi, `cmds` are the slash
commands in the input and at work, `lock` is `state.busy`, which outlives a reload, `bound` the
generation, `registered` whether Pi lists the bridge's command at all. A command is begun in the
order of the input, changes the session (`Perform`, perhaps before it fails), and is answered by a
record that arrives at any later time. `Unanswered` is the deadline of a request; what it has asked
for goes on in Pi. `Shutdown` and `Rebind` are the two halves of a reload around its handler.
Assumed of Pi: it begins commands in the order of its input.

### PiMessageRows and PiFeed

A message is its number, role and size. `PiMessageRows` has the projection (`Started`, `Streamed`,
`Finished`, `Reconciled`), the rows, `Diff` and, from the protocol's client, `Applied`. In `PiFeed` a
record is one action from Pi's step to `emitConversation`; `jobs` is the chain of
`reconciliations`, the head of which reads, compares its version and generation, saves and emits.
`Answer` and what continues after it are two actions, since records that came with the answer are applied
first. `ShellEnds`/`ShellShows` are the reads after a shell command. Ghosts: `settledAt`, `unread`,
`givenUp`, `overtaken`, `unordered`. Assumed of Pi: it answers reads of the history in their order, a shell
command that it refuses changes no history, and a retry drops the newest message, so never two in a row.

### PiImageUploads and PiWorkspace

An `Entry` is what one `begin` puts in the map: the identity a commit compares after each await. `file`
distinguishes a file that is partly written from a whole one.

`PiWorkspace` takes calls of five kinds (`load`, `create`, `branch`, `import`, `delete`) through the
awaits of their functions. `scan` and `loader` are `workspaceLoads` and `sessionLoads`; `closure`
is the place of `disposeWorkspace`, with `ending` and `drained` for what it has called and what it
waits for. The child of a branch is a session that no other call is about (`WorkspaceAssumption`), because Pi
gives it a new id. The supervisor is its promise: a start gives a live runtime or none, a close ends it or leaves it
"stuck" for another try. Continuations of a promise that has settled come before anything
else (`Quiet`), as microtasks do. Ghosts: `born` and `starter` name the generation a runtime belongs
to, `orphans` the exception below.

### PiQueueMedia

The copies on the disk, and the three places that name them: the record (`named`, `interrupted`), the
bookmark in memory and on the disk, the JSONL history. `chain` with `job` is `queueRefreshes`, one
action per await of `refreshQueueFacts` and `pruneQueueMedia`; `writes` is `catalogWrites`.
`MediaCrash` keeps the disk and forgets the rest. Ghosts: `late`, `stale`.

### PiSettings

One document. Savers, Pi and Hosts that die share the lock directory; outsiders write without it. A
revision is the content itself, as the code's is its hash. A rename that Windows denies is retried
after another look (`attempt`). Ghost: `raced`.

### PiAuth and PiAuthCatalog

A call of `Calls` is one `start` or `refresh`; `pc` goes from its claim through Pi, the refresh of
the directory and the synchronization. `fence`, `admissions` and `awaited` are `treeOperations`, the
chain of `sessionAdmissions` and the admission a synchronization waits for; `Inputs` are calls of
`sendText`, and a control (export, share, fork) takes the fence as `ControlBegins` does. Pi does what it
is asked, throws, or throws after it stored the credential. Ghost: `stored`.

In `PiAuthCatalog`, `known`, `unavailable` and `shared` are the maps `authRuntimeCatalogs`,
`authRuntimeUnavailable` and `authRuntimeReads`; `Invalidate` raises the epoch. A read is a record of the pid and
the epoch it was begun with, and of the starts called before it. Ghosts: `called`, `stale`.

## 3. What the runs check

No system here is meant to run for ever: calls are finitely many and a Host or client ends, so
every configuration allows a behaviour to stop (`CHECK_DEADLOCK FALSE`). What must not get
stuck is stated as a liveness property.

| Run | Bounds | Question |
|---|---|---|
| `lease` | 3 leases, each in its own Host | one holder, one tree (`HolderAlone`), no stolen lock, a clean release, and each step a step of `OwnedSession` |
| `lease_stale` | 4 leases: a dead owner, a dead claimant, 2 contenders; lock files may be deleted | one writer all the same; the contenders never all refuse one another (the test "multiple processes racing over stale owner"); acquire and release end |
| `rpc` | 3 requests, 1 notification; 2 pending, 3 records, 4 bytes; outputs of up to 6 bytes | "not sent" is true, the queue keeps its order and count and is not stranded, an end is final and is reported; lines do not depend on the cuts |
| `run_mix` | a slash input, a compaction and a queue resume with one dialog, or a slash input and a shell command with two | no foreground is lost, no dialog answered twice or left after Stop, nothing sent in doubt |
| `run_stop_claim` | an input, a compaction | *violated*: first finding below |
| `lifecycle` | 3 runtimes on 2 files: a creation, two resumes; 2 saves of a settings document, 2 attempts | leases, sessions, disposal; starts and disposal end; no save replaces what its editor has not read |
| `admission` | 2 Hosts, 5 calls, 2 commands of one session | at most once, truthful, one at a time, callers are answered |
| `bridge` | one edit, one navigation, one reload, 7 requests | no prompt over a control at work, truthful reports, operations end |
| `feed` | 3 messages, size 1, 7 records, 1 command; a login, a catalog operation, a refresh, 2 inputs, 2 prompts; 1 view, 2 starts, 3 epochs, 2 processes | deltas rebuild the rows, newer messages survive old answers, the rest is Pi's history; credential operations end, tell the truth and are alone; a start inspects a fresh catalog |
| `feed_stranded` | as `feed` | *violated*: second finding |
| `workspace` | one load, branch, creation, import and delete, an upload begun twice, 1 release; 1 copy, 2 records, 2 queue changes, 1 write | nothing of before a release is left after it, releases end, no image file without owner, no named copy removed |
| `workspace_late` | a load, an import, 1 release | *violated*: third finding |

**Sums.** Four runs hold several components that share no state (the client and the decoder, the
lifecycle and the settings, the feed, the auth manager and the catalog, the workspace and the queue media). One
of them moves while the others have not begun, so that the states add up and nothing is lost: an
interleaving of components that share nothing shows no property of one of them anything new.

**Why the bounds are enough for the interesting cases.** Three leases are an owner, its
recoverer, and a third that overtakes between two steps of the recoverer: the smallest number
with which a stale read of the lock can do harm. The generations of claims need a dead owner and a
dead claimant, which `lease_stale` starts from, a state that the specification reaches. The limits
of the client are small enough for each to be hit: one request too many, one record too many,
one record that fits only after another has left. Six bytes hold a record at the limit of three, its line feed,
and a neighbour. The three runtimes of the lifecycle share a
file in pairs and leave one alone, so that a resume waits for an exit cleanup while another
file closes. In `admission` the same command is sent twice to one Host, once to another, and queried
there, beside a second command in its lane. Mixes (`Mix` in an MC module) keep some calls from meeting
others; what they leave out are calls of the renderer, which nothing obliges it to make. In `bridge`
an action needs three requests, so seven let a late reply of the first meet the third. Three messages
are the one that streams, one before it and one that a retry drops; seven records let a read be
overtaken twice. `workspace` has a call of each kind, each at any of its awaits when the release comes. Two records of
a session are one and its replacement. The settings were also checked with three contents, one that
Pi cannot read, and three attempts, and the queue media with two copies and two waiting writes: too long
for a run beside the others, and nothing new. The proofs (section 4) hold without bounds.

**Fairness.** A process that is not killed runs its continuations, and a file operation ends, well
or not: weak fairness on each call's steps in `PiSessionLease` and `PiCommandAdmission`. In the
client, timers fire, Node delivers `exit` and `close` of a child that has ended with its
pipes, and a cleanup has a deadline; that Pi answers, reads its stdin or exits is *not* assumed. In the
lifecycle, every await is a request with a deadline, a file operation or the client's
`dispose`; `EndReported` of `rpc` is the justification of the last. In the admission
`dispatch` comes back because what it awaits has deadlines. In the bridge and in the feed requests have
deadlines, so weak fairness on the operation's steps and on the reads. In the workspace something goes
on as long as anything is under way (`Progress`): deadlines, file operations, and closes, which end by
`CallsEnd` of `lifecycle`. In the auth manager each call has its own weak fairness: the timer fires after
15 minutes, an aborted Pi answers, reads of the directory and the steps of a synchronization have deadlines. Nothing
assumes that anybody calls, that a user answers, that a Host does not crash, or that an operation
succeeds.

### Findings

1. `run_stop_claim`. The comment in `stop` (pi-session-supervisor.ts:946) says that
   no admission can enter while Stop is pending. A `get_state` answer that `sendText` awaits when
   Stop claims the session is applied without a look at `stopping`: for an input that an
   extension handled, the phase becomes settled and the foreground is cleared (904-906), and a compaction, a shell command
   or an input that is called next is admitted while Stop awaits Pi.
2. `feed_stranded`. The comment at pi-native-v4-service.ts:1262 says that records after a settled run "must
   trigger another authoritative read, not strand old rows". When the user has started a shell command or a compaction
   meanwhile, the read is given up (1265), and a command that fails, or a compaction, ends without another.
3. `workspace_late`. The comment at pi-native-v4-service.ts:2756 says that nothing publishes a
   late runtime after a release has returned. An import that awaits its source (418-427) is in none of
   the maps that the release drains, and loads its session afterwards (433).

### Observed while modelling, and allowed by the models as the code has it

Run state:
- A queue resume that Pi refuses clears the foreground of whoever has it.
- `acceptRunEvents` can stay true after Stop, and a later `agent_start` makes the session
  running without a foreground, which Stop then cannot claim.
- The phase can become stopped while a compaction is still outstanding.
- A Stop that failed cannot be repeated with success: queue commands are refused while
  `reconciliationRequired` is set.
- `reconciliationRequired`, set while a slash input reads the catalog, does not stop that input; only
  `uncertainDelivery` is looked at again.

Lease, lifecycle, admission:
- An `acquire` that throws after it created its lock leaves the lock until its Host exits; and one
  can be refused although the owner released between the EEXIST and the read.
- A start whose own `client.dispose` rejects keeps its lease and nobody retries; `dispose` of the
  supervisor resolves all the same (`DisposedProperly` makes this exception explicitly).
- A rejected exit cleanup stays in `exitCleanups`: the file cannot be resumed and `dispose`
  fails, and its rejected promise is kept.
- An admission refused for storage, or a dispatch that threw, stays in `commandResults` for the life
  of the Host: sending the command again gets the same answer, and every later release of the
  workspace reports a failure.

Bridge and feed:
- The bridge looks at the phase of the session before it discovers its command and does not look again
  before it sends it (pi-control-bridge.ts:90).
- The rows change before the session is saved and are emitted after it: deltas of records that come
  between are shown first (pi-native-v4-service.ts:1284). `FeedFaithful` excepts what follows (`overtaken`).
- Ids of rows do not always ascend in the window, as snapshot.ts:455 has them. The read of a shell command
  that is taken up late loses messages that are newer; a later read with as many messages gives a lost one back
  with an id that is higher than the next row's; and if another read then drops that row, the client,
  told to remove from its id on, keeps the row behind it, or takes away one that should stay (apply.ts). It
  takes three shell commands, seven messages and a retry; no state of the run is one of these, nor any with four messages
  and two commands. The proof found it: `FeedFaithful` excepts such a removal (`unordered`, from `CutClean`).
- An admission that starts no run (a handled input) makes a settled read that is under way be dropped.
- The flag of a failed read is cleared by any save of the session that succeeds.

Workspace and files:
- The child of a branch whose first read fails runs on without a record, so that no release finds it
  (`orphans`); nor does a release retry a runtime that is stuck without a record.
- A reconciliation of a record that a delete removed is not awaited by the release.
- A failed `mkdtemp` is remembered: later commits fail. The partial file of a failed write stays until
  its directory goes.
- A command that saves a record which was replaced meanwhile can name copies that are gone (`stale`); a
  mention in the history between the last look and the unlink comes too late (`late`).
- `cleanupTemporaryMedia` waits for `queueRefreshes` and `reconciliations` (765-766), not for an
  attachment preview or the copies that `sendQueuedNow` makes; a release of a workspace does not await `queueRefreshes`.
- A save of the settings whose last read or `rmdir` fails is rejected though the document was replaced, and the lock directory
  of a dead Host stays until somebody removes it. What an outsider writes between the last look and
  the rename is lost, as `docs/delivery/coverage.md` admits (`raced`).

Auth:
- A start that awaits its runtime when `dispose` comes begins an operation that nobody aborts before its deadline.
- Only `sendText` looks at the fence: commands on the queue and the first prompt of a created session do not;
  a shell command looks but takes no claim; export, share and fork take the fence without asking for
  admissions.
- Two starts at once invalidate one another's catalog, and the earlier is refused as unavailable.

## 4. What is proved

All theorems hold for every value of the constants that the named assumptions allow
(`LeaseAssumption`, `ClientAssumption`, `RunAssumption`, `LifecycleAssumption`,
`AdmissionAssumption`, `BridgeAssumption`, `WorkspaceAssumption`, `UploadsAssumption`, `MediaAssumption`,
`SettingsAssumption`, `FeedAssumption`, `AuthAssumption`, `CatalogAssumption`, `JsonlAssumption`, `StaleAssumption`): constants have
their types, a value such as `None` or `Nobody` is none of those it is used beside, the child of a
branch is a session of no other call, and a race has a contender. TLC
evaluates the assumptions on every run. Each proof has the same argument: an inductive
invariant, its preservation action by action, and a last step that combines these. The type
invariants are the first theorem of each module, or a part of the invariant, and need no run.

| Module | Theorems about |
|---|---|
| `PiSessionLeaseProofs`, `PiSessionRunProofs`, `PiCommandAdmissionProofs`, `PiControlBridgeProofs` | the module of that name |
| `PiRpcClientProofs` | `PiRpcClient`, `RpcJsonl` |
| `PiSupervisorLifecycleProofs` | `PiSupervisorLifecycle`, `PiSettings` |
| `PiWorkspaceProofs` | `PiWorkspace`, `PiImageUploads`, `PiQueueMedia` |
| `PiFeedAndAuthProofs` | `PiFeed` with its rows, `PiAuth`, `PiAuthCatalog` |

The joined ones are of components that a run also holds together; no proof uses another component's.

**Lease.** `TypeCorrect` and `OneWriter` are proved of `OutsiderSpec`, `RaceIsWon` of `StaleSpec`, the rest of `Spec`.
`MarkerInv` says that a running tree is covered by the marker of its own lease, that a live
owner of a tree still holds, and that a lease that has not been acquired has not marked;
`OneWriter` follows because one marker names one lease. The lock is harder: that a recoverer
unlinks only the dead owner's lock (`UnlinkVerified`) needs that one recoverer of an owner is
alive. `ChainInv` says why: the claims of a dead owner form a chain whose closed links
name dead processes and which has one open end; whoever is past its claim stands at that end
(`OneRecoverer`). `LockInv` is inductive beside it; `HolderIsAlone` joins both. `LeaseOwnsSession` maps the live holder to
`owner` and the running trees to `writers`, and shows every step to be a step of
`OwnedSession` or a stutter. `RaceIsWon` starts where `lease_stale` does, with any number of contenders, on Hosts of their own or
not (`StaleAssumption`: there is one). `RaceInv`: as long as nobody has acquired the lease there is no marker, and either a
contender has its lock in place, or there is no lock and one will publish its own, or the dead owner's lock is there
and every claim of a contender on it is that of one on its way to unlink it (`StillStale`): a claim of that kind alone makes another refuse.

**Client.** `QueueInv`: queued records are distinct, open and not started, the active one is started.
With it a timeout that removes a record may say "not sent" (`NotSentHonest`). `LifeInv` relates the state of
the client, the child, the tree and the start; `ClientEnds` (a disposed client has an empty tree, and
nothing moves after an end) and `QueueMoves`
follow. `QueueIsKept` rests on `KeptInv`: the calls in their order, what stdin was handed and what waits
form one line, in which whoever is before another was called before it; and the count is the number of
bytes of the records in the queue or at stdin, counted as the finite set of their pairs of record and place, since
a sum over a sequence would need an induction. Lemmas on `Pump` and on removal from the queue are stated once and cited.

**Run state.** `DialogsAreSettled` needs that a dialog that was not raised, or is still pending, has no
answer (`DialogFresh`), and what is pending while and after Stop. `CertainSending` is an action property: it needs that an accepted input is
certain (`AcceptedCertain`). `ForegroundGivenBack` rests on `Claims`, which says for each await of a call
when it may hold the foreground.

**Lifecycle.** `RuntimeInv` says for each runtime what its `pc`, lease, process, tree, close and cleanup
have to do with one another; `DisposeInv` says what dispose has behind it at each of its
awaits, from which `DisposesProperly` follows. `LeaseDisciplined` shows the refinement of `OwnedSession` on every file.

**Admission.** `ReserveInv`: at most one call of a command stands between its reservation and
its settlement, the receipt is on disk while it does, and no receipt means no effect; a
crash leaves all of it true, which is the fence of the code. `LaneInv` (who runs is the head of its lane) gives
`LaneExclusive`. `OutcomeInv` ties receipts, first calls and answers to the one dispatch.

**Bridge.** `BridgeInv` has a part for the controller (`PlaceInv`: the operation says which await it is at and
whether a request is pending), one for the ids (`IdsInv`), one for Pi (`WorkInv`: one command is at work, and holds the
lock; what it has behind it), and three for what goes between them: the command awaited is the operation's own
(`AwaitedInv`), a good reply tells what Pi has done (`ReplyInv`), what an inspect has seen is still so when
it is installed (`SeenInv`). `CalmInv` joins them: outside of an action none is at work, unless the state
is uncertain, and within one its own command is all there is. `PromptsWait` follows, `ToldAsDone` needs
`ToldInv` beside it, and `OneAtWork` that two commands are never both at work in Pi.

**Workspace and uploads.** `ReleaseInv`: behind the fence no load begins (`ShutInv`); the release waits for all
commands and loads there are (`DrainInv`), so that only imports at their source are left afterwards (`LateInv`);
the last closes leave no record (`EndingInv`); whatever runs has a record, a call that will give it one or
close it, or is an orphan (`OwnerInv`, with `ChildInv` and `LoaderInv`); and what was started before the
release was started by an import or is an orphan (`StarterInv`, from `BornInv`). `ReleasedForGood` follows; the exceptions are those of
the property. `UploadInv` says for each entry when it is listed and who speaks for a whole file, from which `ImagesOwned`
follows; it holds beside the release because only a release at its uploads releases entries.

**Queue media.** `EvidenceStays` is proved of `MediaSpec`. `KeptInv` is the property for whatever names a copy, loads
and writes under way too. `SaveInv` and `WriteInv` relate the disk to the memory: they differ by the
write at the head, and one write at most is that of a refresh. `QuietInv`, `LookInv`, `AimInv` and `UnlinkInv`
follow a removal from its first look to its unlink: as long as nothing has happened since it saved, what is
named is no candidate and nothing runs that could mention one, and otherwise it will notice.

**Feed.** `FeedInv`: numbers are given once, and nobody has read the message that streams (`NumbersInv`); the
first job alone has left the queue, it reads while a settled read is under way, and the last one is of the last run that settled
(`PlacesInv`). An answer that is no longer the history is not the last: Pi runs, a later read is under
way or a job has still to read (`AnswersInv`); a projection that is not the history will be read again, or an exception is
marked (`CoverInv`), which gives `RestReached`. Later answers have what is left of earlier ones (`LaterInv`), and as long as
no record came, the answer has what is left of the projection (`NewestInv`), which gives `NewerMessagesKept`: the two need one another, because
a shell command's answer may become the projection before a settled read's. Lemmas say what `Started`, `Streamed`,
`Finished` and `Reconciled` make of the messages.

`RowsFollowed` is all of `FeedFaithful`. `DeltasRebuild` is its half about data: for any two lists of rows with
distinct ids, such that a removal tells those kept from the others, `Applied(prev, Diff(prev, next))` is `next`. Its proof goes
over the deltas one by one: after so many of them, so many rows are the new ones. Inductions over a sequence are done
by the least number at which they fail (`Least`) or by the elements of a finite set that remain (`SetInduction`), which need
no operator as a parameter. `ShownInv` is inductive beside `FeedInv`: ids are given
once and below the next one, and every message that has a row has an id (`Numbered`, `RowIds`), and the client has the rows but
for the deltas that a settled read has to send (`Follows`).

**Decoder.** `LinesAnyCut` is `LinesIndependentOfCuts` for every limit and for any output, cut anywhere. `Received` is the
invariant: the decoder is the one (`At`) that has reported what the whole output has before the record that is being read, and
holds the beginning of that record, but for half a character. `AppendAt`: appending to it does not depend on where
the record is cut, nor on whether it is dropped already. `FinishAt`: a line feed reports the record, as a line or a problem.
`PushReceives` goes over the bytes of a chunk by `SetInduction`; `RecordLocal` and `LinesLocal` say that the lines
before a position do not depend on what follows it, and `EndAt` is the end of the output at any moment.

**Settings.** `SettingsInv`: whoever is between the lock and its removal is its holder (`LockHeld`, which
gives `OneSaveLocked`), and a save that is about to rename has seen the document as it is, or an outsider has
written since (`Seen`). `SavesAlwaysYield` is the action property: a rename that replaces anything but what
its editor has read needs such an outsider.

**Auth.** `AuthInv` has a part for the manager and one for the session. `ManagerInv`: at most one call is
past its claim and before its end, it shows by the claim or by its outcome, and what an outcome tells of a
change is what Pi has stored. `SessionInv`: the inputs under way are those in the lane and the first of
them alone sends (`Queue`); a call that synchronizes has the fence, an input that sends is not after the one that it awaits, and none
sends once that one was answered (`Fenced`). `ToldTheTruth` and `OperationsWorkAlone` follow.

**Catalog.** `CatalogInv`: no read under way is newer than the epoch; one of the present epoch, and
what is remembered or shared, was begun after every start that was called (`TablesFresh`), because each such
call has advanced the epoch. `StartsInspectFresh` follows.

`PROJECT.json` lists the theorems under "theorems".

**Only model-checked.** Liveness (`OperationsSettle`, `EndReported`, `CallsEnd`, `CallsSettle`,
`OperationEnds`, `ReadsEnd`, `ManagerFreed`, `ReleaseReturns`): the prover does no liveness under
fairness. Every invariant of a run is a theorem.

## 5. Plan

The order is by what goes wrong worst: two writers on one history, a prompt sent twice, a
session that cannot be used, a lost document. Done: every module of section 2. Next, in this order:

1. Proofs: the order in which lanes are served, and what the ghosts of the exceptions amount to.
2. `PiSessionFiles`: transfer, share and catalog: imports and exports that fail half way, the writes of
   the bookmarks, `deletePersistedSession`.
3. The claims of a session in one module (`treeOperations`, `sessionAdmissions`, the intents of an
   input), in place of the part of them that `PiAuth` has.
4. `PiWorkspace` by the offline record of an input, resync scans and `dispose` of the whole service.

## 6. What is not modelled, and why

- The text of errors, logs, the layout of records and frames: no property is about them.
- The termination of a process tree by the operating system: external, it ends or it does not.
- Extension UI state, snapshots and frames: folds of one record or conversions, with no waiting in them. The
  llama router is an HTTP client; the helpers have no state.
- Transfer, share and catalog: in the plan.
- Of the native service: the offline record of an input without history, resync scans, subscriptions,
  `dispose` of the whole service, a second workspace, the time that writes of the catalog take and
  whether a release resolves or rejects. Failures of the cleanup after an exit are in
  `PiSupervisorLifecycle`, not in `PiWorkspace`.
- Of the queue media: temporary sessions, `removeSession` and the parsing of the catalog. Of the
  rows: tools, images, turns, the walk over parents. Of the uploads: the limit of eight and `dispose`.
- The upstream's workbench (`packages/ui`, the desktop shell, the other services, the command line
  of the upstream): by far the larger part of the repository's lines, mostly user interface and
  conversions, and not what this product adds. A claim about it is not made here.

## 7. Running it

    tlc -workers 2 -config lifecycle.cfg MCPiSupervisorLifecycle.tla
    tlapm PiSupervisorLifecycleProofs.tla

Each run of `PROJECT.json` names its module and configuration; each takes a minute or two.
