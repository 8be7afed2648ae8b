# Niri Desktop Continuity in TLA+

A verification development for `niri-desktop-continuity`: the program that saves a niri desktop
(windows, workspaces, columns, and how each application was started), reopens it later, and puts
an open desktop's columns back in a saved order. TLA+ modules model its parts, TLC checks them on
small instances, and TLAPS proves the theorems listed below for every value of the constants.

Source paths are relative to `src/src/niri_desktop_continuity/`. `PROJECT.json` maps every
definition to the lines it models.

    tlc -workers 2 -config MCReopen.cfg MCReopen      model-check one run
    tlapm ReopenProofs.tla                            check one proof module

## The system

| component | state | operations | interacts with | hard behaviours |
|---|---|---|---|---|
| capture (`probe.py`, `model.py`) | none | `capture`, `settled_capture`, `readiness`, `fingerprint` | niri IPC, /proc | two readings that disagree; no display |
| snapshot store (`store.py`) | content-addressed files, four pointers, markers | `put`, `get`, `pointer`, `save_snapshot`, `prune_snapshots`, `consume`, `recovery_marker` | everything; no lock | power loss between system calls, overlapping commands, midnight |
| restore planning (`reopen.plan`, `routes.py`, `launch.refusal`) | none | `plan`, `route`, `refusal` | snapshot, windows now | grouping, order, stale dry run |
| restore engine (`reopen.py`, `live_desktop.py`) | receipt, known and adopted windows | `reopen`, `_run`, `collect`, `arrange_workspace`, `finish` | niri IPC, operation lock, store | late windows, the user's windows, failing calls, death of the run |
| selection and login (`restore_selection.py`, `cli.run_restore`, `autostart.py`) | systemd units | `select_snapshot`, `run_restore`, `render`, `enable`, `disable` | store, capture timer, logind | waits of minutes between reading and acting |
| layout reconciliation (`planner.py`, `approval.py`, `reconcile.py`) | plan, approval, used marker, intents, receipt | `build_plan`, `approve`, `reconcile` | niri IPC, store, operation lock | no atomic focus-and-move, retry, expiry, crash |
| operation lock (`operation_lock.py`) | a flock per compositor | `operation_lock`, `require_clear` | all writers | a worker that keeps the descriptor of a command that died |
| owner locks (`resolution_lock.py`, `resolution_io.check_root`) | two lock files | `mutex`, `owner_guard` | reconstruction and resolution commands | lock files and roots replaced, nested commands |
| launch recipes (`launch.py`, `launch_sessions.py`, `launch_proc.py`) | declarations of sessions | `terminal_sessions`, `foreground_job`, `window_recipes`, `hook_declaration`, `declare` | /proc, records agents keep, their hooks | processes that change between the reads, pids that come back, equal titles |
| reconstruction (`recovery*.py`) | prepared / used / ready / terminal markers, events | `plan`, `approve`, `execute`, `Ledger.*`, `Adapter.call` | a pinned worker process over a socket | crash between markers, leases, expiry, inherited locks |
| resolution (`resolution*.py`, `recovery_resolution.py`, `recovery_transition.py`) | objects, prepared / used / ready / pending / final markers, the profile | `plan`, `approve`, `apply`, `admission_gate` | reconstruction ledger, owner locks | crash between markers and profile replacement |
| reports (`reopen_report.py`, `map_preview.py`) | generated pages | rendering | receipts | none |

What makes each correct:

- *store*: a name whose call returned survives power loss with its content; a marker lets one call
  pass; pointers and receipts name captures that load; pruning keeps recent days.
- *planning*: one launch per application instance; nothing already open is launched; order and
  workspaces are kept; a menu entry is the one the user sees, and its arguments arrive as written.
- *recipes*: every tab is kept once; a tab comes back on the session a process in it is on, or on its
  foreground command; an agent is never run again from its command line.
- *locks*: one command inside the owner locks and one writer per compositor, and a command that was
  not alone does not end well.
- *engine*: one launch per group; windows open before are never adopted; adopted windows are new
  and of the right application; every saved window has its line in the receipt; every run ends. That
  columns open before stay where they are holds only where the last of them is active.
- *login*: the newest desktop that was saved in full is the one reopened; saving never pre-empts the restore; no older
  desktop comes back into the instance that has a newer one.
- *reconciliation*: one run per approval, an intent before every call, at most one call late or
  astray, and `layout-verified` only on the desired layout.

## Modules

| module | models | abstract / detailed |
|---|---|---|
| `RestorePlan` | `reopen.plan`, `launch.refusal`, `routes.route` as operators | |
| `Routes` | `routes.py`: desktop entries, precedence, matching, as operators | what `RestorePlan`'s `Route` is given |
| `ExecLine` | the quoting of `Exec` keys, character by character | the `argv` of an entry of `Routes` |
| `Reopen` | one restore run: admission, launches, polling, placing, receipt, pointer | detailed: carries out a plan |
| `PlannedReopen` | `Reopen` over the plans that `RestorePlan` makes and the entries of `Routes`, with what planning promises | composes `Reopen`, `RestorePlan`, `Routes`, `ExecLine` |
| `Arrange` | `arrange_workspace` call by call on niri's columns | |
| `SnapshotStore` | captures, pointers, pruning and restores of one state root, file by file | |
| `ImmutableArtifact` | what a stored artifact promises | abstract |
| `ArtifactFile` | `_create`, `put`, `sync_artifact`, `consume` system call by system call | implements `ImmutableArtifact` |
| `Reconcile` | plan validation, action planning and `_reconcile_locked` step by step | |
| `Login` | niri instances, display, lock, timer, selection, waits, admission | composes selection, units, store and engine |
| `Recovery` | plan, approval and execution of a reconstruction: ledger markers, journal, permits, worker, locks | composes `recovery.execute`, `Ledger`, `Adapter.call` and `operation_lock` |
| `Resolution` | abandoning an attempt: candidate, plan and approval, the five markers, the profile replacement, and the attempts admitted before and after | composes `recovery_transition`, `recovery_resolution` and `Ledger.available`; an attempt is module `Recovery`, reduced |
| `Sessions` | a capture reading a terminal's processes while they change: inventory, records, job control, titles; hooks and declarations | its slots are what `RestorePlan` plans |
| `OwnerLocks` | `mutex`, `owner_guard` and `operation_lock` by inode and descriptor | the mutual exclusion `Recovery`, `Resolution`, `Reopen` and `Reconcile` take as one step |
| `MC*` | values of the constants for TLC | |
| `*Proofs` | theorems | |

How state and actions correspond to the code:

- `RestorePlan`: a slot is a record of what `plan` reads of a saved window. `Disposition`, `GroupKey`,
  `Route`, `Target`, `Ordered`, `Groups` and `Plan` are the steps of `plan` in its order. A route that the
  user wrote serves every instance of its application; one that names an entry which is not there raises, and
  the whole plan is `Refused`. `GroupKey` goes by the process, and by the saved program where none is recorded;
  `Instances` goes by the process alone, as `reopen.py:153-158` does.
- `PlannedReopen`: `PlanOf` is the plan of a saved desktop on a session as it is observed. The planning and
  routing properties are about every saved desktop, session, menu, command and argument of its constants. `MCReopen`
  gives those their values (every small saved desktop) and carries out some of the plans.
- `Routes`: an entry is a record of its keys; `Lists` says which entries a menu shows, `DesktopEntries` goes
  through the directories in order, `EntryFor` matches id, window class, program file.
- `ExecLine`: `Unescape` and `ExecArgv` work on characters because the property is about that conversion.
  `Scan` is the loop of each stage, whose step is `Unescaped`, `Split`, `Kept` or `Expanded`; a stage that looks
  at the next character keeps what is pending instead. `Written` is the other direction, what a menu entry's
  author writes by the Desktop Entry Specification: quoted, then escaped.
- `Reopen`: `pc` is the place in `_run`; `known`, `found`, `last`, `t` are the locals of `collect`; `status` and
  `restored` are the receipt's lines. One action per stage: `Refuse`, `Admit`, `DryRun`, `SkipGroup`, `Spawn`,
  `Poll`, `Place`, `GroupDone`, `Arrange`, `StoreReceipt`, `SetPointer`; `Arrange` says nothing of the columns,
  which are module `Arrange`. Each stage that calls niri has a `...Fails` twin, which reports the call's failure
  with its effect done or not. `AppOpens`, `UserOpens`, `Closes` are the desktop. One tick is one poll interval.
- `Arrange`: `cols` is what niri keeps, the columns of the workspace; `rank` and `tile` are the two loops of
  `arrange_workspace`, `step` the call it makes next (`FocusTile`, `MoveColumnToIndex`, `FocusSeed`,
  `ConsumeWindowIntoColumn`, `MoveWindowToFloating`), `offset` its count of the open columns. `Arrive` is a
  window's arrival before it, and `WithMoved`, `WithConsumed`, `WithoutWindow` are niri's column operations.
- `SnapshotStore`: each process is a `pc` with the snapshot it works on; `Put`, `CheckPointer`,
  `ReplacePointer`, `ListDays`, `ScanReferences`, `Unlink` are the file operations of `save_snapshot`
  and `prune_snapshots`, `Select` and `Receipt` those of a restore. `overlapped` remembers whether two
  commands ever ran at once: some guarantees hold only without.
- `ArtifactFile`: `entry` and `content` are what running processes see, `entryOnDisk` and `onDisk` what a
  power loss leaves. `Returned` calls map to `returned`; the file counts as `stored` from the first
  moment both parts are on disk by a caller's doing. `fence` says which of the two kinds of file it is: one
  that `put` shares between callers, or a marker that a second caller must not get past.
- `Reconcile`: an order is a column index per window; `Intend` stores the intent, `Dispatch` makes the
  call, `Check` observes; `User` moves a column or the focus, `Expire` ends the approval, `Crash` kills
  the run and the command can be tried again.
- `Login`: instances are numbers; a capture is its kind (`ready`, `dark`, `torn`, `unref`), the instance it saw and
  who took it. A save is the three writes of `save_snapshot` that a login sees, `StoreFile`, `PointLatest` and
  `PointValid`, which another save may run between and a kill may cut short (`SaveDies`); its files are module
  `SnapshotStore`. Selecting is two reads, `SelectLatest` and `SelectValid`, and `Wait`, `Compare`, `Admit`,
  `Reopened` are the other stages of `cli.run_restore`; a run inside `reopening` is module `Reopen`. `clean` is
  history: the captures whose save ran to its end with no other beside it. `Enable` and `Disable` are typed at any
  moment; a failing `systemctl disable` is passed over, as the code does.
- `Recovery`: `pc` is the command's place in `recovery.execute` and `Adapter.call`; `prepared`, `ready`,
  `terminal` are the ledger's markers, `used` the state roots'; `intents` and `results` the journal. One
  action per marker, frame and reply: `Prepare`, `Consume`, `Ready`, `Start`, `Effect`, `JournalIntent`,
  `Permit`, `EffectResult`, `Result`, `WorkerEnded`, `Close`, `Finish`; `Breaks` is every failure inside the
  call, with the write that failed on file or not. The worker is trusted in what the protocol asks of a
  reviewed one, an effect only for a permit and only once and truthful reports, and in nothing else: it
  may send any frame, stay alive after its command, and act on a permit long after it was given.
  `Verification` and `Inspection` are what the two reading commands conclude in a state.
- `Resolution`: `stage` is how far the owner took a resolution (candidate, admitted, planned, approved), `pc`
  the place in `recovery_transition.apply`: `Stage`, one `Mark` per marker, `Check`, `Replace`, `SyncDirectory`,
  `MarkFinal`. `profile` is what programs read, `disk` what a power loss leaves; `loose` markers were
  written by a command that was killed before its sync. `Available`, `Initial`, `Unchanged`, `Prefix`, `Settles`
  and `Guarded` are the code's conditions in the order it tests them. The owner mutex makes it one command at a
  time; the observation of the compositor precedes its lock, and the session may change in between.
- `Sessions`: `proc` is /proc by pid, a pid being the lowest free number so that pids come back at once;
  a command is its process name and the first word of its command line, which for a script is the interpreter.
  `record` holds what the agents and the hooks wrote, `cap` a capture's locals. A hook belongs to the agent that
  started it and takes the steps of `hook_declaration`, `HookFinds` (`agent_ancestor`), `HookLooks`
  (`inside_terminal`), `HookPins` (the start that `declare` reads) and `HookDeclares`; the agent may end between any
  two, and its pid come back. `writer` (whose announcement a record is), `unheard` (agents whose last hook
  failed) and `cap.agents` (agents running when the capture begins) are history. The capture's steps are
  its reads in their order: `Begin` (windows), `Scan`, `ReadWindowsAgain`, then per tab `ReadRecords`,
  `ReadJob`, `ChooseLeaf`, `ReadCommand`, then `Save`, with processes forking, ending and switching jobs between.
  `stayed` are the tabs that lived through the capture, `calm` says that nothing happened during it.
- `OwnerLocks`: a lock file is its inode; `held` gives the flock of each inode to a command, `mine` is what
  a command opened. `lock` and `workers` are the compositor's lock and the copies of its descriptor.
  `ousted` and `met` are history: whose file was taken away after the check, and who was inside with whom.

niri, the kernel's page cache, systemd and the user are external: modelled from how the code uses them.

## Runs

| run | question | bounds |
|---|---|---|
| `reopen` | are plans without duplicates, ordered and stable when more is open, does a menu entry give the program and arguments it names, and does a run keep its guarantees whatever opens, closes, fails or dies? | plans: three saved windows of every recipe and place, two directories of entries, short Exec values; run: three windows ever open, two ticks of timeout, one of quiet |
| `arrange` | are the saved columns rebuilt behind the open ones? | two open columns, three new windows, every layout |
| `arrange_focus` | *violation*: the same with the first open column active | the same |
| `snapshot_store` | pointers, receipts and pruning over crashes, overlap and midnight | two processes, three captures, two days, one day kept |
| `snapshot_prune` | *violation*: is a named capture never deleted? | two processes, two captures |
| `artifact` | does the file implement the durable artifact over power losses? | three calls on one file |
| `reconcile` | one run per approval, intents, expiry, convergence, and how far a user can lead a run astray | four columns on two workspaces and a floating window, two tries, one user action |
| `login` | what is reopened at login, and does saving go on? | two instances, three captures, one typed command: save, restore, enable or disable |
| `recovery` | is an attempt journalled, does it block others while it is unresolved, and is it recorded, verified and inspected as what it was? | two approvals, two state roots, two missing conversations, two compositor sessions |
| `resolution` | may an attempt be abandoned only when it is over, once, and without losing another from sight? | three attempts, two resolutions, three profiles, two boots, three compositor sessions |
| `sessions` | does a capture keep every tab on its own session or command, while processes change under it, and do hooks declare the agent they belong to? | one terminal, three processes ever, four events before an undisturbed capture and a fifth without one, three before and among the reads of a disturbed one |
| `owner_locks` | who is inside the locks together, and who learns of it? | two commands, two ledger roots, one compositor, four files ever made |

Why the bounds are enough. `reopen`: a misadoption takes two groups of one application and a window that comes late,
which three windows and two groups give; a timeout of two ticks is longer than the quiet period, so that all three
ends of the wait happen. `arrange`: three windows give a stack beside a column, and a stack of three. `snapshot_*`:
pruning with one day kept needs two days and one capture on each; the third capture is the one in flight.
`artifact`: the third call is the one after both a power loss and a refusal. `reconcile`: three columns are the
smallest permutation that one move does not sort. `login`: a fallback that resurrects needs an older ready capture
of the instance it starts in and a newer one without a display; a second instance tells the captures of a restarted
session from the old ones, and pointers out of step need two saves. `recovery`: a second approval is the one an
unresolved attempt must block, a second root the one a spent approval is tried from again, a second session the one
in which the old lock no longer excludes; two missing conversations and the focus give a history that can stop half
way. `resolution`: the third attempt is the second unresolved one after an abandoned one, the second resolution the
retry over what a killed one left, the third profile the owner's own; a second boot and a third session tell a
reboot from a restarted compositor. `sessions`: shell, program and its child make a tree with a leader and a leaf,
and two tabs of one terminal. Five events are an agent that opens, announces and ends while its hook is under way,
and another that opens under its pid and announces; one event before a capture and two among its reads are a pid
that changes hands while it reads. `owner_locks`: two anchor and two ledger files are one removal of each; its
invariants are proved for any number.

Every property has a mutant in `PROJECT.json`: a changed definition, as a plausible bug would change
it, under which TLC finds the property violated. The mutated operators stand beside the originals and
are marked `\* mutant`; no specification uses them.

Deadlock is checked where the model has an explicit end (`Finished`); it is off in `SnapshotStore`, `ArtifactFile`,
`Reconcile`, `Login`, `Recovery`, `Resolution`, `Sessions` and `OwnerLocks`, where every command may have run and
the bounds are reached.

### Fairness

`Reopen`: weak fairness of the run's own steps without failures, crash or desktop: every wait of `collect` has a
deadline on the monotonic clock and every niri call a timeout. `Login`: weak fairness of each restore run's stages
(the waits have deadlines of one and ten minutes), of a save once read, and of the capture service once the restore
service has ended, which is how systemd orders the two units. `Recovery` claims no liveness: a defective worker may
block its command for ever, by design. `Resolution` claims none: what a killed command left is refused by every
later one, also by design. The other modules claim none. Nothing is assumed fair that the user, the lock screen,
applications or the hardware decide.

## Disagreements between the code and its documents

- `arrange_focus`: README "It never closes a window, and never moves one that was open before the
  run". New windows arrive right of the active column; when that is not the last one, the index
  arithmetic of `arrange_workspace` shifts an open column or consumes it into a reopened stack.
- `snapshot_prune`: a snapshot "whose digest appears in a pointer [...] is never deleted"; a restore that
  finishes between pruning's scan and its deletions loses the snapshot its receipt names.

The properties of other runs name, each as an exception, where the code departs from what is written of it:

- `LoginReopensNewest`: README "At login [...] then reopens your latest capture". `save_snapshot` writes the
  snapshot, `latest-observed` (`store.py:308`) and `last-display-valid` (`store.py:309-310`) one after the other and
  without a lock. A save that is killed between them, or that another overlaps, leaves the pointers out of step, and
  after a capture without a display the login falls back to an older desktop than the newest stored one.
- `SavesPresentSession`, its `Stale`: docs/architecture.md:135 "No title heuristic or PID alone establishes
  continuity across compositor/process replacement." The records of Claude and Pi are found by pid alone
  (`launch_sessions.py:106-141`), so one that a process left behind is believed of whoever has its pid later.
- `SavesPresentSession` and `DeclarationFollowsAgent`, `Misplaced`: docs/usage.md:200 and
  `launch_sessions.py:174`, a reused pid never matches. `hook_declaration` looks the agent up (265) before `declare`
  reads the start it pins (197); when the agent ends in between and its pid comes back, the old session is
  pinned to the new process.
- `RunningAgentsNotReplayed`: docs/usage.md:182 "never relaunched from its command line" holds of agents that
  run when the capture begins. A script agent that starts after the inventory was read is saved as its
  command, and the refusal of a restore sees the interpreter (`launch.py:104-108`).

## Proofs

TLAPS checks, for every value of the constants allowed by the named assumptions:

| theorem | says |
|---|---|
| `ReopenProofs!TypeCorrect` | types of a restore run |
| `ReopenProofs!LaunchOnce` | a group is launched at most once, a skipped one never |
| `ReopenProofs!AdoptionIsSound` | adopted windows are new, of the group's application, for one slot |
| `ReopenProofs!OnlyStraysMisadopted` | only a window opened outside its group's wait is misadopted |
| `ReopenProofs!ReceiptIsTrue` | `reopened` exactly when every slot has its window; failures are counted right; every saved window has a line, and only an interrupted run leaves an adopted window unreported, one at most |
| `ReopenProofs!PlansFit` | every plan that `plan` makes has the shape a run relies on: `Reopen`'s assumptions hold of it |
| `ReopenProofs!PlansLaunchOncePerInstance` | the windows of one saved process are one launch, of two processes two; a menu entry serves two launches of an application only by the user's route, or for windows without a recorded process |
| `ReopenProofs!PlansKeepSavedOrder` | the slots of a group come in the saved order of workspaces, columns and tiles, and the groups in that of their first slots |
| `ReopenProofs!PlansOnlyShrink` | with more already open a plan launches nothing it would not have launched |
| `ReopenProofs!AppsAreRouted` | an application goes by the user's own route, else by the best menu entry that is shown, else by its saved command |
| `ReopenProofs!ExecReadsAsWritten` | quoting and escaping an argument is undone by reading the `Exec` value, whatever it holds |
| `SessionsProofs!SpecFollows` | a declaration that a process's own hook wrote names its session, once its last hook is through and did not fail |
| `SessionsProofs!SpecSavesPresent` | an undisturbed capture saves a tab on the session a process in it is on, but for the records named under Disagreements and hooks that failed or are under way |
| `SessionsProofs!SpecSparesAgents` | an agent that runs when the capture begins is never saved as a command |
| `SessionsProofs!SpecKeepsEveryTab` | every tab that lived through the capture is saved, and saved once |
| `SessionsProofs!SpecSavesForeground` | a tab nothing happened to is saved with its foreground job |
| `StoreProofs!BarriersHold` | the order of write, sync, directory sync |
| `StoreProofs!Durable`, `FenceHolds` | durability and the fence |
| `StoreProofs!FileImplementsArtifact` | `ArtifactFile` implements `ImmutableArtifact` |
| `ReconcileProofs!VerifiedMeansDesired` | `layout-verified` only on the desired order, with focus back; never `partial` |
| `ReconcileProofs!OneRunActs`, `IntentsOnFile` | one run per approval, intents before calls |
| `ReconcileProofs!ExpiryStops`, `StrayingStops` | one call at most after expiry, one at most astray |
| `ReconcileProofs!UndisturbedVerifies` | no plan is refused for not converging, and a run nobody disturbs is verified |
| `ReconcileProofs!SavedColumnsRebuilt` | `arrange_workspace` rebuilds any layout in its order behind the open columns, the last of which was active |
| `ReconcileProofs!OpenColumnsStay` | meanwhile no open column is moved, split or joined |
| `OwnerLocksProofs!LocksTyped` | types of the locks |
| `OwnerLocksProofs!LocksExclude` | two commands are inside together only if one lost its lock file after its check |
| `OwnerLocksProofs!LocksTell` | of two commands that were inside together at most one ends well |
| `OwnerLocksProofs!LocksActAlone` | one command, with its worker, acts on a compositor |
| `LoginProofs!TimerNeverPreempts` | the restore service never skips for what the timer saved |
| `LoginProofs!FallbackNeverResurrects` | no fallback is reopened where the latest capture was taken |
| `LoginProofs!NewestIsReopened` | when the service starts to reopen, a newer capture with a display was typed and stored after the service had selected, or its save was killed between its writes or overlapped |
| `RecoveryProofs!UnresolvedStops` | at most one attempt of the account is not a proved success |
| `RecoveryProofs!EffectsFollowJournal` | workers make the journalled effects, in their order |
| `RecoveryProofs!VerifiedWasDone` | what is recorded, verified or inspected as verified was done in full |
| `ResolutionProofs!NothingElseUnaccounted` | beside an abandoned attempt one at most is not a proved success |
| `ResolutionProofs!AbandonedIsOver` | an abandoned attempt has no worker, and no permit of this boot |
| `ResolutionProofs!OneTransactionAtATime` | a ledger holds one resolution's markers, each over whole ones |
| `ResolutionProofs!FinalAfterProfile` | a final marker only over the profile that a power loss leaves |
| `StoreProofs!RecentDaysSurvive` | pruning leaves the recent days, whatever overlaps or is killed |
| `StoreProofs!EveryReferenceResolves` | without overlap every pointer and receipt names a capture on file |
| `StoreProofs!AloneNeverDeletesReferenced` | without overlap no named capture is ever deleted |

Assumptions. `Reopen`: `PlansAssumption` (the shape of a plan: groups of slots, open windows within the
bound), `PlacesAssumption` (`reopen.plan` takes one branch for each slot, `reopen.py:160-198`: it is settled, or in
one place of one group), numbers are naturals, `Slot` is finite. `PlansFit` proves the first two of the plans that
`RestorePlan` makes, and TLC evaluates them. `PlannedReopen`: `SavedAssumption` (a saved desktop is a finite
set of slots, each window once, on numbered places: `reopen.saved_slots` makes one per saved window) and
`RoutingAssumption` (directories hold lists of entries, commands are not empty); `ExecAssumption` (an argument is
a text, a sequence of any characters).
`Sessions`: `BoundsAssumption` (the bounds on processes and events are naturals). `ArtifactFile`: none.
`Reconcile`: `WindowAssumption` (finitely many windows, each tiled one on a workspace).
`Arrange`: `OpenAssumption` (the open columns are not empty and hold each window once) and `LayoutAssumption`
(a layout places finitely many new windows, no two on one tile of a column). Its two theorems have one hypothesis
more, `Focused \subseteq {Len(Open)}`: the last open column is active when the run starts. It is needed:
`arrange_focus` is the counterexample without it.
`OwnerLocks`: `NobodyAssumption` and `InodeAssumption` (the free holder is no command, files are counted).
`Login`: `BoundAssumption` (the bounds are naturals). `Recovery`: `RecoveryAssumption` (the focus is no
conversation, "no effect" is neither, there is a compositor session). `Resolution`: `ResolutionAssumption` and
`SnapshotStore`: `StoreAssumption` (bounds are naturals, at least one day is kept).

The inductive invariants:

- `ReopenProofs`. `Typed` strengthens `TypeOK` with the place in the plan each `pc` stands for.
  `Adoption` says that `found` is disjoint from `known`, that `known` holds every protected and every
  adopted window, and that the slots of the group under way are the only ones that can still be given a
  window: without it a poll could return a window a second time. `Launches` says that groups from the
  current one on have not been launched. `Origins` gives each found window the group it opened for.
  `Tally` counts: a slot has no status exactly while it is still ahead of the run, and the failures are the
  slots reported as missing. A launch that brings too few windows settles the rest of its group at once
  (`CountsTail`), which needs that no slot is in two places.
- `ReopenProofs`, planning. `BeforeIs` shows that the order of slots compares workspace, having a column,
  column, tile and id, one after the other, and `SlotsOrdered` that this is a total order of a saved
  desktop; `Sortable`, an induction over the number of elements, that every finite set has one list in a total
  order, so that `Ordered` is that list. An instance then has one leading slot (`OneLead`), and each launched slot
  is a member of one lead's group, at one place. `GrowthShrinks` follows a slot from the later plan back to
  the earlier one.
- `ReopenProofs`, routing. `Matches` is the invariant of the loop that reads the entry files, after `n` of them:
  the entries read are those a menu shows, in order. `SearchIs` says that the first match in a list is the one with
  the least index, so the three passes over the entries find the one that fits best.
- `ReopenProofs`, `Exec` values. Each stage of `exec_argv` is a loop whose states are closed under its step
  (`ScanOf`), so one more character is one more step (`ScanGrows`). An induction over the argument
  (`AppendInduction`, from `NumberInduction`) follows its pieces through the stages: the escapes of a written
  argument leave it quoted (`UnescapesWritten`), splitting leaves its percent signs doubled (`SplitsQuoted`), and
  expanding leaves the argument (`ExpandsDoubled`). An argument of two characters is never taken for a field
  code, since it would have expanded to nothing (`KeepsDoubled`).
- `SessionsProofs`. `WorldInv`: pids come back but start times do not (`Dated`), an agent waits for its hook
  (`Waits`), and what a process has written about itself names the session it is on (`Told`, and for declarations
  `DeclarationFollowsAgent`, but for hooks that failed or are under way). `CapTyped`: each finding names a process
  of its own tree in the inventory and what it was read from (`ReadAs`). `Spares`: an agent that ran when the
  capture began and is in the inventory is there under its agent's name (`AgentsKnown`), so its tree is taken for an
  agent's before job control is asked. `Lives`: a tab that lives through the capture is either still to be read or
  found once (`OnceSeen`), counted without numbers by `NoneOf` and `OneOf`. `Still`: while nothing has happened the
  inventory is the process table (`Same`), so every finding says what the terminal shows and which session a process
  in it is on (`Sound`). A tree is a recursive function; `Recursion`, derived from `NumberInduction`, shows that it
  exists and unfolds.
- `StoreProofs`, the file. `BarriersInOrder` ties each call's place to what is on disk, for any number
  of calls; durability and the fence are consequences, and the refinement step by step uses it.
- `ReconcileProofs`. `Progress` says that columns already placed stand where they should, so that placing
  columns in ascending order keeps what is placed (`PlacingKeepsPlaced`) and the last check shows the
  desired order; `MovedIsOrder` shows that the modelled move keeps columns numbered without gap. `Fence`
  ties the used marker to the runs that acted, `Counting` counts intents and calls at each place, `Tracking`
  gives the places at which the desktop was seen to match. For a run that nobody disturbs, `Calm` says that it
  matches throughout: niri's move of a column, which takes an element out of a row and puts it back elsewhere,
  does what `expected_after` computes with indices (`MovesAsPredicted`), and the focus is on the window that is
  to move (`Aimed`). That the prediction converges is an induction over the windows in their order
  (`SourceConverges`): the library's induction theorems cannot be instantiated, so `NumberInduction` is
  derived from its well-foundedness theorem, for a set, and `PredictedUnfolds` shows that the recursive
  function exists.
- `ReconcileProofs`, arranging. `Stands(cs, front, loose)`: the columns of `front` come first, behind them each
  loose window is a column of its own, and no window is in two places. Before `arrange_workspace` starts, `front`
  is `Open` and the focus is on its last column or behind it, which keeps every arrival behind it too (`Landing`).
  Then `front` is `Built(layout, rank, tile - 1)`, the open columns, the saved ones before `rank` and the tiles
  placed of that one (`Rebuilding`): a move brings a loose column right behind `front` (`MoveStands`, by way of
  the same facts on taking out and putting back as `MovesAsPredicted`), where a seed counts as placed
  (`SeedStands`) and any other tile is what the seed consumes (`ConsumeStands`). `BuiltGrows` and `NextPlace`
  show that this is the next tile's `Built`. That `InOrder` lists a finite set is an induction over its size.
- `OwnerLocksProofs`. `LocksInvariant`: a command past its lock holds the flock of the inode it opened, so two
  commands never hold one inode; a command whose file is no longer under the name is in `ousted`, and stays so
  because inodes are never used again. Whoever was inside together (`met`) had different files, and one name
  shows one file, so the second comparison fails for one of the two.
- `LoginProofs`. `Ordered`: as long as the restore service runs, the timer has neither stored nor begun a capture of
  this instance. It holds through a restart because captures carry the instance they saw and instances only grow
  (`Dated`), and because nothing of a session outlives it but what was typed (`Down`). `Checked`: an admitted
  fallback keeps what it compared, since captures never change and every run ends before the next instance;
  `Selections` keeps what a run works on stored. `Pointed`: the pointers are at or past every clean capture, because
  a save that runs alone has its own capture under both before it is counted as one. `Chosen`: so what the service
  selected was the newest clean ready capture then, and the timer stored none since.
- `RecoveryProofs`. `Claimed`: the attempt under way is itself the unresolved one, so `Available` at the next
  claim leaves no second. `Tied` relates the three histories of an attempt and its permit; that it survives the
  next intent or result needs `Underway`, what the command knows at each place of `Adapter.call`, and
  `Unstarted`, that nothing is on file before a worker starts. A worker that outlives its command can
  only use the permit it holds, which `Tied` equates with the last intent. For what is verified, `Additive` says
  that the journal of an additive attempt asks for missing conversations, each once, and then the focus; `Heard`
  that a command which took the final frame had every result, each observed, so that nothing can be added
  (`Done`), and `Concluded` that a `verified` marker still says so later.
- `ResolutionProofs`. `Chained`: of the markers on file only the last can be torn or not yet synced, and all are
  one resolution's. `AtPlace` gives the markers and the profile at each step of `apply`; `Finished` says that a
  final marker rests on four that no power loss takes, so no other resolution can be applied after it.
  `Lived` ties a worker to its boot, `Staged` keeps a resolution's target once it is chosen.
- `StoreProofs`, the snapshots. `Pruned`: what pruning is about to delete is of a day that is old now and for ever,
  since days only come (`FewerRecent`); a capture in hand has no file and nobody else's number (`Numbered`).
  `Alone` holds only as long as no two commands overlapped: references resolve and the one command knows its
  capture on file. `Valid` keeps `last-display-valid` on captures that are ready.

Only model-checked: liveness (`RunEnds`, `SavingResumes`; fairness and `ENABLED` are out of the prover's reach).
Every invariant and every action property of a passing run is stated by a theorem.
`TypeCorrect` and `Durable` are proved without a run of their own: the invariants the `reopen` and `artifact`
runs check would fail first, and `FileImplementsArtifact` rests on the latter.

## Plan

1. `Recovery`: an old attempt admitted by its resolution, in one module with `Resolution`.
2. Operators: `model.topology`, `fingerprint` and `verify`, `resolution_graph`, each checked within the run
   of the module that uses it.
3. Late and closing windows in `Arrange`, several outputs in `RestorePlan`, with their proofs.

## Not modelled

Reading niri's and /proc's data, JSON schemas and file permissions (validation without state), reports and
previews (rendering), the read-only commands, widths, workspace names and floating positions. Of the
reconstruction and resolution families the record schemas, pins and digests (a record that does not match is a
refusal), heartbeats, the listing of single events by `recovery_diagnostics.events`, and the observer's transport.
`Sessions` leaves out what a title or an argument vector says (tokens), windows of applications that are no
terminals and their AppImages (`launch.py:303-365`, a reading of one process without state), and `claimed`, since
trees of different tabs share no process. A process that lives and cannot be read, and the cap of 20000 entries
(`probe.py:87-92`), are left out. Agents are assumed to wait for their hook; `declare` typed by the operator is one
step. `OwnerLocks` assumes that nobody removes a compositor's lock file: `operation_lock` does not look at the
name again after its flock, as `mutex` does.

Worth knowing, as the model shows it: an attempt whose command died without a terminal marker, or one on a ledger
that holds earlier verified attempts, can never be abandoned; and a final marker that a killed command left
unsynced may vanish with a power loss, after which the ledger refuses everything.

Also: a slot whose window was adopted and whose move raised is reported `not-attempted` (`reopen.py:374-415`), which
the report explains as "the run stopped before reaching it" (`reopen_report.py:23`); `ReceiptMatchesWindows` allows
that one. A menu entry that the user's route names opens once per instance, and so may one of an application whose
windows have no recorded process. When no process of a tab's tree is in the terminal's foreground group (the job's
processes were reparented), `foreground_job` takes the whole tree (`launch.py:155-157`); `SavesForegroundJob` speaks
of tabs whose tree has a foreground job, and of captures that nothing disturbs: job control is read after the
inventory, so a job that ends in between leaves its place to whatever is in front then. A hook that fails leaves the
previous declaration in place. An entry matched by its program file may be another application's that shares an
interpreter, as `docs/usage.md:171` says.
