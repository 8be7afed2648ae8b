-------------------------------- MODULE Login --------------------------------
(***************************************************************************)
(* From one login to the next: the timer and the user save the desktop,    *)
(* niri ends and starts again, the restore service selects what to reopen, *)
(* waits for the unlock and reopens it, and the user may type `capture`    *)
(* and `restore` at any time, and turn both services on and off.  It       *)
(* composes autostart, restore_selection, cli.run_restore, the order of    *)
(* store.save_snapshot's writes, and the admission of reopen.reopen;       *)
(* modules Reopen and SnapshotStore look inside a run and inside a write.  *)
(*                                                                         *)
(* A niri instance is a number; instances grow.  A capture is              *)
(*   ready  display-valid and coherent     dark  coherent, no display      *)
(*   torn   the desktop changed meanwhile  unref torn, and a window is on  *)
(*                                               a workspace it lacks      *)
(***************************************************************************)
EXTENDS Integers, Sequences, FiniteSets

CONSTANTS
  MaxInstance,   \* BOUND: times niri starts
  MaxSaved,      \* BOUND: captures stored
  MaxTyped       \* BOUND: commands the user types

ASSUME BoundAssumption == {MaxInstance, MaxSaved, MaxTyped} \subseteq Nat

Runs == {"login", "typed"}        \* the restore service; a `restore` the user typed
Captures == {"timer", "typed"}    \* the capture service; a `capture` the user typed

VARIABLES
  instance,   \* niri instances started so far
  up,         \* the last of them is running
  display,    \* it has a usable output
  locked,     \* its session is locked
  enabled,    \* the restore service and the timer are installed and enabled
  saved,      \* stored captures
  latest, valid,   \* latest-observed and last-display-valid, 0: no such pointer
  due,        \* the timer has elapsed and its capture has not been taken
  reading,    \* the capture each capture command has taken and not yet stored
  writing,    \* what is left of each command's save: the pointers it has not written
  pc, sel,    \* where each restore run is, and its Selection
  typed,      \* commands the user typed
  clean       \* HISTORY: captures whose save ran to its end, with no other save meanwhile

machine == <<instance, up, display, locked, enabled>>
store == <<saved, latest, valid>>
runs == <<pc, sel>>
vars == <<machine, store, due, reading, writing, runs, typed, clean>>

Nothing == [kind |-> "none", of |-> 0, by |-> "nobody"]
NotWriting == [key |-> 0, left |-> "none", alone |-> FALSE]
\* What a run selected, the latest capture it read, and the clean ones there were then.
Unselected == [key |-> 0, fallback |-> FALSE, latest |-> 0, clean |-> {}]

Init ==
  /\ instance = 0 /\ up = FALSE /\ display = FALSE /\ locked = FALSE
  /\ enabled \in BOOLEAN
  /\ saved = <<>> /\ latest = 0 /\ valid = 0
  /\ due = FALSE /\ reading = [c \in Captures |-> Nothing]
  /\ writing = [c \in Captures |-> NotWriting] /\ clean = {}
  /\ pc = [r \in Runs |-> "idle"] /\ sel = [r \in Runs |-> Unselected]
  /\ typed = 0
-----------------------------------------------------------------------------
(* The session. *)

\* Where a run is next, with what it has selected so far, or with nothing more to compare.
Keeps(r, place, selection) == pc' = [pc EXCEPT ![r] = place] /\ sel' = [sel EXCEPT ![r] = selection]
Leaves(r, place) == Keeps(r, place, Unselected)

\* graphical-session.target starts the restore service when a capture was ever stored.
NiriStarts ==
  /\ ~up /\ instance < MaxInstance
  /\ up' = TRUE /\ instance' = instance + 1
  /\ display' \in BOOLEAN /\ locked' \in BOOLEAN
  /\ pc' = [pc EXCEPT !["login"] = IF enabled /\ latest # 0 THEN "select" ELSE "idle"]
  /\ UNCHANGED <<enabled, store, due, reading, writing, sel, typed, clean>>

\* Logout, crash or reboot: the units stop with the session, wherever they are, and commands
\* lose niri; a capture that the user's has read may still be stored.
NiriEnds ==
  /\ up /\ up' = FALSE /\ display' = FALSE /\ locked' = FALSE
  /\ due' = FALSE
  /\ pc' = [r \in Runs |-> "idle"] /\ sel' = [r \in Runs |-> Unselected]
  /\ reading' = [reading EXCEPT !["timer"] = Nothing]
  /\ writing' = [writing EXCEPT !["timer"] = NotWriting]
  /\ UNCHANGED <<instance, enabled, store, typed, clean>>

Display ==
  /\ up /\ display' = ~display
  /\ UNCHANGED <<instance, up, locked, enabled, store, due, reading, writing, runs, typed, clean>>

Lock ==
  /\ up /\ locked' = ~locked
  /\ UNCHANGED <<instance, up, display, enabled, store, due, reading, writing, runs, typed, clean>>

\* autostart.enable: the units are written, reloaded, enabled, and the timer started; it starts
\* no restore.  A step that fails leaves them as they were for the next login.
Enable ==
  /\ typed < MaxTyped /\ typed' = typed + 1
  /\ enabled' \in {enabled, TRUE}
  /\ UNCHANGED <<instance, up, display, locked, store, due, reading, writing, runs, clean>>

\* autostart.disable: `disable --now` stops the restore service and the timer, or fails and is
\* passed over; then the units are removed, and systemd reloaded.
Disable ==
  /\ typed < MaxTyped /\ typed' = typed + 1
  /\ \/ enabled' = FALSE /\ Leaves("login", "idle")
     \/ enabled' \in {enabled, FALSE} /\ UNCHANGED runs
  /\ due' = (due /\ enabled')
  /\ UNCHANGED <<instance, up, display, locked, store, reading, writing, clean>>
-----------------------------------------------------------------------------
(* Saving. *)

\* BOUND: what is due or already read can still be stored.
Room == Len(saved) + Cardinality({c \in Captures : reading[c] # Nothing}) + (IF due THEN 1 ELSE 0)
          < MaxSaved

TimerElapses ==
  /\ enabled /\ up /\ Room /\ ~due /\ due' = TRUE
  /\ UNCHANGED <<machine, store, reading, writing, runs, typed, clean>>

\* capture.service: After=niri-desktop-continuity-restore.service.
Unordered == TRUE                                                          \* mutant
OrderedAfterRestore == pc["login"] = "idle"

Reads(c) ==
  /\ up /\ reading[c] = Nothing /\ writing[c] = NotWriting
  /\ \E kind \in IF display THEN {"ready", "torn", "unref"} ELSE {"dark", "torn", "unref"} :
       reading' = [reading EXCEPT ![c] =
                    [kind |-> kind, of |-> instance, by |-> c]]
  /\ UNCHANGED <<machine, store, writing, runs, clean>>

TimerReads ==
  /\ due /\ OrderedAfterRestore /\ Reads("timer")
  /\ due' = FALSE /\ typed' = typed

\* No reading succeeds within settled_capture's attempts, or the command dies.
ReadingFails ==
  \/ /\ due /\ OrderedAfterRestore /\ due' = FALSE
     /\ UNCHANGED <<machine, store, reading, writing, runs, typed, clean>>
  \/ /\ \E c \in Captures : /\ reading[c] # Nothing
                            /\ reading' = [reading EXCEPT ![c] = Nothing]
     /\ UNCHANGED <<machine, store, due, writing, runs, typed, clean>>

TypedReads ==
  /\ typed < MaxTyped /\ typed' = typed + 1 /\ Room
  /\ Reads("typed") /\ UNCHANGED due

\* save_snapshot: the file, then latest-observed, then last-display-valid when it is ready; no
\* lock, so another save may write between any two of them.
StoreFile(c) ==
  /\ reading[c] # Nothing
  /\ saved' = Append(saved, reading[c])
  /\ reading' = [reading EXCEPT ![c] = Nothing]
  /\ writing' = [d \in Captures |->
       IF d = c THEN [key |-> Len(saved'), left |-> "latest",
                      alone |-> \A e \in Captures \ {c} : writing[e] = NotWriting]
       ELSE [writing[d] EXCEPT !.alone = FALSE]]
  /\ UNCHANGED <<machine, latest, valid, due, runs, typed, clean>>

SaveEnds(c) ==
  /\ writing' = [writing EXCEPT ![c] = NotWriting]
  /\ clean' = IF writing[c].alone THEN clean \cup {writing[c].key} ELSE clean

PromotedOnce(kind) == kind = "ready" /\ valid = 0                          \* mutant
Promoted(kind) == kind = "ready"

PointLatest(c) ==
  /\ writing[c].left = "latest"
  /\ latest' = writing[c].key
  /\ IF Promoted(saved[writing[c].key].kind)
     THEN writing' = [writing EXCEPT ![c].left = "valid"] /\ clean' = clean
     ELSE SaveEnds(c)
  /\ UNCHANGED <<machine, saved, valid, due, reading, runs, typed>>

PointValid(c) ==
  /\ writing[c].left = "valid"
  /\ valid' = writing[c].key
  /\ SaveEnds(c)
  /\ UNCHANGED <<machine, saved, latest, due, reading, runs, typed>>

Save(c) == StoreFile(c) \/ PointLatest(c) \/ PointValid(c)

\* A write fails or the command is killed: what is written stays.
SaveDies(c) ==
  /\ writing[c] # NotWriting
  /\ writing' = [writing EXCEPT ![c] = NotWriting]
  /\ UNCHANGED <<machine, store, due, reading, runs, typed, clean>>
-----------------------------------------------------------------------------
(* Restoring. *)

\* select_snapshot without a digest, once and before any wait: latest-observed when that is
\* ready, and after that last-display-valid, when latest may be passed over.
Unready == latest = 0 \/ saved[latest].kind # "ready"

MayFallBack == latest # 0 => saved[latest].kind \in {"dark", "torn"}

Ahead(r) == IF r = "login" THEN "wait" ELSE "compare"

SelectLatest(r) ==
  /\ pc[r] = "select"
  /\ IF Unready /\ ~MayFallBack THEN Leaves(r, "idle")
     ELSE Keeps(r, IF Unready THEN "fallback" ELSE Ahead(r),
                [key |-> latest, fallback |-> Unready, latest |-> latest, clean |-> clean])
  /\ UNCHANGED <<machine, store, due, reading, writing, typed, clean>>

\* A torn latest capture is passed over only for one of the same niri instance.
Replaces(k, l) ==
  /\ k # 0 /\ saved[k].kind = "ready"
  /\ l # 0 /\ saved[l].kind = "torn" => saved[k].of = saved[l].of

SelectValid(r) ==
  /\ pc[r] = "fallback"
  /\ IF Replaces(valid, sel[r].latest)
     THEN Keeps(r, Ahead(r), [sel[r] EXCEPT !.key = valid])
     ELSE Leaves(r, "idle")
  /\ UNCHANGED <<machine, store, due, reading, writing, typed, clean>>

TypedRestore ==
  /\ up /\ pc["typed"] = "idle" /\ typed < MaxTyped /\ typed' = typed + 1
  /\ \/ Leaves("typed", "select")
     \/ \E k \in DOMAIN saved :       \* an explicit digest
          Keeps("typed", "compare", [key |-> k, fallback |-> FALSE, latest |-> 0, clean |-> {}])
  /\ UNCHANGED <<machine, store, due, reading, writing, clean>>

\* At login: until niri answers and the session is unlocked, 60 s and 10 minutes at most.
WaitsForever == FALSE                                                      \* mutant
Deadline == locked

Wait ==
  /\ pc["login"] = "wait"
  /\ \/ ~locked /\ Keeps("login", "compare", sel["login"])
     \/ Deadline /\ Leaves("login", "idle")
  /\ UNCHANGED <<machine, store, due, reading, writing, typed, clean>>

\* Selection.same_instance.
SelectedOnly(r) == saved[sel[r].key].of = instance                         \* mutant
SameInstance(r) ==
  \/ saved[sel[r].key].of = instance
  \/ sel[r].fallback /\ sel[r].latest # 0 /\ saved[sel[r].latest].of = instance

Skips(r) == pc[r] = "compare" /\ (r = "login" \/ sel[r].fallback) /\ SameInstance(r)

Compare(r) ==
  /\ pc[r] = "compare"
  /\ IF Skips(r) THEN Leaves(r, "idle") ELSE Keeps(r, "admit", sel[r])
  /\ UNCHANGED <<machine, store, due, reading, writing, typed, clean>>

\* reopen: display-valid source, unlocked session, and the operation lock of this compositor.
Admit(r) ==
  /\ pc[r] = "admit"
  /\ IF saved[sel[r].key].kind = "ready" /\ ~locked /\ \A q \in Runs : pc[q] # "reopening"
     THEN Leaves(r, "reopening")
     ELSE Leaves(r, "idle")
  /\ UNCHANGED <<machine, store, due, reading, writing, typed, clean>>

Reopened(r) ==
  /\ pc[r] = "reopening" /\ Leaves(r, "idle")
  /\ UNCHANGED <<machine, store, due, reading, writing, typed, clean>>

\* The run raises or is killed where it is.
Dies(r) ==
  /\ pc[r] # "idle" /\ Leaves(r, "idle")
  /\ UNCHANGED <<machine, store, due, reading, writing, typed, clean>>
-----------------------------------------------------------------------------
Session == NiriStarts \/ NiriEnds \/ Display \/ Lock \/ Enable \/ Disable

Saving == \/ TimerElapses \/ TimerReads \/ ReadingFails \/ TypedReads
          \/ \E c \in Captures : Save(c) \/ SaveDies(c)

Advance(r) == SelectLatest(r) \/ SelectValid(r) \/ (r = "login" /\ Wait) \/ Compare(r) \/ Admit(r) \/ Reopened(r)

Next == Session \/ Saving \/ TypedRestore \/ \E r \in Runs : Advance(r) \/ Dies(r)

Spec == Init /\ [][Next]_vars

\* Units and commands are processes that the kernel keeps scheduling, and systemd starts a job
\* once what it is ordered after has ended.
FairSpec ==
  Spec /\ WF_vars(TimerReads) /\ \A c \in Captures : WF_vars(Save(c))
       /\ \A r \in Runs : WF_vars(Advance(r))
-----------------------------------------------------------------------------
Starts(r) == pc[r] = "admit" /\ pc'[r] = "reopening"

\* autostart.render, "After=... restore.service": the timer never gets in before the restore
\* service, so only a capture the user typed since niri started makes a login restore skip.
LoginNotPreempted ==
  [][Skips("login") /\ pc'["login"] = "idle" /\ up' =>
       \E k \in DOMAIN saved : saved[k].of = instance /\ saved[k].by = "typed"]_vars

\* same_instance, "A disabled display in this instance must not resurrect an older desktop":
\* no fallback is reopened in a niri instance that the latest capture saw.
NeverResurrects ==
  [][\A r \in Runs : Starts(r) /\ sel[r].fallback /\ sel[r].latest # 0 =>
       saved[sel[r].latest].of # instance]_vars

\* README "At login", "then reopens your latest capture", as far as three separate writes allow:
\* a display-valid capture newer than what the restore service starts to reopen was typed and
\* stored after the service had selected; or its save was killed before it had written both
\* pointers, or ran beside another.
LoginReopensNewest ==
  [][Starts("login") =>
       \A k \in clean : k > sel["login"].key /\ saved[k].kind = "ready" =>
         k \notin sel["login"].clean /\ saved[k].by = "typed"]_vars

\* cli.run_restore, bounded waits: a due capture is never put off for good by a restore
\* that waits for an unlock that may never come.
SavingResumes == due ~> ~due
=============================================================================
