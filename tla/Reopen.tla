------------------------------- MODULE Reopen -------------------------------
(***************************************************************************)
(* One `restore` run of reopen.reopen: admission, one launch per group,    *)
(* collection of the windows the launch opened, placement, arrangement,    *)
(* and the receipt.  Around it the desktop lives on: a launched app opens  *)
(* windows when it likes, the user opens and closes windows, any niri call *)
(* may fail or time out with its effect done or not, and the run may die.  *)
(*                                                                         *)
(* Window ids grow, as niri's do, so the set `found` in id order is the    *)
(* order in which its windows opened.                                      *)
(***************************************************************************)
EXTENDS Integers, Sequences, FiniteSets

CONSTANTS
  Slot,          \* saved windows and tab sessions
  App,           \* application ids
  NoApp,         \* the app id of a window not open yet
  Plans,         \* what reopen.plan may return, with the desktop it was planned against
  MaxWindow,     \* BOUND: windows ever open, ids 1..MaxWindow
  SpawnTimeout,  \* ticks a group is collected for
  Quiet          \* ticks without a new window after which a group is complete

(***************************************************************************)
(* A plan lists the groups in launch order; `preset` is the status of a    *)
(* slot settled without a launch; `open` are the app ids of the windows    *)
(* observed under the lock, whose ids are 1..Len(open): the protected ones.*)
(***************************************************************************)
Group == [app : App, skip : {"none", "already-running", "no-route"}, slots : Seq(Slot)]

PlanTyped(p) ==
  /\ p.groups \in Seq(Group)
  /\ p.preset \in [Slot -> {"none", "not-reopened", "already-open"}]
  /\ p.open \in Seq(App) /\ Len(p.open) <= MaxWindow

\* reopen.plan takes one branch for each slot: it is settled, or in one place of one group.
OnePlaceEach(p) ==
  /\ \A s \in Slot :
       p.preset[s] = "none" <=>
         \E i \in DOMAIN p.groups : \E j \in DOMAIN p.groups[i].slots : p.groups[i].slots[j] = s
  /\ \A i, h \in DOMAIN p.groups :
       \A j \in DOMAIN p.groups[i].slots, l \in DOMAIN p.groups[h].slots :
         p.groups[i].slots[j] = p.groups[h].slots[l] => i = h /\ j = l

ASSUME PlansAssumption == \A p \in Plans : PlanTyped(p)
ASSUME PlacesAssumption == \A p \in Plans : OnePlaceEach(p)

ASSUME BoundsAssumption ==
  MaxWindow \in Nat /\ SpawnTimeout \in Nat /\ Quiet \in Nat

ASSUME SlotAssumption == IsFiniteSet(Slot)

ASSUME NoAppAssumption == NoApp \notin App

Status == {"none", "not-reopened", "already-open", "already-running", "no-route",
           "placed", "not-detected", "planned", "not-attempted"}
Outcome == {"none", "dry-run", "reopened", "reopened-partially", "interrupted"}

VARIABLES
  plan,      \* the plan this run carries out
  apply,     \* --apply
  pc,        \* where the run is
  g,         \* the group being handled
  k,         \* the slot of group g placed next
  opened,    \* windows opened so far
  live,      \* windows open now
  appOf,     \* app id of each window
  opener,    \* the group whose launch opened it; 0: the user, or before the run
  strays,    \* windows that opened while their own group was not being collected
  known,     \* windows no later group may adopt
  found,     \* windows of group g collected and not yet placed
  t, last,   \* time since the launch, time of the last new window (-1: none)
  spawned,   \* launches of each group
  status,    \* the record of each slot
  restored,  \* the window adopted for each slot, 0: none
  failures,  \* the run's failure count
  outcome,   \* receipt status, once decided
  receipt,   \* stored receipt status
  pointer    \* last-reopened names this snapshot

runVars == <<g, k, known, found, t, last, spawned, status, restored, failures, outcome>>
envVars == <<opened, live, appOf, opener, strays>>
vars == <<plan, apply, pc, runVars, envVars, receipt, pointer>>

N == Len(plan.groups)
G == plan.groups[g]
Protected == 1 .. Len(plan.open)
Failed == {"not-reopened", "no-route", "not-detected"}

Init ==
  /\ plan \in Plans
  /\ apply \in BOOLEAN
  /\ pc = "start"
  /\ g = 1 /\ k = 1
  /\ opened = Len(plan.open) /\ live = 1 .. opened
  /\ appOf = [w \in 1 .. MaxWindow |-> IF w <= opened THEN plan.open[w] ELSE NoApp]
  /\ opener = [w \in 1 .. MaxWindow |-> 0]
  /\ strays = {}
  /\ known = Protected /\ found = {}
  /\ t = 0 /\ last = -1
  /\ spawned = [i \in 1 .. N |-> 0]
  /\ status = plan.preset
  /\ restored = [s \in Slot |-> 0]
  /\ failures = Cardinality({s \in Slot : plan.preset[s] = "not-reopened"})
  /\ outcome = "none" /\ receipt = "none" /\ pointer = FALSE

-----------------------------------------------------------------------------
(* The run. *)

\* reopen.reopen: not display-valid, locked session, fenced or owned compositor.
Refuse ==
  /\ pc = "start" /\ pc' = "refused"
  /\ UNCHANGED <<plan, apply, runVars, envVars, receipt, pointer>>

Admit ==
  /\ pc = "start" /\ apply /\ pc' = "group"
  /\ UNCHANGED <<plan, apply, runVars, envVars, receipt, pointer>>

SlotsOf(i) == {plan.groups[i].slots[j] : j \in DOMAIN plan.groups[i].slots}

\* A dry run only reports the plan.
DryRun ==
  /\ pc = "start" /\ ~apply /\ pc' = "finish"
  /\ outcome' = "dry-run" /\ failures' = 0
  /\ status' = [s \in Slot |->
       IF \E i \in 1 .. N : s \in SlotsOf(i) /\ plan.groups[i].skip # "none"
       THEN plan.groups[CHOOSE i \in 1 .. N : s \in SlotsOf(i)].skip
       ELSE IF plan.preset[s] = "none" THEN "planned" ELSE plan.preset[s]]
  /\ UNCHANGED <<plan, apply, g, k, known, found, t, last, spawned, restored,
                 envVars, receipt, pointer>>

\* Every group is left for the next one, whatever became of it; never launched again.
RetryMissing == IF pc = "place" /\ k <= Len(G.slots) THEN g ELSE g + 1   \* mutant
NextGroup == g + 1

SkipGroup ==
  /\ pc = "group" /\ g <= N /\ G.skip # "none"
  /\ status' = [s \in Slot |-> IF s \in SlotsOf(g) THEN G.skip ELSE status[s]]
  /\ failures' = IF G.skip = "no-route" THEN failures + Len(G.slots) ELSE failures
  /\ g' = NextGroup
  /\ UNCHANGED <<plan, apply, pc, k, known, found, t, last, spawned, restored, outcome,
                 envVars, receipt, pointer>>

Spawn ==
  /\ pc = "group" /\ g <= N /\ G.skip = "none"
  /\ spawned' = [spawned EXCEPT ![g] = @ + 1]
  /\ pc' = "collect"
  /\ found' = {} /\ t' = 0 /\ last' = -1
  /\ UNCHANGED <<plan, apply, g, k, known, status, restored, failures, outcome,
                 envVars, receipt, pointer>>

\* The windows one poll of reopen.collect adds: of this app, neither known nor found.
ArrivalsAnyApp == live \ (known \cup found)                             \* mutant
ArrivalsSurplus ==                                                      \* mutant
  {w \in live \ (Protected \cup {restored[s] : s \in Slot} \cup found) : appOf[w] = G.app}
Arrivals == {w \in live \ (known \cup found) : appOf[w] = G.app}

CompleteWhenQuiet(f, l) ==                                              \* mutant
  Cardinality(f) >= Len(G.slots) \/ (l # -1 /\ t - l >= Quiet)
Complete(f, l) ==
  \/ Cardinality(f) >= Len(G.slots)
  \/ t >= SpawnTimeout
  \/ l # -1 /\ t - l >= Quiet

Poll ==
  /\ pc = "collect"
  /\ found' = found \cup Arrivals
  /\ last' = IF Arrivals = {} THEN last ELSE t
  /\ IF Complete(found', last')
     THEN /\ pc' = "place" /\ k' = 1 /\ known' = known \cup found' /\ t' = t
     ELSE /\ t' \in (t + 1) .. SpawnTimeout
          /\ UNCHANGED <<pc, k, known>>
  /\ UNCHANGED <<plan, apply, g, spawned, status, restored, failures, outcome,
                 envVars, receipt, pointer>>

\* zip(slots, arrived): the next slot gets the oldest window left, wherever it is by now.
Place ==
  /\ pc = "place" /\ k <= Len(G.slots)
  /\ \E w \in found :
       /\ \A v \in found : w <= v
       /\ found' = found \ {w}
       /\ restored' = [restored EXCEPT ![G.slots[k]] = w]
  /\ status' = [status EXCEPT ![G.slots[k]] = "placed"]
  /\ k' = k + 1
  /\ UNCHANGED <<plan, apply, pc, g, known, t, last, spawned, failures, outcome,
                 envVars, receipt, pointer>>

\* The slots no window arrived for, counted one by one.
MissingOnce == IF k <= Len(G.slots) THEN 1 ELSE 0                       \* mutant
Missing == Len(G.slots) - k + 1

GroupDone ==
  /\ pc = "place" /\ (k > Len(G.slots) \/ found = {})
  /\ status' = [s \in Slot |->
       IF \E j \in k .. Len(G.slots) : G.slots[j] = s THEN "not-detected" ELSE status[s]]
  /\ failures' = failures + Missing
  /\ g' = NextGroup /\ pc' = "group"
  /\ UNCHANGED <<plan, apply, k, known, found, t, last, spawned, restored, outcome,
                 envVars, receipt, pointer>>

\* arrange_workspace on every workspace that got a window, names, focus.  Here only how the run
\* ends counts: where the columns go, those of windows open before included, is module Arrange.
Arrange ==
  /\ pc = "group" /\ g > N
  /\ outcome' = IF failures = 0 THEN "reopened" ELSE "reopened-partially"
  /\ pc' = "finish"
  /\ UNCHANGED <<plan, apply, g, k, known, found, t, last, spawned, status, restored, failures,
                 envVars, receipt, pointer>>

\* A niri call of the run raises, with its effect done or not: `except Exception` in _run.
Interrupted ==
  /\ pc' = "finish" /\ outcome' = "interrupted"
  /\ UNCHANGED <<plan, apply, g, k, known, found, t, last, status, failures,
                 envVars, receipt, pointer>>

SpawnFails ==
  /\ pc = "group" /\ g <= N /\ G.skip = "none"
  /\ \/ spawned' = spawned
     \/ spawned' = [spawned EXCEPT ![g] = @ + 1]
  /\ Interrupted /\ UNCHANGED restored

CollectFails ==
  /\ pc = "collect"
  /\ Interrupted /\ UNCHANGED <<spawned, restored>>

PlaceFails ==
  /\ pc = "place" /\ k <= Len(G.slots)
  /\ \E w \in found :
       /\ \A v \in found : w <= v
       /\ restored' = [restored EXCEPT ![G.slots[k]] = w]
  /\ Interrupted /\ UNCHANGED spawned

ArrangeFails ==
  /\ pc = "group" /\ g > N
  /\ Interrupted /\ UNCHANGED <<spawned, restored>>

\* The outcomes after which last-reopened names this snapshot.
Points == {"reopened", "reopened-partially"}

\* reopen.finish: default statuses, the receipt, then the last-reopened pointer.
StoreReceipt ==
  /\ pc = "finish"
  /\ status' = [s \in Slot |-> IF status[s] # "none" THEN status[s]
                               ELSE IF apply THEN "not-attempted" ELSE "planned"]
  /\ receipt' = outcome
  /\ pc' = IF outcome \in Points THEN "point" ELSE "done"
  /\ UNCHANGED <<plan, apply, g, k, known, found, t, last, spawned, restored, failures,
                 outcome, envVars, pointer>>

SetPointer ==
  /\ pc = "point" /\ pc' = "done" /\ pointer' = TRUE
  /\ UNCHANGED <<plan, apply, runVars, envVars, receipt>>

Ended == {"refused", "done", "crashed"}

Crash ==
  /\ pc \notin Ended /\ pc' = "crashed"
  /\ UNCHANGED <<plan, apply, runVars, envVars, receipt, pointer>>

-----------------------------------------------------------------------------
(* The desktop around it, while the run still reads or moves windows. *)

Busy == pc \in {"group", "collect", "place"} /\ g <= N

Opens(a, i, stray) ==
  /\ opened < MaxWindow /\ Busy
  /\ opened' = opened + 1
  /\ live' = live \cup {opened + 1}
  /\ appOf' = [appOf EXCEPT ![opened + 1] = a]
  /\ opener' = [opener EXCEPT ![opened + 1] = i]
  /\ strays' = IF stray THEN strays \cup {opened + 1} ELSE strays
  /\ UNCHANGED <<plan, apply, pc, runVars, receipt, pointer>>

\* A launched app opens one of its windows, in time or after its group was given up.
AppOpens ==
  \E i \in 1 .. N :
    /\ spawned[i] > 0
    /\ Opens(plan.groups[i].app, i, ~(pc = "collect" /\ i = g))

UserOpens == \E a \in App : Opens(a, 0, TRUE)

Closes ==
  /\ Busy
  /\ \E w \in live : live' = live \ {w}
  /\ UNCHANGED <<plan, apply, pc, runVars, opened, appOf, opener, strays, receipt, pointer>>

Finished == pc \in Ended /\ UNCHANGED vars

Run == \/ Refuse \/ Admit \/ DryRun \/ SkipGroup \/ Spawn \/ Poll \/ Place \/ GroupDone
       \/ Arrange \/ StoreReceipt \/ SetPointer

Fails == SpawnFails \/ CollectFails \/ PlaceFails \/ ArrangeFails \/ Crash

Desktop == AppOpens \/ UserOpens \/ Closes

Next == Run \/ Fails \/ Desktop \/ Finished

Spec == Init /\ [][Next]_vars

\* The run is one thread that the kernel keeps scheduling; no failure, window or user is owed.
FairSpec == Spec /\ WF_vars(Run)
-----------------------------------------------------------------------------
TypeOK ==
  /\ apply \in BOOLEAN
  /\ pc \in {"start", "group", "collect", "place", "finish", "point"} \cup Ended
  /\ g \in 1 .. N + 1 /\ k \in Nat \ {0}
  /\ pc \in {"collect", "place"} => g <= N
  /\ opened \in 0 .. MaxWindow /\ live \subseteq 1 .. opened
  /\ appOf \in [1 .. MaxWindow -> App \cup {NoApp}]
  /\ opener \in [1 .. MaxWindow -> 0 .. N]
  /\ strays \subseteq 1 .. opened
  /\ known \subseteq 1 .. opened /\ found \subseteq 1 .. opened
  /\ t \in 0 .. SpawnTimeout /\ last \in -1 .. SpawnTimeout
  /\ spawned \in [1 .. N -> Nat]
  /\ status \in [Slot -> Status]
  /\ restored \in [Slot -> 0 .. opened]
  /\ failures \in Int
  /\ outcome \in Outcome /\ receipt \in Outcome /\ pointer \in BOOLEAN

\* README "Guarantees": each saved application instance is launched at most once, a skipped
\* group never, whatever windows are late, missing or closed again, and only by --apply.
LaunchedAtMostOnce ==
  \A i \in 1 .. N : /\ spawned[i] <= 1
                    /\ spawned[i] > 0 => apply /\ plan.groups[i].skip = "none"

\* reopen.collect and _run: an adopted window is new, has the app id of its slot's group,
\* and is adopted for one slot only.
AdoptsOnlyNewWindowsOfTheApp ==
  /\ \A s \in Slot : restored[s] # 0 =>
       /\ restored[s] \notin Protected
       /\ \E i \in 1 .. N : s \in SlotsOf(i) /\ appOf[restored[s]] = plan.groups[i].app
  /\ \A s, r \in Slot : restored[s] # 0 /\ restored[s] = restored[r] => s = r

\* docs/usage.md "Save and reopen", 2: only a window that opened outside its own group's wait
\* can be adopted for another group; surplus windows of an earlier group never are.
MisadoptsOnlyStrays ==
  \A s \in Slot : restored[s] # 0 =>
    \/ restored[s] \in strays
    \/ \E i \in 1 .. N : s \in SlotsOf(i) /\ opener[restored[s]] = i

Unreported == {s \in Slot : restored[s] # 0 /\ status[s] # "placed"}

\* reopen._run and finish: every saved window has its line in a receipt; what it reports as
\* placed has a window; `reopened` is reported exactly when every saved window is back or was
\* open, and the failure count is the number of windows reported as missing.  Only an
\* interrupted run leaves an adopted window unreported, and one at most: the one it was moving.
ReceiptMatchesWindows ==
  /\ receipt # "none" => \A s \in Slot : status[s] # "none"
  /\ \A s \in Slot : status[s] = "placed" => restored[s] # 0
  /\ receipt # "none" => \A s, r \in Unreported : s = r /\ receipt = "interrupted"
  /\ receipt \in {"reopened", "reopened-partially"} =>
    /\ receipt = "reopened" <=>
         \A s \in Slot : status[s] \in {"placed", "already-open", "already-running"}
    /\ failures = Cardinality({s \in Slot : status[s] \in Failed})

\* reopen.collect bounds every wait: an admitted run ends with a receipt unless it dies.
RunEnds == <>(pc \in Ended)
=============================================================================
