---------------------------- MODULE SnapshotStore ----------------------------
(***************************************************************************)
(* The saved desktops of one state root: snapshot files, the pointers that *)
(* name them, the receipts that mention them, and the commands that work   *)
(* on them without any lock: `capture [--keep-days]` and `restore`.  Each  *)
(* file operation is a step, and a process may die between any two.        *)
(*                                                                         *)
(* Snapshots are numbered in the order they were observed; a capture holds *)
(* its time, so no two have the same digest.                               *)
(***************************************************************************)
EXTENDS Integers, FiniteSets

CONSTANTS
  Proc,      \* command processes
  MaxSnap,   \* BOUND: captures ever taken
  MaxDay,    \* BOUND: days that pass
  KeepDays,  \* --keep-days
  Overnight  \* BOUND: whether a capture may still be running when the day changes

ASSUME StoreAssumption ==
  /\ MaxSnap \in Nat /\ MaxDay \in Nat /\ KeepDays \in Nat \ {0} /\ Overnight \in BOOLEAN

Pointers == {"latest-observed", "last-display-valid", "last-reopened"}

VARIABLES
  today,     \* the calendar day
  taken,     \* captures taken so far
  ready,     \* those that are display-valid
  day,       \* day each snapshot file was created on, 0: never
  files,     \* snapshot files that exist
  pointer,   \* snapshot each pointer names, 0: none
  receipts,  \* snapshots named by stored receipts
  overlapped, \* history: two commands have run at the same time
  pc,        \* where each process is
  key,       \* the snapshot it works with
  target,    \* the pointer it is setting
  victims    \* the snapshots its pruning will delete

local == <<pc, key, target, victims>>
vars == <<today, taken, ready, day, files, pointer, receipts, overlapped, local>>

Snap == 1 .. MaxSnap

Init ==
  /\ today = 1 /\ taken = 0 /\ ready = {}
  /\ day = [s \in Snap |-> 0] /\ files = {}
  /\ pointer = [n \in Pointers |-> 0] /\ receipts = {} /\ overlapped = FALSE
  /\ pc = [p \in Proc |-> "idle"] /\ key = [p \in Proc |-> 0]
  /\ target = [p \in Proc |-> "latest-observed"] /\ victims = [p \in Proc |-> {}]

\* The pointer reopen.finish sets.
FinishPointer == "last-reopened"

Goto(p, l) == pc' = [pc EXCEPT ![p] = l]

\* The command's process is gone, and what it remembered with it.
Ends(p) ==
  /\ Goto(p, "idle") /\ key' = [key EXCEPT ![p] = 0]
  /\ target' = [target EXCEPT ![p] = "latest-observed"] /\ victims' = [victims EXCEPT ![p] = {}]

Starts(p) ==
  /\ pc[p] = "idle"
  /\ overlapped' = (overlapped \/ \E q \in Proc : pc[q] # "idle")
-----------------------------------------------------------------------------
(* capture: save_snapshot, then prune_snapshots when asked to. *)

Observe(p) ==
  /\ Starts(p) /\ taken < MaxSnap
  /\ taken' = taken + 1
  /\ \E valid \in BOOLEAN : ready' = IF valid THEN ready \cup {taken'} ELSE ready
  /\ key' = [key EXCEPT ![p] = taken'] /\ Goto(p, "put")
  /\ UNCHANGED <<today, day, files, pointer, receipts, target, victims>>

Put(p) ==
  /\ pc[p] = "put"
  /\ files' = files \cup {key[p]} /\ day' = [day EXCEPT ![key[p]] = today]
  /\ target' = [target EXCEPT ![p] = "latest-observed"] /\ Goto(p, "check")
  /\ UNCHANGED <<today, taken, ready, pointer, receipts, overlapped, key, victims>>

\* Store.pointer: the snapshot must load; when it does not, the command fails here.
Loads(p) == key[p] \in files

CheckPointer(p) ==
  /\ pc[p] = "check"
  /\ IF Loads(p) THEN Goto(p, "replace") /\ UNCHANGED <<key, target, victims>> ELSE Ends(p)
  /\ UNCHANGED <<today, taken, ready, day, files, pointer, receipts, overlapped>>

\* save_snapshot sets latest-observed, then last-display-valid if the snapshot is ready.
NextTarget(p) ==
  IF target[p] = "latest-observed" /\ key[p] \in ready THEN "last-display-valid" ELSE target[p]

ReplacePointer(p) ==
  /\ pc[p] = "replace"
  /\ pointer' = [pointer EXCEPT ![target[p]] = key[p]]
  /\ \/ /\ NextTarget(p) # target[p] /\ Goto(p, "check")
        /\ target' = [target EXCEPT ![p] = NextTarget(p)] /\ UNCHANGED <<key, victims>>
     \/ /\ NextTarget(p) = target[p] /\ target[p] # "last-reopened" /\ Goto(p, "list")
        /\ UNCHANGED <<key, target, victims>>
     \/ NextTarget(p) = target[p] /\ Ends(p)
  /\ UNCHANGED <<today, taken, ready, day, files, receipts, overlapped>>

\* prune_snapshots lists the files and keeps the KeepDays most recent days that have any.
Recent(days) == {d \in days : Cardinality({e \in days : e > d}) < KeepDays}

CalendarDays == {d \in 1 .. today : d > today - KeepDays}                  \* mutant
KeptDays == Recent({day[s] : s \in files})

ListDays(p) ==
  /\ pc[p] = "list"
  /\ victims' = [victims EXCEPT ![p] = {s \in files : day[s] \notin KeptDays}]
  /\ Goto(p, "scan")
  /\ UNCHANGED <<today, taken, ready, day, files, pointer, receipts, overlapped, key, target>>

\* Then it reads every other file of the state root, and the restore history, for digests.
ReceiptsOnly == receipts                                                   \* mutant
Referenced == {pointer[n] : n \in Pointers} \cup receipts

ScanReferences(p) ==
  /\ pc[p] = "scan"
  /\ victims' = [victims EXCEPT ![p] = @ \ Referenced]
  /\ Goto(p, "unlink")
  /\ UNCHANGED <<today, taken, ready, day, files, pointer, receipts, overlapped, key, target>>

\* unlink raises when another process deleted the file first.
Unlink(p) ==
  /\ pc[p] = "unlink"
  /\ \/ victims[p] = {} /\ Ends(p) /\ UNCHANGED files
     \/ victims[p] \ files # {} /\ Ends(p) /\ UNCHANGED files
     \/ \E s \in victims[p] \cap files :
          /\ files' = files \ {s} /\ victims' = [victims EXCEPT ![p] = @ \ {s}]
          /\ UNCHANGED <<pc, key, target>>
  /\ UNCHANGED <<today, taken, ready, day, pointer, receipts, overlapped>>
-----------------------------------------------------------------------------
(* restore: the snapshot is read once, the desktop reopened, then reopen.finish. *)

Select(p) ==
  /\ Starts(p)
  /\ \E s \in files : key' = [key EXCEPT ![p] = s]
  /\ Goto(p, "reopening")
  /\ UNCHANGED <<today, taken, ready, day, files, pointer, receipts, target, victims>>

\* put("receipts", ...); the pointer follows unless the run was dry or interrupted.
Receipt(p) ==
  /\ pc[p] = "reopening"
  /\ receipts' = receipts \cup {key[p]}
  /\ \/ Ends(p)
     \/ /\ Goto(p, "check") /\ target' = [target EXCEPT ![p] = FinishPointer]
        /\ UNCHANGED <<key, victims>>
  /\ UNCHANGED <<today, taken, ready, day, files, pointer, overlapped>>
-----------------------------------------------------------------------------
\* The process is killed; files stay as they are.
Crash(p) ==
  /\ pc[p] # "idle" /\ Ends(p)
  /\ UNCHANGED <<today, taken, ready, day, files, pointer, receipts, overlapped>>

Tick ==
  /\ today < MaxDay /\ today' = today + 1
  /\ Overnight \/ \A p \in Proc : pc[p] \in {"idle", "reopening"}
  /\ UNCHANGED <<taken, ready, day, files, pointer, receipts, overlapped, local>>

Capture(p) == \/ Observe(p) \/ Put(p) \/ CheckPointer(p) \/ ReplacePointer(p)
              \/ ListDays(p) \/ ScanReferences(p) \/ Unlink(p)

Restore(p) == Select(p) \/ Receipt(p)

Next == Tick \/ \E p \in Proc : Capture(p) \/ Restore(p) \/ Crash(p)

Spec == Init /\ [][Next]_vars
-----------------------------------------------------------------------------
\* prune_snapshots' docstring: "A snapshot whose digest appears in a pointer, in any other
\* file of this state root [...] is never deleted."
NeverDeletesReferenced ==
  [][\A s \in files \ files' : s \notin receipts /\ \A n \in Pointers : pointer[n] # s]_vars

\* What the docstring is for: as long as no two commands overlapped, every pointer and every
\* receipt names a snapshot that loads, whatever was killed where.  save_snapshot besides: a
\* crash between its two pointers leaves last-display-valid behind, never ahead of
\* latest-observed, and it never names an unready snapshot.
ReferencesResolve ==
  /\ pointer["last-display-valid"] \in ready \cup {0}
  /\ ~overlapped =>
       /\ receipts \subseteq files /\ \A n \in Pointers : pointer[n] \in files \cup {0}
       /\ pointer["last-display-valid"] <= pointer["latest-observed"]

\* Same docstring: the KeepDays most recent days that have captures lose none, so pruning
\* never empties the store, whatever other processes delete or a crash leaves undone.
RecentDaysKept ==
  \A s \in Snap : day[s] \in Recent({day[r] : r \in {q \in Snap : day[q] # 0}}) => s \in files
=============================================================================
