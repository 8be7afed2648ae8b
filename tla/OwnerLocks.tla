----------------------------- MODULE OwnerLocks -----------------------------
(***************************************************************************)
(* The locks of the reconstruction commands, in their order: the owner     *)
(* anchor, the ledger of the active profile (resolution_lock.owner_guard)  *)
(* and the compositor (operation_lock.operation_lock).                     *)
(*                                                                         *)
(* All are flocks taken without waiting.  A flock belongs to an open file, *)
(* not to a name: the two owner locks compare the file they locked with    *)
(* the one the name shows, after locking and before leaving, because a     *)
(* file may be removed or its directory replaced at any time; the          *)
(* compositor's lock is handed to a worker that may outlive its command.   *)
(* A file is its inode, a number never used again while it is held;        *)
(* 0 stands for a name without a file.                                     *)
(***************************************************************************)
EXTENDS Integers, FiniteSets

CONSTANTS
  Commands,      \* processes, each running one command
  Roots,         \* ledger roots a profile may name
  Compositors,   \* compositor instances
  Nobody,        \* holder of a free lock
  MaxInodes      \* bound: files ever made

ASSUME NobodyAssumption == Nobody \notin Commands
ASSUME InodeAssumption == MaxInodes \in Nat

VARIABLES
  pc,          \* place of a command
  anchor,      \* file under the anchor's lock name
  ledger,      \* file under each ledger's lock name
  root,        \* directory under each ledger root
  profile,     \* ledger root the profile names
  inodes,      \* files made so far
  held,        \* held[i]: command whose open file has the flock of inode i
  mine,        \* what a command opened and pinned: [anchor, root, dir, ledger]
  lock,        \* holder of each compositor's lock
  fenced,      \* compositors with a record of the retired engine
  target,      \* compositor a command acts on
  workers,     \* commands whose worker runs and has a copy of the lock
  ousted,      \* commands whose lock file was taken away once they had it: [anchor, ledger]
  met          \* commands that were inside together with a command
ownerVars == <<anchor, ledger, root, profile, inodes>>
heldVars == <<held, mine>>
compositorVars == <<lock, fenced, target, workers>>
historyVars == <<ousted, met>>
vars == <<pc, anchor, ledger, root, profile, inodes, held, mine,
          lock, fenced, target, workers, ousted, met>>

Inodes == 1 .. MaxInodes
Closed == [anchor |-> 0, root |-> CHOOSE r \in Roots : TRUE, dir |-> 0, ledger |-> 0]

Inside(c) == pc[c] \in {"inside", "acting", "leaving"}
HasAnchor(c) == Inside(c) \/ pc[c] \in {"profile", "ledgerOpen", "ledgerLocked"}
HasLedger(c) == pc[c] \in {"inside", "acting"}

Becomes(c, place) == pc' = [pc EXCEPT ![c] = place]

\* Closing the command's descriptors frees the flocks of its open files.
Without(c, i) == [held EXCEPT ![i] = IF @ = c THEN Nobody ELSE @]
Freed(c) == [i \in Inodes |-> IF held[i] = c THEN Nobody ELSE held[i]]

AlwaysFrees(c) == [k \in Compositors |-> IF lock[k] = c THEN Nobody ELSE lock[k]]  \* mutant

\* The compositor's flock is free when no copy of the descriptor is left.
Unlocked(c) == [k \in Compositors |-> IF lock[k] = c /\ c \notin workers THEN Nobody ELSE lock[k]]

End(c, place) ==
  /\ Becomes(c, place)
  /\ held' = Freed(c)
  /\ lock' = Unlocked(c)
  /\ UNCHANGED <<ownerVars, mine, fenced, target, workers, ousted, met>>
-----------------------------------------------------------------------------
(* resolution_lock.mutex on the anchor, then on the ledger.                *)

\* open(O_CREAT): the file the name shows, or a new one.
OpenAnchor(c) ==
  /\ pc[c] = "idle"
  /\ \/ anchor # 0 /\ UNCHANGED <<anchor, inodes>>
     \/ anchor = 0 /\ inodes < MaxInodes /\ anchor' = inodes + 1 /\ inodes' = inodes + 1
  /\ mine' = [mine EXCEPT ![c].anchor = anchor']
  /\ Becomes(c, "anchorOpen")
  /\ UNCHANGED <<ledger, root, profile, held, compositorVars, historyVars>>

LockAnchor(c) ==
  /\ pc[c] = "anchorOpen"
  /\ held[mine[c].anchor] = Nobody
  /\ held' = [held EXCEPT ![mine[c].anchor] = c]
  /\ Becomes(c, "anchorLocked")
  /\ UNCHANGED <<ownerVars, mine, compositorVars, historyVars>>

Unchecked(c) == TRUE                                                       \* mutant

\* The locked file is the one the name shows now.
AnchorStands(c) == mine[c].anchor = anchor

LedgerStands(c) == mine[c].ledger = ledger[mine[c].root]

\* check_root
RootStands(c) == mine[c].dir = root[mine[c].root]

\* identify_profile and root_pin, under the anchor.
ReadProfile(c) ==
  /\ pc[c] = "anchorLocked" /\ AnchorStands(c)
  /\ mine' = [mine EXCEPT ![c] =
              [anchor |-> mine[c].anchor, root |-> profile, dir |-> root[profile], ledger |-> 0]]
  /\ Becomes(c, "profile")
  /\ UNCHANGED <<ownerVars, held, compositorVars, historyVars>>

OpenLedger(c) ==
  /\ pc[c] = "profile"
  /\ LET r == mine[c].root
     IN  /\ \/ ledger[r] # 0 /\ UNCHANGED <<ledger, inodes>>
            \/ /\ ledger[r] = 0 /\ inodes < MaxInodes
               /\ ledger' = [ledger EXCEPT ![r] = inodes + 1] /\ inodes' = inodes + 1
         /\ mine' = [mine EXCEPT ![c].ledger = ledger'[r]]
  /\ Becomes(c, "ledgerOpen")
  /\ UNCHANGED <<anchor, root, profile, held, compositorVars, historyVars>>

LockLedger(c) ==
  /\ pc[c] = "ledgerOpen"
  /\ held[mine[c].ledger] = Nobody
  /\ held' = [held EXCEPT ![mine[c].ledger] = c]
  /\ Becomes(c, "ledgerLocked")
  /\ UNCHANGED <<ownerVars, mine, compositorVars, historyVars>>

\* Both locks and the root as pinned: the command begins.
Enter(c) ==
  /\ pc[c] = "ledgerLocked" /\ LedgerStands(c) /\ RootStands(c)
  /\ Becomes(c, "inside")
  /\ met' = [d \in Commands |->
               IF d = c THEN met[c] \cup {e \in Commands \ {c} : Inside(e)}
               ELSE IF Inside(d) THEN met[d] \cup {c} ELSE met[d]]
  /\ UNCHANGED <<ownerVars, heldVars, compositorVars, ousted>>

\* A command that meets a lock, or another file under a name, ends there.
Refuse(c) ==
  /\ \/ pc[c] = "anchorOpen" /\ held[mine[c].anchor] # Nobody
     \/ pc[c] = "anchorLocked" /\ ~AnchorStands(c)
     \/ pc[c] = "ledgerOpen" /\ held[mine[c].ledger] # Nobody
     \/ pc[c] = "ledgerLocked" /\ ~(LedgerStands(c) /\ RootStands(c))
  /\ End(c, "refused")

\* A nested command takes no lock and only asks whether the root still stands.
NestedRefused(c) ==
  /\ pc[c] = "inside" /\ ~RootStands(c)
  /\ End(c, "refused")

\* check_root and the ledger's second comparison, with the ledger closed behind them.
LeaveLedger(c) ==
  /\ pc[c] = "inside" /\ RootStands(c) /\ LedgerStands(c)
  /\ held' = Without(c, mine[c].ledger)
  /\ Becomes(c, "leaving")
  /\ UNCHANGED <<ownerVars, mine, compositorVars, historyVars>>

LeaveFails(c) ==
  /\ \/ pc[c] = "inside" /\ ~(RootStands(c) /\ LedgerStands(c))
     \/ pc[c] = "leaving" /\ ~AnchorStands(c)
  /\ End(c, "refused")

LeaveBlindly(c) == pc[c] = "leaving" /\ End(c, "done")                     \* mutant

LeaveAnchor(c) ==
  /\ pc[c] = "leaving" /\ AnchorStands(c)
  /\ End(c, "done")
-----------------------------------------------------------------------------
(* operation_lock.operation_lock, for a command inside the owner locks     *)
(* or, as restore and reconcile run, with no other lock at all.            *)

Lock(c, effectful) ==
  /\ pc[c] \in {"idle", "inside"}
  /\ lock[target[c]] = Nobody /\ (effectful => target[c] \notin fenced)
  /\ lock' = [lock EXCEPT ![target[c]] = c]
  /\ Becomes(c, IF pc[c] = "idle" THEN "alone" ELSE "acting")
  /\ UNCHANGED <<ownerVars, heldVars, fenced, target, workers, historyVars>>

\* Another holder, or the fence: the command ends.
Excluded(c, effectful) ==
  /\ pc[c] \in {"idle", "inside"}
  /\ lock[target[c]] # Nobody \/ (effectful /\ target[c] \in fenced)
  /\ End(c, "refused")

\* Only an effect worker inherits the descriptor.
StartWorker(c) ==
  /\ pc[c] = "acting" /\ c \notin workers
  /\ workers' = workers \cup {c}
  /\ UNCHANGED <<pc, ownerVars, heldVars, lock, fenced, target, historyVars>>

\* The command closes its descriptor; its worker's copy keeps the lock.
Unlock(c) ==
  /\ pc[c] \in {"alone", "acting"}
  /\ lock' = Unlocked(c)
  /\ Becomes(c, IF pc[c] = "alone" THEN "done" ELSE "inside")
  /\ UNCHANGED <<ownerVars, heldVars, fenced, target, workers, historyVars>>
-----------------------------------------------------------------------------
(* What happens around the commands.                                       *)

\* A command dies anywhere: the kernel closes its descriptors.
Dies(c) ==
  /\ pc[c] \notin {"idle", "refused", "done", "dead"}
  /\ End(c, "dead")

WorkerExits(c) ==
  /\ c \in workers
  /\ workers' = workers \ {c}
  /\ lock' = [k \in Compositors |->
                IF lock[k] = c /\ pc[c] \notin {"alone", "acting"} THEN Nobody ELSE lock[k]]
  /\ UNCHANGED <<pc, ownerVars, heldVars, fenced, target, historyVars>>

HoldersOfAnchor == {c \in Commands : HasAnchor(c) /\ mine[c].anchor = anchor}
HoldersOf(r) == {c \in Commands : HasLedger(c) /\ mine[c].root = r /\ mine[c].ledger = ledger[r]}

\* Somebody removes a lock file; the next command makes another.
AnchorRemoved ==
  /\ anchor # 0
  /\ anchor' = 0
  /\ ousted' = [ousted EXCEPT !.anchor = @ \cup HoldersOfAnchor]
  /\ UNCHANGED <<pc, ledger, root, profile, inodes, heldVars, compositorVars, met>>

LedgerRemoved(r) ==
  /\ ledger[r] # 0
  /\ ledger' = [ledger EXCEPT ![r] = 0]
  /\ ousted' = [ousted EXCEPT !.ledger = @ \cup HoldersOf(r)]
  /\ UNCHANGED <<pc, anchor, root, profile, inodes, heldVars, compositorVars, met>>

\* Somebody puts another directory in the place of a ledger root.
RootReplaced(r) ==
  /\ inodes < MaxInodes
  /\ root' = [root EXCEPT ![r] = inodes + 1] /\ inodes' = inodes + 1
  /\ ledger' = [ledger EXCEPT ![r] = 0]
  /\ ousted' = [ousted EXCEPT !.ledger = @ \cup HoldersOf(r)]
  /\ UNCHANGED <<pc, anchor, profile, heldVars, compositorVars, met>>

\* The owner provisions a profile with another ledger root, also while commands run.
OwnerEdits ==
  /\ profile' \in Roots \ {profile}
  /\ UNCHANGED <<pc, anchor, ledger, root, inodes, heldVars, compositorVars, historyVars>>

World ==
  \/ AnchorRemoved \/ OwnerEdits
  \/ \E r \in Roots : LedgerRemoved(r) \/ RootReplaced(r)
-----------------------------------------------------------------------------
Init ==
  /\ pc = [c \in Commands |-> "idle"]
  /\ anchor = 0 /\ ledger = [r \in Roots |-> 0] /\ root = [r \in Roots |-> 0]
  /\ profile \in Roots
  /\ inodes = 0
  /\ held = [i \in Inodes |-> Nobody]
  /\ mine = [c \in Commands |-> Closed]
  /\ lock = [k \in Compositors |-> Nobody]
  /\ fenced \in SUBSET Compositors
  /\ target \in [Commands -> Compositors]
  /\ workers = {}
  /\ ousted = [anchor |-> {}, ledger |-> {}]
  /\ met = [c \in Commands |-> {}]

Command(c) ==
  \/ OpenAnchor(c) \/ LockAnchor(c) \/ ReadProfile(c)
  \/ OpenLedger(c) \/ LockLedger(c) \/ Enter(c)
  \/ Refuse(c) \/ NestedRefused(c)
  \/ LeaveLedger(c) \/ LeaveFails(c) \/ LeaveAnchor(c)
  \/ \E effectful \in BOOLEAN : Lock(c, effectful) \/ Excluded(c, effectful)
  \/ StartWorker(c) \/ Unlock(c) \/ Dies(c) \/ WorkerExits(c)

Next == World \/ \E c \in Commands : Command(c)

Spec == Init /\ [][Next]_vars
-----------------------------------------------------------------------------
Places == {"idle", "anchorOpen", "anchorLocked", "profile", "ledgerOpen", "ledgerLocked",
           "inside", "acting", "leaving", "alone", "refused", "done", "dead"}

Files == 0 .. MaxInodes

TypeOK ==
  /\ pc \in [Commands -> Places]
  /\ inodes \in Files /\ anchor \in Files
  /\ ledger \in [Roots -> Files] /\ root \in [Roots -> Files] /\ profile \in Roots
  /\ held \in [Inodes -> Commands \cup {Nobody}]
  /\ mine \in [Commands -> [anchor : Files, root : Roots, dir : Files, ledger : Files]]
  /\ lock \in [Compositors -> Commands \cup {Nobody}]
  /\ fenced \subseteq Compositors /\ target \in [Commands -> Compositors]
  /\ workers \subseteq Commands
  /\ ousted \in [anchor : SUBSET Commands, ledger : SUBSET Commands]
  /\ met \in [Commands -> SUBSET Commands]

\* resolution_lock.owner_guard: two commands are inside at once only if somebody took the
\* anchor's lock file away from one of them after it had passed its check, and on one ledger
\* only if that ledger's file went the same way.
AloneUnlessOusted ==
  \A c, d \in Commands :
    c # d /\ Inside(c) /\ Inside(d) =>
      /\ c \in ousted.anchor \/ d \in ousted.anchor
      /\ HasLedger(c) /\ HasLedger(d) /\ mine[c].root = mine[d].root =>
           c \in ousted.ledger \/ d \in ousted.ledger

\* resolution_lock.mutex: of two commands that were inside together at most one ends well;
\* the other learns before it reports that it was not alone.
OverlapIsNoticed ==
  \A c, d \in Commands : d \in met[c] => ~(pc[c] = "done" /\ pc[d] = "done")

Acts(c, k) == target[c] = k /\ (pc[c] \in {"alone", "acting"} \/ c \in workers)

\* operation_lock: one command, with its worker, acts on a compositor; nobody else does until
\* both are gone, whoever of the two goes first and however.
OneActorPerCompositor ==
  \A c, d \in Commands, k \in Compositors : Acts(c, k) /\ Acts(d, k) => c = d
=============================================================================
