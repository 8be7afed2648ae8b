-------------------------- MODULE OwnerLocksProofs --------------------------
(***************************************************************************)
(* For any commands, ledger roots, compositors and number of files: who is *)
(* inside the owner locks with somebody else was ousted, of two that met   *)
(* one does not end well, and one command acts on a compositor.            *)
(*                                                                         *)
(* The three statements are not inductive.  What they rest on: an inode    *)
(* that was an anchor is never a ledger (Apart), a command past its check  *)
(* has the flock of the file it opened, and that file is the one the name  *)
(* shows unless the command was ousted (AnchorKept, LedgerKept); once      *)
(* ousted, no later file is the command's again.                           *)
(***************************************************************************)
EXTENDS OwnerLocks, TLAPS

\* Every file in use was made, and none is both an anchor and a ledger.
Apart ==
  /\ anchor <= inodes
  /\ \A r \in Roots : ledger[r] <= inodes /\ (anchor # 0 => anchor # ledger[r])
  /\ \A c \in Commands :
       /\ mine[c].anchor <= inodes /\ mine[c].ledger <= inodes
       /\ anchor # 0 => anchor # mine[c].ledger
       /\ mine[c].anchor # 0 =>
            /\ \A r \in Roots : mine[c].anchor # ledger[r]
            /\ \A d \in Commands : mine[c].anchor # mine[d].ledger

AnchorKept ==
  /\ \A c \in Commands :
       /\ pc[c] \in {"anchorOpen", "anchorLocked"} \/ HasAnchor(c) => mine[c].anchor # 0
       /\ pc[c] = "anchorLocked" \/ HasAnchor(c) => held[mine[c].anchor] = c
       /\ HasAnchor(c) /\ c \notin ousted.anchor => mine[c].anchor = anchor
  /\ \A c \in ousted.anchor :
       /\ mine[c].anchor # anchor /\ mine[c].anchor # 0
       /\ HasAnchor(c) \/ pc[c] \in {"refused", "dead"}

LedgerKept ==
  \A c \in Commands :
    /\ pc[c] \in {"ledgerOpen", "ledgerLocked"} \/ HasLedger(c) => mine[c].ledger # 0
    /\ pc[c] = "ledgerLocked" \/ HasLedger(c) => held[mine[c].ledger] = c
    /\ HasLedger(c) /\ c \notin ousted.ledger => mine[c].ledger = ledger[mine[c].root]

\* Of two that met, one of the two was ousted.
MetIsOusted ==
  \A c, d \in Commands : d \in met[c] => c \in ousted.anchor \/ d \in ousted.anchor

ActorHolds ==
  \A c \in Commands :
    pc[c] \in {"alone", "acting"} \/ c \in workers => lock[target[c]] = c

IInv == TypeOK /\ Apart /\ AnchorKept /\ LedgerKept /\ MetIsOusted /\ ActorHolds
-----------------------------------------------------------------------------
\* The steps of a command that end it close its descriptors and change nothing else.
LEMMA EndsOnly ==
  ASSUME NEW c \in Commands, Refuse(c) \/ NestedRefused(c) \/ LeaveFails(c) \/ LeaveAnchor(c)
                              \/ Dies(c) \/ (\E effectful \in BOOLEAN : Excluded(c, effectful))
  PROVE  /\ \E place \in {"refused", "done", "dead"} :
              End(c, place) /\ (place = "done" => pc[c] = "leaving" /\ AnchorStands(c))
BY DEF Refuse, NestedRefused, LeaveFails, LeaveAnchor, Dies, Excluded

\* A step keeps the types.
LEMMA TypeStep ==
  ASSUME TypeOK, [Next]_vars
  PROVE  TypeOK'
<1> USE InodeAssumption, NobodyAssumption
        DEF TypeOK, Places, Inodes,
            ownerVars, heldVars, compositorVars, historyVars, Becomes
<1>1. ASSUME NEW c \in Commands, OpenAnchor(c) PROVE TypeOK'
  <2>1. anchor' \in Files /\ inodes' \in Files
    BY <1>1 DEF OpenAnchor, Files
  <2>2. mine' \in [Commands -> [anchor : Files, root : Roots, dir : Files, ledger : Files]]
    BY <1>1, <2>1, SMTT(30) DEF OpenAnchor
  <2>3. /\ pc' \in [Commands -> Places]
        /\ UNCHANGED <<ledger, root, profile, held, compositorVars, historyVars>>
    BY <1>1 DEF OpenAnchor
  <2> QED
    BY <2>1, <2>2, <2>3
<1>2. ASSUME NEW c \in Commands, LockAnchor(c) PROVE TypeOK'
  BY <1>2 DEF LockAnchor
<1>3. ASSUME NEW c \in Commands, ReadProfile(c) PROVE TypeOK'
  <2>1. mine' \in [Commands -> [anchor : Files, root : Roots, dir : Files, ledger : Files]]
    <3>1. /\ root[profile] \in Files /\ profile \in Roots /\ 0 \in Files
          /\ mine[c].anchor \in Files
      BY DEF Files
    <3> QED
      BY <1>3, <3>1 DEF ReadProfile
  <2>2. pc' \in [Commands -> Places] /\ UNCHANGED <<ownerVars, held, compositorVars, historyVars>>
    BY <1>3 DEF ReadProfile
  <2> QED
    BY <2>1, <2>2
<1>4. ASSUME NEW c \in Commands, OpenLedger(c) PROVE TypeOK'
  <2>1. mine[c].root \in Roots
    OBVIOUS
  <2>2. ledger' \in [Roots -> Files] /\ inodes' \in Files
    BY <1>4, <2>1 DEF OpenLedger, Files
  <2>3. mine' \in [Commands -> [anchor : Files, root : Roots, dir : Files, ledger : Files]]
    <3>1. ledger'[mine[c].root] \in Files
      BY <2>1, <2>2
    <3>2. mine' = [mine EXCEPT ![c].ledger = ledger'[mine[c].root]]
      BY <1>4 DEF OpenLedger
    <3> QED
      BY <3>1, <3>2, SMTT(30)
  <2>4. /\ pc' \in [Commands -> Places]
        /\ UNCHANGED <<anchor, root, profile, held, compositorVars, historyVars>>
    BY <1>4 DEF OpenLedger
  <2> QED
    BY <2>2, <2>3, <2>4
<1>5. ASSUME NEW c \in Commands, LockLedger(c) PROVE TypeOK'
  BY <1>5 DEF LockLedger
<1>6. ASSUME NEW c \in Commands, Enter(c) PROVE TypeOK'
  BY <1>6 DEF Enter, LedgerStands
<1>7. ASSUME NEW c \in Commands, LeaveLedger(c) PROVE TypeOK'
  BY <1>7 DEF LeaveLedger, Without
<1>8. ASSUME NEW c \in Commands, NEW place \in {"refused", "done", "dead"}, End(c, place),
              place = "done" => pc[c] = "leaving" /\ AnchorStands(c)
       PROVE  TypeOK'
  BY <1>8 DEF End, Freed, Unlocked
<1>9. ASSUME NEW c \in Commands, NEW effectful \in BOOLEAN, Lock(c, effectful) PROVE TypeOK'
  BY <1>9 DEF Lock
<1>10. ASSUME NEW c \in Commands, StartWorker(c) PROVE TypeOK'
  BY <1>10 DEF StartWorker
<1>11. ASSUME NEW c \in Commands, Unlock(c) PROVE TypeOK'
  BY <1>11 DEF Unlock, Unlocked
<1>12. ASSUME NEW c \in Commands, WorkerExits(c) PROVE TypeOK'
  BY <1>12 DEF WorkerExits
<1>13. CASE AnchorRemoved
  <2>1. HoldersOfAnchor \subseteq Commands
    BY DEF HoldersOfAnchor
  <2>2. ousted' \in [anchor : SUBSET Commands, ledger : SUBSET Commands]
    BY <1>13, <2>1 DEF AnchorRemoved
  <2>3. anchor' \in Files
    BY <1>13 DEF AnchorRemoved, Files
  <2>4. UNCHANGED <<pc, ledger, root, profile, inodes, heldVars, compositorVars, met>>
    BY <1>13 DEF AnchorRemoved
  <2> QED
    BY <2>2, <2>3, <2>4
<1>14. ASSUME NEW r \in Roots, LedgerRemoved(r) PROVE TypeOK'
  <2>1. HoldersOf(r) \subseteq Commands
    BY DEF HoldersOf
  <2>2. ousted' \in [anchor : SUBSET Commands, ledger : SUBSET Commands]
    BY <1>14, <2>1 DEF LedgerRemoved
  <2>3. ledger' \in [Roots -> Files]
    BY <1>14 DEF LedgerRemoved, Files
  <2>4. UNCHANGED <<pc, anchor, root, profile, inodes, heldVars, compositorVars, met>>
    BY <1>14 DEF LedgerRemoved
  <2> QED
    BY <2>2, <2>3, <2>4
<1>15. ASSUME NEW r \in Roots, RootReplaced(r) PROVE TypeOK'
  <2>1. HoldersOf(r) \subseteq Commands
    BY DEF HoldersOf
  <2>2. ousted' \in [anchor : SUBSET Commands, ledger : SUBSET Commands]
    BY <1>15, <2>1 DEF RootReplaced
  <2>3. root' \in [Roots -> Files] /\ ledger' \in [Roots -> Files] /\ inodes' \in Files
    BY <1>15 DEF RootReplaced, Files
  <2>4. UNCHANGED <<pc, anchor, profile, heldVars, compositorVars, met>>
    BY <1>15 DEF RootReplaced
  <2> QED
    BY <2>2, <2>3, <2>4
<1>16. CASE OwnerEdits
  BY <1>16 DEF OwnerEdits
<1>17. CASE UNCHANGED vars
  BY <1>17 DEF vars
<1> HIDE DEF TypeOK
<1> QED
  BY EndsOnly, <1>1, <1>2, <1>3, <1>4, <1>5, <1>6, <1>7, <1>8, <1>9, <1>10, <1>11, <1>12,
     <1>13, <1>14, <1>15, <1>16, <1>17
     DEF Next, World, Command

\* A new file is above all made before, so the two kinds stay apart.
LEMMA ApartStep ==
  ASSUME TypeOK, Apart, [Next]_vars
  PROVE  Apart'
<1> USE InodeAssumption, NobodyAssumption
        DEF TypeOK, Files, Apart,
            ownerVars, heldVars, compositorVars, historyVars, Becomes
<1>1. ASSUME NEW c \in Commands, OpenAnchor(c) PROVE Apart'
  BY <1>1 DEF OpenAnchor
<1>2. ASSUME NEW c \in Commands, LockAnchor(c) PROVE Apart'
  BY <1>2 DEF LockAnchor
<1>3. ASSUME NEW c \in Commands, ReadProfile(c) PROVE Apart'
  BY <1>3 DEF ReadProfile, AnchorStands
<1>4. ASSUME NEW c \in Commands, OpenLedger(c) PROVE Apart'
  BY <1>4, SMTT(30) DEF OpenLedger
<1>5. ASSUME NEW c \in Commands, LockLedger(c) PROVE Apart'
  BY <1>5 DEF LockLedger
<1>6. ASSUME NEW c \in Commands, Enter(c) PROVE Apart'
  BY <1>6 DEF Enter, LedgerStands
<1>7. ASSUME NEW c \in Commands, LeaveLedger(c) PROVE Apart'
  BY <1>7 DEF LeaveLedger, Without
<1>8. ASSUME NEW c \in Commands, NEW place \in {"refused", "done", "dead"}, End(c, place),
              place = "done" => pc[c] = "leaving" /\ AnchorStands(c)
       PROVE  Apart'
  BY <1>8 DEF End, Freed, Unlocked
<1>9. ASSUME NEW c \in Commands, NEW effectful \in BOOLEAN, Lock(c, effectful) PROVE Apart'
  BY <1>9 DEF Lock
<1>10. ASSUME NEW c \in Commands, StartWorker(c) PROVE Apart'
  BY <1>10 DEF StartWorker
<1>11. ASSUME NEW c \in Commands, Unlock(c) PROVE Apart'
  BY <1>11 DEF Unlock, Unlocked
<1>12. ASSUME NEW c \in Commands, WorkerExits(c) PROVE Apart'
  BY <1>12 DEF WorkerExits
<1>13. CASE AnchorRemoved
  BY <1>13 DEF AnchorRemoved, HoldersOfAnchor
<1>14. ASSUME NEW r \in Roots, LedgerRemoved(r) PROVE Apart'
  BY <1>14 DEF LedgerRemoved, HoldersOf
<1>15. ASSUME NEW r \in Roots, RootReplaced(r) PROVE Apart'
  BY <1>15 DEF RootReplaced, HoldersOf
<1>16. CASE OwnerEdits
  BY <1>16 DEF OwnerEdits
<1>17. CASE UNCHANGED vars
  BY <1>17 DEF vars
<1> HIDE DEF TypeOK, Apart
<1> QED
  BY EndsOnly, <1>1, <1>2, <1>3, <1>4, <1>5, <1>6, <1>7, <1>8, <1>9, <1>10, <1>11, <1>12,
     <1>13, <1>14, <1>15, <1>16, <1>17
     DEF Next, World, Command

\* Only the check lets a command past, and only its own end gives the flock back; a file taken
\* away takes its holders with it.
LEMMA AnchorStep ==
  ASSUME TypeOK, Apart, AnchorKept, LedgerKept, [Next]_vars
  PROVE  AnchorKept'
<1> USE InodeAssumption, NobodyAssumption
        DEF TypeOK, Files, Inodes, Apart, AnchorKept, LedgerKept, HasAnchor, HasLedger, Inside,
            ownerVars, heldVars, compositorVars, historyVars, Becomes
<1>1. ASSUME NEW c \in Commands, OpenAnchor(c) PROVE AnchorKept'
  BY <1>1, SMTT(30) DEF OpenAnchor
<1>2. ASSUME NEW c \in Commands, LockAnchor(c) PROVE AnchorKept'
  BY <1>2, SMTT(30) DEF LockAnchor
<1>3. ASSUME NEW c \in Commands, ReadProfile(c) PROVE AnchorKept'
  BY <1>3 DEF ReadProfile, AnchorStands
<1>4. ASSUME NEW c \in Commands, OpenLedger(c) PROVE AnchorKept'
  <2>1. \A d \in Commands : mine'[d].anchor = mine[d].anchor
    BY <1>4 DEF OpenLedger
  <2>2. UNCHANGED <<anchor, held, ousted>> /\ pc' = [pc EXCEPT ![c] = "ledgerOpen"] /\ pc[c] = "profile"
    BY <1>4 DEF OpenLedger
  <2> HIDE DEF Apart, LedgerKept
  <2> QED
    BY <2>1, <2>2
<1>5. ASSUME NEW c \in Commands, LockLedger(c) PROVE AnchorKept'
  BY <1>5 DEF LockLedger
<1>6. ASSUME NEW c \in Commands, Enter(c) PROVE AnchorKept'
  BY <1>6 DEF Enter, LedgerStands
<1>7. ASSUME NEW c \in Commands, LeaveLedger(c) PROVE AnchorKept'
  BY <1>7 DEF LeaveLedger, Without
<1>8. ASSUME NEW c \in Commands, NEW place \in {"refused", "done", "dead"}, End(c, place),
              place = "done" => pc[c] = "leaving" /\ AnchorStands(c)
       PROVE  AnchorKept'
  <2>1. UNCHANGED <<anchor, mine, ousted>> /\ pc' = [pc EXCEPT ![c] = place]
    BY <1>8 DEF End
  <2>2. \A d \in Commands : d # c /\ mine[d].anchor # 0 /\ held[mine[d].anchor] = d
                              => held'[mine[d].anchor] = d
    BY <1>8 DEF End, Freed
  <2>3. c \in ousted.anchor => place # "done"
    BY <1>8 DEF AnchorStands
  <2>4. pc'[c] = place /\ \A d \in Commands \ {c} : pc'[d] = pc[d]
    BY <2>1
  <2>5. ASSUME NEW d \in ousted.anchor PROVE HasAnchor(d)' \/ pc'[d] \in {"refused", "dead"}
    BY <2>3, <2>4
  <2> HIDE DEF Apart, LedgerKept
  <2> QED
    BY <2>1, <2>2, <2>4, <2>5, SMTT(30)
<1>9. ASSUME NEW c \in Commands, NEW effectful \in BOOLEAN, Lock(c, effectful) PROVE AnchorKept'
  BY <1>9 DEF Lock
<1>10. ASSUME NEW c \in Commands, StartWorker(c) PROVE AnchorKept'
  BY <1>10 DEF StartWorker
<1>11. ASSUME NEW c \in Commands, Unlock(c) PROVE AnchorKept'
  BY <1>11 DEF Unlock, Unlocked
<1>12. ASSUME NEW c \in Commands, WorkerExits(c) PROVE AnchorKept'
  BY <1>12 DEF WorkerExits
<1>13. CASE AnchorRemoved
  BY <1>13 DEF AnchorRemoved, HoldersOfAnchor
<1>14. ASSUME NEW r \in Roots, LedgerRemoved(r) PROVE AnchorKept'
  BY <1>14 DEF LedgerRemoved, HoldersOf
<1>15. ASSUME NEW r \in Roots, RootReplaced(r) PROVE AnchorKept'
  BY <1>15 DEF RootReplaced, HoldersOf
<1>16. CASE OwnerEdits
  BY <1>16 DEF OwnerEdits
<1>17. CASE UNCHANGED vars
  BY <1>17 DEF vars
<1> HIDE DEF TypeOK, Apart, AnchorKept, LedgerKept
<1> QED
  BY EndsOnly, <1>1, <1>2, <1>3, <1>4, <1>5, <1>6, <1>7, <1>8, <1>9, <1>10, <1>11, <1>12,
     <1>13, <1>14, <1>15, <1>16, <1>17
     DEF Next, World, Command

\* The same for the ledger, whose file is nobody's anchor.
LEMMA LedgerStep ==
  ASSUME TypeOK, Apart, AnchorKept, LedgerKept, [Next]_vars
  PROVE  LedgerKept'
<1> USE InodeAssumption, NobodyAssumption
        DEF TypeOK, Files, Inodes, Apart, AnchorKept, LedgerKept, HasAnchor, HasLedger, Inside,
            ownerVars, heldVars, compositorVars, historyVars, Becomes
<1>1. ASSUME NEW c \in Commands, OpenAnchor(c) PROVE LedgerKept'
  BY <1>1 DEF OpenAnchor
<1>2. ASSUME NEW c \in Commands, LockAnchor(c) PROVE LedgerKept'
  BY <1>2 DEF LockAnchor
<1>3. ASSUME NEW c \in Commands, ReadProfile(c) PROVE LedgerKept'
  BY <1>3 DEF ReadProfile, AnchorStands
<1>4. ASSUME NEW c \in Commands, OpenLedger(c) PROVE LedgerKept'
  BY <1>4, SMTT(30) DEF OpenLedger
<1>5. ASSUME NEW c \in Commands, LockLedger(c) PROVE LedgerKept'
  BY <1>5 DEF LockLedger
<1>6. ASSUME NEW c \in Commands, Enter(c) PROVE LedgerKept'
  BY <1>6 DEF Enter, LedgerStands
<1>7. ASSUME NEW c \in Commands, LeaveLedger(c) PROVE LedgerKept'
  BY <1>7 DEF LeaveLedger, Without
<1>8. ASSUME NEW c \in Commands, NEW place \in {"refused", "done", "dead"}, End(c, place),
              place = "done" => pc[c] = "leaving" /\ AnchorStands(c)
       PROVE  LedgerKept'
  BY <1>8 DEF End, Freed, Unlocked
<1>9. ASSUME NEW c \in Commands, NEW effectful \in BOOLEAN, Lock(c, effectful) PROVE LedgerKept'
  BY <1>9 DEF Lock
<1>10. ASSUME NEW c \in Commands, StartWorker(c) PROVE LedgerKept'
  BY <1>10 DEF StartWorker
<1>11. ASSUME NEW c \in Commands, Unlock(c) PROVE LedgerKept'
  BY <1>11 DEF Unlock, Unlocked
<1>12. ASSUME NEW c \in Commands, WorkerExits(c) PROVE LedgerKept'
  BY <1>12 DEF WorkerExits
<1>13. CASE AnchorRemoved
  BY <1>13 DEF AnchorRemoved, HoldersOfAnchor
<1>14. ASSUME NEW r \in Roots, LedgerRemoved(r) PROVE LedgerKept'
  BY <1>14 DEF LedgerRemoved, HoldersOf
<1>15. ASSUME NEW r \in Roots, RootReplaced(r) PROVE LedgerKept'
  BY <1>15 DEF RootReplaced, HoldersOf
<1>16. CASE OwnerEdits
  BY <1>16 DEF OwnerEdits
<1>17. CASE UNCHANGED vars
  BY <1>17 DEF vars
<1> HIDE DEF TypeOK, Apart, AnchorKept, LedgerKept
<1> QED
  BY EndsOnly, <1>1, <1>2, <1>3, <1>4, <1>5, <1>6, <1>7, <1>8, <1>9, <1>10, <1>11, <1>12,
     <1>13, <1>14, <1>15, <1>16, <1>17
     DEF Next, World, Command

\* The descriptor that holds the compositor's lock is the command's or its worker's copy.
LEMMA ActorStep ==
  ASSUME TypeOK, ActorHolds, [Next]_vars
  PROVE  ActorHolds'
<1> USE InodeAssumption, NobodyAssumption
        DEF TypeOK, ActorHolds,
            ownerVars, heldVars, compositorVars, historyVars, Becomes
<1>1. ASSUME NEW c \in Commands, OpenAnchor(c) PROVE ActorHolds'
  BY <1>1 DEF OpenAnchor
<1>2. ASSUME NEW c \in Commands, LockAnchor(c) PROVE ActorHolds'
  BY <1>2 DEF LockAnchor
<1>3. ASSUME NEW c \in Commands, ReadProfile(c) PROVE ActorHolds'
  BY <1>3 DEF ReadProfile, AnchorStands
<1>4. ASSUME NEW c \in Commands, OpenLedger(c) PROVE ActorHolds'
  BY <1>4 DEF OpenLedger
<1>5. ASSUME NEW c \in Commands, LockLedger(c) PROVE ActorHolds'
  BY <1>5 DEF LockLedger
<1>6. ASSUME NEW c \in Commands, Enter(c) PROVE ActorHolds'
  BY <1>6 DEF Enter, LedgerStands
<1>7. ASSUME NEW c \in Commands, LeaveLedger(c) PROVE ActorHolds'
  BY <1>7 DEF LeaveLedger, Without
<1>8. ASSUME NEW c \in Commands, NEW place \in {"refused", "done", "dead"}, End(c, place),
              place = "done" => pc[c] = "leaving" /\ AnchorStands(c)
       PROVE  ActorHolds'
  BY <1>8 DEF End, Freed, Unlocked
<1>9. ASSUME NEW c \in Commands, NEW effectful \in BOOLEAN, Lock(c, effectful) PROVE ActorHolds'
  BY <1>9 DEF Lock
<1>10. ASSUME NEW c \in Commands, StartWorker(c) PROVE ActorHolds'
  BY <1>10 DEF StartWorker
<1>11. ASSUME NEW c \in Commands, Unlock(c) PROVE ActorHolds'
  BY <1>11 DEF Unlock, Unlocked
<1>12. ASSUME NEW c \in Commands, WorkerExits(c) PROVE ActorHolds'
  BY <1>12 DEF WorkerExits
<1>13. CASE AnchorRemoved
  BY <1>13 DEF AnchorRemoved, HoldersOfAnchor
<1>14. ASSUME NEW r \in Roots, LedgerRemoved(r) PROVE ActorHolds'
  BY <1>14 DEF LedgerRemoved, HoldersOf
<1>15. ASSUME NEW r \in Roots, RootReplaced(r) PROVE ActorHolds'
  BY <1>15 DEF RootReplaced, HoldersOf
<1>16. CASE OwnerEdits
  BY <1>16 DEF OwnerEdits
<1>17. CASE UNCHANGED vars
  BY <1>17 DEF vars
<1> HIDE DEF TypeOK, ActorHolds
<1> QED
  BY EndsOnly, <1>1, <1>2, <1>3, <1>4, <1>5, <1>6, <1>7, <1>8, <1>9, <1>10, <1>11, <1>12,
     <1>13, <1>14, <1>15, <1>16, <1>17
     DEF Next, World, Command

\* Two commands past the anchor's check both have the flock of the file they opened, and that
\* is the anchor of today unless the command was ousted.
LEMMA AnchorAlone ==
  ASSUME AnchorKept, NEW c \in Commands, NEW d \in Commands, c # d, HasAnchor(c), HasAnchor(d)
  PROVE  c \in ousted.anchor \/ d \in ousted.anchor
BY DEF AnchorKept

\* Who comes in late is recorded with those it meets; nobody's ousting is forgotten.
LEMMA MetStep ==
  ASSUME TypeOK, AnchorKept, MetIsOusted, [Next]_vars
  PROVE  MetIsOusted'
<1>1. ousted.anchor \subseteq ousted'.anchor
  <2>1. CASE UNCHANGED ousted
    BY <2>1
  <2>2. CASE AnchorRemoved \/ \E r \in Roots : LedgerRemoved(r) \/ RootReplaced(r)
    BY <2>2 DEF TypeOK, AnchorRemoved, LedgerRemoved, RootReplaced
  <2> QED
    BY <2>1, <2>2, EndsOnly
       DEF Next, World, Command, OpenAnchor, LockAnchor, ReadProfile, OpenLedger, LockLedger, Enter,
           LeaveLedger, Lock, StartWorker, Unlock, WorkerExits, OwnerEdits, End, historyVars, vars
<1>2. ASSUME NEW c \in Commands, Enter(c) PROVE MetIsOusted'
  <2>1. \A e \in Commands \ {c} : Inside(e) => c \in ousted.anchor \/ e \in ousted.anchor
    BY <1>2, AnchorAlone DEF Enter, HasAnchor
  <2>2. \A d, e \in Commands : e \in met'[d] =>
          e \in met[d] \/ (d = c /\ e # c /\ Inside(e)) \/ (e = c /\ d # c /\ Inside(d))
    BY <1>2 DEF Enter, TypeOK
  <2> QED
    BY <1>1, <2>1, <2>2 DEF MetIsOusted
<1>3. CASE UNCHANGED met
  BY <1>1, <1>3 DEF MetIsOusted
<1> QED
  BY <1>2, <1>3, EndsOnly
     DEF Next, World, Command, OpenAnchor, LockAnchor, ReadProfile, OpenLedger, LockLedger,
         LeaveLedger, Lock, StartWorker, Unlock, WorkerExits, OwnerEdits, AnchorRemoved, LedgerRemoved,
         RootReplaced, End, historyVars, vars

-----------------------------------------------------------------------------
\* The invariant of the locks, for any commands, roots, compositors and number of files.
THEOREM LocksInvariant == Spec => []IInv
<1>1. Init => IInv
  <2> SUFFICES ASSUME Init PROVE IInv
    OBVIOUS
  <2>1. TypeOK
    BY InodeAssumption DEF Init, TypeOK, Places, Files, Inodes, Closed
  <2>2. Apart /\ AnchorKept
    BY <2>1, InodeAssumption
       DEF Init, Apart, AnchorKept, Closed, HasAnchor, HasLedger, Inside, TypeOK, Files
  <2>3. LedgerKept /\ MetIsOusted /\ ActorHolds
    BY DEF Init, LedgerKept, MetIsOusted, ActorHolds, HasLedger
  <2> QED
    BY <2>1, <2>2, <2>3 DEF IInv
<1>2. IInv /\ [Next]_vars => IInv'
  BY TypeStep, ApartStep, AnchorStep, LedgerStep, MetStep, ActorStep DEF IInv
<1> QED
  BY <1>1, <1>2, PTL DEF Spec

\* Every file and every flock is one that exists.
THEOREM LocksTyped == Spec => []TypeOK
BY LocksInvariant, PTL DEF IInv

\* resolution_lock.owner_guard: inside with somebody else only if one was ousted.
THEOREM LocksExclude == Spec => []AloneUnlessOusted
<1>1. IInv => AloneUnlessOusted
  <2> SUFFICES ASSUME IInv, NEW c \in Commands, NEW d \in Commands, c # d, Inside(c), Inside(d)
               PROVE  /\ c \in ousted.anchor \/ d \in ousted.anchor
                      /\ HasLedger(c) /\ HasLedger(d) /\ mine[c].root = mine[d].root =>
                           c \in ousted.ledger \/ d \in ousted.ledger
    BY DEF AloneUnlessOusted
  <2>1. c \in ousted.anchor \/ d \in ousted.anchor
    BY AnchorAlone DEF IInv, HasAnchor
  <2>2. ASSUME HasLedger(c), HasLedger(d), mine[c].root = mine[d].root
        PROVE  c \in ousted.ledger \/ d \in ousted.ledger
    BY <2>2 DEF IInv, LedgerKept
  <2> QED
    BY <2>1, <2>2
<1> QED
  BY LocksInvariant, <1>1, PTL

\* resolution_lock.mutex: of two that met, the ousted one does not end well.
THEOREM LocksTell == Spec => []OverlapIsNoticed
<1>1. IInv => OverlapIsNoticed
  BY DEF IInv, OverlapIsNoticed, MetIsOusted, AnchorKept, HasAnchor, Inside
<1> QED
  BY LocksInvariant, <1>1, PTL

\* operation_lock: one command, or its worker, on a compositor.
THEOREM LocksActAlone == Spec => []OneActorPerCompositor
<1>1. IInv => OneActorPerCompositor
  BY DEF IInv, OneActorPerCompositor, ActorHolds, Acts
<1> QED
  BY LocksInvariant, <1>1, PTL
=============================================================================
