----------------------------- MODULE StoreProofs -----------------------------
(***************************************************************************)
(* For any number of processes, captures and days: pruning never takes a   *)
(* file of the KeepDays most recent days, whatever runs beside it, and as  *)
(* long as no two commands overlapped every pointer and every receipt      *)
(* names a file that is there.                                             *)
(*                                                                         *)
(* A day that pruning may take can only become older: files on later days  *)
(* are added, and a day that was listed as old stays old (Pruned).  The    *)
(* references resolve because a lone command checks a file just before it  *)
(* names it, and reads the names just before it deletes (Alone).           *)
(***************************************************************************)
EXTENDS SnapshotStore, ArtifactFile, FiniteSetTheorems, TLAPS

Places == {"idle", "put", "check", "replace", "list", "scan", "unlink", "reopening"}

Typed ==
  /\ today \in Nat \ {0} /\ taken \in 0 .. MaxSnap /\ ready \subseteq 1 .. taken
  /\ day \in [Snap -> 0 .. today]
  /\ files \subseteq Snap
  /\ pointer \in [Pointers -> 0 .. taken]
  /\ overlapped \in BOOLEAN
  /\ pc \in [Proc -> Places] /\ key \in [Proc -> 0 .. taken]
  /\ target \in [Proc -> Pointers] /\ victims \in [Proc -> SUBSET Snap]

\* A capture in hand is nobody else's and has no file yet.
Numbered ==
  /\ \A s \in files : day[s] # 0
  /\ \A s \in Snap : s > taken => day[s] = 0
  /\ \A p \in Proc : pc[p] = "put" => key[p] \in Snap /\ day[key[p]] = 0
  /\ \A p, q \in Proc : pc[p] = "put" /\ pc[q] = "put" /\ key[p] = key[q] => p = q

\* Only a snapshot that is ready is about to be named display-valid.
Valid ==
  /\ pointer["last-display-valid"] \in ready \cup {0}
  /\ \A p \in Proc :
       /\ target[p] = "last-display-valid" => key[p] \in ready
       /\ pc[p] \in {"idle", "put", "reopening"} => target[p] = "latest-observed"

Days == {day[r] : r \in {q \in Snap : day[q] # 0}}

\* What pruning is about to delete is old.
Pruned == \A p \in Proc : \A v \in victims[p] : day[v] # 0 /\ day[v] \notin Recent(Days)

Resolves ==
  /\ receipts \subseteq files /\ \A n \in Pointers : pointer[n] \in files \cup {0}
  /\ pointer["last-display-valid"] <= pointer["latest-observed"]

\* What a command knows as long as it runs alone.
Knows(p) ==
  /\ pc[p] \in {"replace", "reopening"} => key[p] \in files
  /\ pc[p] \in {"put", "check", "replace"} =>
       /\ target[p] = "latest-observed" => key[p] = taken
       /\ target[p] = "last-display-valid" => key[p] = pointer["latest-observed"]
  /\ pc[p] = "unlink" =>
       \A v \in victims[p] : v \notin receipts /\ \A n \in Pointers : pointer[n] # v

Alone ==
  ~overlapped =>
    /\ \A p, q \in Proc : pc[p] # "idle" /\ pc[q] # "idle" => p = q
    /\ Resolves /\ \A p \in Proc : Knows(p)

IInv == Typed /\ Numbered /\ Valid /\ Pruned /\ RecentDaysKept /\ Alone
-----------------------------------------------------------------------------
(* Days. *)

\* The more days have files, the fewer of them are recent.
LEMMA FewerRecent ==
  ASSUME NEW D, NEW E, IsFiniteSet(E), D \subseteq E, NEW d \in D, d \in Recent(E)
  PROVE  d \in Recent(D)
<1> DEFINE later(X) == {e \in X : e > d}
<1>1. later(D) \in SUBSET later(E) /\ later(E) \in SUBSET E
  OBVIOUS
<1>2. IsFiniteSet(later(E))
  BY <1>1, FS_Subset
<1>3. IsFiniteSet(later(D)) /\ Cardinality(later(D)) <= Cardinality(later(E))
  BY <1>1, <1>2, FS_Subset
<1>4. Cardinality(later(D)) \in Nat /\ Cardinality(later(E)) \in Nat
  BY <1>2, <1>3, FS_CardinalityType
<1>5. Cardinality(later(E)) < KeepDays
  BY DEF Recent
<1>6. Cardinality(later(D)) < KeepDays
  BY <1>3, <1>4, <1>5, StoreAssumption
<1> QED
  BY <1>6 DEF Recent

LEMMA DaysFinite ==
  ASSUME NEW n \in Nat, NEW f \in [Snap -> 0 .. n]
  PROVE  IsFiniteSet({f[r] : r \in {q \in Snap : f[q] # 0}})
<1>1. {f[r] : r \in {q \in Snap : f[q] # 0}} \in SUBSET (0 .. n)
  OBVIOUS
<1>2. IsFiniteSet(0 .. n)
  BY FS_Interval
<1> QED
  BY <1>1, <1>2, FS_Subset
-----------------------------------------------------------------------------
(* The types, and the numbers of the captures. *)

LEMMA InitIInv == Init => IInv
<1> SUFFICES ASSUME Init PROVE IInv
  OBVIOUS
<1>1. Typed
  <2>1. today \in Nat \ {0} /\ taken \in 0 .. MaxSnap /\ ready \subseteq 1 .. taken
    BY StoreAssumption DEF Init
  <2>2. day \in [Snap -> 0 .. today] /\ pointer \in [Pointers -> 0 .. taken]
    BY DEF Init
  <2>3. /\ pc \in [Proc -> Places] /\ key \in [Proc -> 0 .. taken]
        /\ target \in [Proc -> Pointers] /\ victims \in [Proc -> SUBSET Snap]
    BY DEF Init, Places, Pointers
  <2>4. overlapped \in BOOLEAN /\ files \subseteq Snap
    BY DEF Init
  <2> QED
    BY <2>1, <2>2, <2>3, <2>4 DEF Typed
<1>2. Numbered /\ Valid
  BY DEF Init, Numbered, Valid, Pointers
<1>3. Pruned
  BY DEF Init, Pruned
<1>4. RecentDaysKept
  BY DEF Init, RecentDaysKept, Recent
<1>5. Alone
  BY DEF Init, Alone, Resolves, Knows, Pointers
<1> QED
  BY <1>1, <1>2, <1>3, <1>4, <1>5 DEF IInv

\* Where a command is, and what it remembers.
LocalTyped ==
  /\ pc \in [Proc -> Places] /\ key \in [Proc -> 0 .. taken]
  /\ target \in [Proc -> Pointers] /\ victims \in [Proc -> SUBSET Snap]

LEMMA EndsTyped ==
  ASSUME Typed, NEW p \in Proc, Ends(p), taken' = taken
  PROVE  LocalTyped'
  BY DEF Typed, Ends, Goto, LocalTyped, Places, Pointers

LEMMA TypedStep == ASSUME IInv, [Next]_vars PROVE Typed'
<1> USE DEF IInv
<1>1. ASSUME NEW p \in Proc, Observe(p) PROVE Typed'
  <2>1. taken' = taken + 1 /\ taken' \in 0 .. MaxSnap /\ overlapped' \in BOOLEAN
    BY <1>1, StoreAssumption DEF Observe, Starts, Typed
  <2>2. ready' \subseteq 1 .. taken' /\ pointer' \in [Pointers -> 0 .. taken']
    BY <1>1, <2>1 DEF Observe, Typed
  <2>3. key' \in [Proc -> 0 .. taken'] /\ pc' \in [Proc -> Places]
    BY <1>1, <2>1 DEF Observe, Goto, Typed, Places
  <2> QED
    BY <1>1, <2>1, <2>2, <2>3 DEF Observe, Typed
<1>2. ASSUME NEW p \in Proc, Put(p) PROVE Typed'
  <2>1. key[p] \in Snap
    BY <1>2 DEF Put, Numbered
  <2>2. files' \subseteq Snap /\ day' \in [Snap -> 0 .. today']
    BY <1>2, <2>1 DEF Put, Typed
  <2>3. target' \in [Proc -> Pointers] /\ pc' \in [Proc -> Places]
    BY <1>2 DEF Put, Goto, Typed, Pointers, Places
  <2> QED
    BY <1>2, <2>2, <2>3 DEF Put, Typed
<1>3. ASSUME NEW p \in Proc, CheckPointer(p) PROVE Typed'
  <2>1. LocalTyped'
    BY <1>3, EndsTyped DEF CheckPointer, Goto, Typed, LocalTyped, Places
  <2> QED
    BY <1>3, <2>1 DEF CheckPointer, Typed, LocalTyped
<1>4. ASSUME NEW p \in Proc, ReplacePointer(p) PROVE Typed'
  <2>1. pointer' \in [Pointers -> 0 .. taken] /\ taken' = taken
    BY <1>4 DEF ReplacePointer, Typed
  <2>2. LocalTyped'
    BY <1>4, <2>1, EndsTyped DEF ReplacePointer, NextTarget, Goto, Typed, LocalTyped, Places, Pointers
  <2> QED
    BY <1>4, <2>1, <2>2 DEF ReplacePointer, Typed, LocalTyped
<1>5. ASSUME NEW p \in Proc, ListDays(p) \/ ScanReferences(p) PROVE Typed'
  <2>1. victims' \in [Proc -> SUBSET Snap] /\ pc' \in [Proc -> Places]
    BY <1>5 DEF ListDays, ScanReferences, Goto, Typed, Places
  <2> QED
    BY <1>5, <2>1 DEF ListDays, ScanReferences, Typed
<1>6. ASSUME NEW p \in Proc, Unlink(p) PROVE Typed'
  <2>1. LocalTyped'
    BY <1>6, EndsTyped DEF Unlink, Typed, LocalTyped
  <2>2. files' \subseteq Snap
    BY <1>6 DEF Unlink, Typed
  <2> QED
    BY <1>6, <2>1, <2>2 DEF Unlink, Typed, LocalTyped
<1>7. ASSUME NEW p \in Proc, Select(p) PROVE Typed'
  <2>1. files \subseteq 0 .. taken
    BY DEF Typed, Numbered, Snap
  <2>2. key' \in [Proc -> 0 .. taken] /\ pc' \in [Proc -> Places] /\ overlapped' \in BOOLEAN
    BY <1>7, <2>1 DEF Select, Starts, Goto, Typed, Places
  <2> QED
    BY <1>7, <2>2 DEF Select, Typed
<1>8. ASSUME NEW p \in Proc, Receipt(p) PROVE Typed'
  <2>1. LocalTyped'
    BY <1>8, EndsTyped DEF Receipt, FinishPointer, Goto, Typed, LocalTyped, Places, Pointers
  <2> QED
    BY <1>8, <2>1 DEF Receipt, Typed, LocalTyped
<1>9. ASSUME NEW p \in Proc, Crash(p) PROVE Typed'
  <2>1. LocalTyped'
    BY <1>9, EndsTyped DEF Crash
  <2> QED
    BY <1>9, <2>1 DEF Crash, Typed, LocalTyped
<1>10. CASE Tick
  <2>1. today' \in Nat \ {0} /\ day' \in [Snap -> 0 .. today']
    BY <1>10 DEF Tick, Typed
  <2> QED
    BY <1>10, <2>1 DEF Tick, local, Typed
<1>11. CASE UNCHANGED vars
  BY <1>11 DEF vars, local, Typed
<1> QED
  BY <1>1, <1>2, <1>3, <1>4, <1>5, <1>6, <1>7, <1>8, <1>9, <1>10, <1>11 DEF Next, Capture, Restore
-----------------------------------------------------------------------------
(* Keys. *)

\* What a process remembers is changed by its own steps.
LEMMA OthersKept ==
  ASSUME Typed, NEW p \in Proc, Capture(p) \/ Restore(p) \/ Crash(p), NEW q \in Proc \ {p}
  PROVE  /\ pc'[q] = pc[q] /\ key'[q] = key[q] /\ target'[q] = target[q]
         /\ victims'[q] = victims[q]
<1>1. CASE Ends(p)
  BY <1>1 DEF Ends, Goto, Typed
<1>2. CASE Observe(p) \/ Put(p) \/ ListDays(p) \/ ScanReferences(p) \/ Select(p)
  BY <1>2 DEF Observe, Put, ListDays, ScanReferences, Select, Goto, Typed
<1>3. CASE CheckPointer(p) \/ ReplacePointer(p) \/ Unlink(p) \/ Receipt(p)
  BY <1>1, <1>3 DEF CheckPointer, ReplacePointer, Unlink, Receipt, Goto, Typed
<1> QED
  BY <1>1, <1>2, <1>3 DEF Capture, Restore, Crash

\* Where a process may be after a step of its own that is not the start of a capture.
LEMMA NotPut ==
  ASSUME Typed, NEW p \in Proc, Capture(p) \/ Restore(p) \/ Crash(p), ~Observe(p)
  PROVE  pc'[p] # "put" /\ UNCHANGED <<taken, ready, today>>
<1>1. CASE Ends(p)
  <2>1. pc'[p] = "idle"
    BY <1>1 DEF Ends, Goto, Typed
  <2> QED
    BY <2>1 DEF Capture, Restore, Put, CheckPointer, ReplacePointer, ListDays, ScanReferences, Unlink,
                Select, Receipt, Crash
<1>2. CASE Put(p) \/ ListDays(p) \/ ScanReferences(p) \/ Select(p)
  BY <1>2 DEF Put, ListDays, ScanReferences, Select, Goto, Typed
<1>3. CASE CheckPointer(p) \/ ReplacePointer(p) \/ Unlink(p) \/ Receipt(p)
  BY <1>1, <1>3 DEF CheckPointer, ReplacePointer, Unlink, Receipt, Goto, Typed
<1> QED
  BY <1>1, <1>2, <1>3 DEF Capture, Restore, Crash

LEMMA NumberedStep == ASSUME IInv, [Next]_vars PROVE Numbered'
<1> USE DEF IInv
<1>1. ASSUME NEW p \in Proc, Observe(p) PROVE Numbered'
  <2>1. taken' = taken + 1 /\ taken' \in Snap /\ UNCHANGED <<day, files>>
    BY <1>1, StoreAssumption DEF Observe, Typed, Snap
  <2>2. key'[p] = taken' /\ day[taken'] = 0
    BY <1>1, <2>1 DEF Observe, Typed, Numbered
  <2>3. \A q \in Proc \ {p} : pc'[q] = pc[q] /\ key'[q] = key[q] /\ key[q] # taken'
    BY <1>1, <2>1, OthersKept DEF Capture, Typed
  <2>4. \A s \in Snap : s > taken' => day'[s] = 0
    BY <2>1 DEF Numbered, Typed, Snap
  <2> QED
    BY <2>1, <2>2, <2>3, <2>4 DEF Numbered
<1>2. ASSUME NEW p \in Proc, Put(p) PROVE Numbered'
  <2>1. /\ key[p] \in Snap /\ day[key[p]] = 0 /\ pc[p] = "put" /\ key' = key /\ taken' = taken
        /\ files' = files \cup {key[p]} /\ pc'[p] # "put"
        /\ day'[key[p]] = today /\ \A s \in Snap \ {key[p]} : day'[s] = day[s]
    BY <1>2 DEF Put, Goto, Numbered, Typed
  <2>2. today # 0 /\ key[p] <= taken /\ key[p] \in Int /\ taken \in Int
    BY <2>1 DEF Typed
  <2>3. \A q \in Proc \ {p} : pc'[q] = pc[q] /\ (pc[q] = "put" => key[q] # key[p])
    BY <1>2, <2>1, OthersKept DEF Capture, Numbered
  <2>4. \A s \in files' : day'[s] # 0
    BY <2>1, <2>2 DEF Typed, Numbered
  <2>5. \A s \in Snap : s > taken' => day'[s] = 0
    BY <2>1, <2>2 DEF Numbered
  <2> QED
    BY <2>1, <2>3, <2>4, <2>5 DEF Numbered
<1>3. ASSUME NEW p \in Proc, Capture(p) \/ Restore(p) \/ Crash(p), ~Observe(p), ~Put(p)
      PROVE Numbered'
  <2>1. pc'[p] # "put" /\ taken' = taken
    BY <1>3, NotPut
  <2>2. \A q \in Proc \ {p} : pc'[q] = pc[q] /\ key'[q] = key[q]
    BY <1>3, OthersKept
  <2>3. files' \subseteq files /\ day' = day
    BY <1>3 DEF Capture, Restore, CheckPointer, ReplacePointer, ListDays, ScanReferences, Unlink,
                Select, Receipt, Crash
  <2> QED
    BY <2>1, <2>2, <2>3 DEF Numbered
<1>4. CASE Tick \/ UNCHANGED vars
  BY <1>4 DEF Tick, vars, local, Numbered
<1> QED
  BY <1>1, <1>2, <1>3, <1>4 DEF Next

\* A lone target survives only between the check and the replacement of its pointer.
LEMMA ValidStep == ASSUME IInv, [Next]_vars PROVE Valid'
<1> USE DEF IInv
<1> DEFINE Apt(p) == /\ target[p] = "last-display-valid" => key[p] \in ready
                     /\ pc[p] \in {"idle", "put", "reopening"} => target[p] = "latest-observed"
<1>1. ASSUME NEW p \in Proc, Capture(p) \/ Restore(p) \/ Crash(p) PROVE Valid'
  <2>1. ready \subseteq ready'
    BY <1>1 DEF Capture, Restore, Observe, Put, CheckPointer, ReplacePointer, ListDays, ScanReferences,
                Unlink, Select, Receipt, Crash
  <2>2. \A q \in Proc \ {p} : Apt(q)'
    BY <1>1, <2>1, OthersKept DEF Valid
  <2>3. ASSUME Ends(p) PROVE Apt(p)'
    <3>1. pc'[p] = "idle" /\ target'[p] = "latest-observed"
      BY <2>3 DEF Ends, Goto, Typed
    <3> QED
      BY <3>1
  <2>4. ASSUME Observe(p) \/ Put(p) \/ ListDays(p) \/ ScanReferences(p) \/ Select(p)
        PROVE  Apt(p)'
    BY <2>1, <2>4 DEF Observe, Starts, Put, ListDays, ScanReferences, Select, Goto, Typed, Valid
  <2>5. Apt(p)'
    BY <1>1, <2>1, <2>3, <2>4
       DEF Capture, Restore, CheckPointer, ReplacePointer, Unlink, Receipt, Crash, FinishPointer,
           NextTarget, Goto, Typed, Valid
  <2>6. pointer'["last-display-valid"] \in ready' \cup {0}
    <3>1. pointer' = pointer \/ pointer' = [pointer EXCEPT ![target[p]] = key[p]]
      BY <1>1 DEF Capture, Restore, Observe, Put, CheckPointer, ReplacePointer, ListDays, ScanReferences,
                  Unlink, Select, Receipt, Crash
    <3> QED
      BY <2>1, <3>1 DEF Typed, Valid, Pointers
  <2> QED
    BY <2>2, <2>5, <2>6 DEF Valid
<1>2. CASE Tick \/ UNCHANGED vars
  BY <1>2 DEF Tick, vars, local, Valid
<1> QED
  BY <1>1, <1>2 DEF Next
-----------------------------------------------------------------------------
(* Pruning. *)

\* A new capture gets a file on the day that it is; no file ever moves to another day.
LEMMA DaysGrow ==
  ASSUME IInv, [Next]_vars, Typed', NEW s \in Snap, day[s] # 0
  PROVE  day'[s] = day[s] /\ day[s] \in Days /\ (day[s] \in Recent(Days)' => day[s] \in Recent(Days))
<1>1. ASSUME NEW r \in Snap, day[r] # 0 PROVE day'[r] = day[r]
  <2>1. ASSUME NEW p \in Proc, Put(p) PROVE day'[r] = day[r]
    BY <1>1, <2>1 DEF Put, IInv, Typed, Numbered
  <2>2. day' = day \/ \E p \in Proc : Put(p)
    BY DEF Next, Tick, vars, Capture, Restore, Observe, CheckPointer, ReplacePointer, ListDays,
           ScanReferences, Unlink, Select, Receipt, Crash
  <2> QED
    BY <2>1, <2>2
<1>2. Days \subseteq Days' /\ day[s] \in Days
  BY <1>1 DEF Days
<1>3. IsFiniteSet(Days')
  <2>1. today' \in Nat /\ day' \in [Snap -> 0 .. today']
    BY DEF Typed
  <2> QED
    BY <2>1, DaysFinite DEF Days
<1>4. ASSUME day[s] \in Recent(Days') PROVE day[s] \in Recent(Days)
  BY <1>2, <1>3, <1>4, FewerRecent
<1>5. Recent(Days)' = Recent(Days')
  BY DEF Recent
<1> QED
  BY <1>1, <1>2, <1>4, <1>5

\* What is listed for deletion is older than KeepDays days that have files.
LEMMA PrunedStep == ASSUME IInv, [Next]_vars, Typed' PROVE Pruned'
<1> USE DEF IInv
<1>1. ASSUME NEW p \in Proc, NEW v \in victims[p]
      PROVE  day'[v] # 0 /\ day'[v] \notin Recent(Days)'
  BY <1>1, DaysGrow DEF Pruned, Typed
<1>2. ASSUME NEW p \in Proc, ListDays(p), NEW v \in victims'[p]
      PROVE  day'[v] # 0 /\ day'[v] \notin Recent(Days)'
  <2>1. v \in files /\ v \in Snap /\ day[v] # 0 /\ day[v] \notin Recent({day[s] : s \in files})
    BY <1>2 DEF ListDays, KeptDays, Typed, Numbered
  <2>2. {day[s] : s \in files} \subseteq Days /\ day[v] \in {day[s] : s \in files}
    BY <2>1 DEF Days, Numbered, Typed
  <2>3. day[v] \notin Recent(Days)
    <3>1. IsFiniteSet(Days)
      BY DaysFinite DEF Typed, Days
    <3> QED
      BY <2>1, <2>2, <3>1, FewerRecent
  <2> QED
    BY <2>1, <2>3, DaysGrow
<1>3. ASSUME NEW p \in Proc, NEW v \in victims'[p], ~ListDays(p) PROVE v \in victims[p]
  <2>1. ASSUME NEW q \in Proc, Capture(q) \/ Restore(q) \/ Crash(q), q # p
        PROVE  v \in victims[p]
    BY <1>3, <2>1, OthersKept
  <2>2. CASE Ends(p)
    BY <1>3, <2>2 DEF Ends, Typed
  <2>3. CASE Capture(p) \/ Restore(p) \/ Crash(p)
    BY <1>3, <2>2, <2>3
       DEF Capture, Restore, Crash, Observe, Put, CheckPointer, ReplacePointer, ScanReferences,
           Unlink, Select, Receipt, Typed
  <2>4. CASE Tick \/ UNCHANGED vars
    BY <1>3, <2>4 DEF Tick, vars, local
  <2> QED
    BY <2>1, <2>3, <2>4 DEF Next
<1> QED
  BY <1>1, <1>2, <1>3 DEF Pruned

LEMMA RecentDaysStep == ASSUME IInv, [Next]_vars, Typed' PROVE RecentDaysKept'
<1> USE DEF IInv
<1>0. RecentDaysKept <=> \A s \in Snap : day[s] \in Recent(Days) => s \in files
  BY DEF RecentDaysKept, Days
<1>1. ASSUME NEW s \in Snap, day'[s] \in Recent(Days)' PROVE s \in files'
  <2>1. CASE day[s] # 0
    <3>1. day[s] \in Recent(Days) /\ s \in files
      BY <1>0, <1>1, <2>1, DaysGrow
    <3>2. ASSUME NEW p \in Proc, Unlink(p) PROVE s \in files'
      BY <3>1, <3>2 DEF Unlink, Pruned
    <3>3. files \subseteq files' \/ \E p \in Proc : Unlink(p)
      BY DEF Next, Tick, vars, Capture, Restore, Observe, Put, CheckPointer, ReplacePointer, ListDays,
             ScanReferences, Select, Receipt, Crash
    <3> QED
      BY <3>1, <3>2, <3>3
  <2>2. CASE day[s] = 0
    <3>1. day'[s] # 0
      BY <1>1 DEF Recent, Days
    <3>2. \E p \in Proc : Put(p)
      BY <2>2, <3>1 DEF Next, Tick, vars, Capture, Restore, Observe, CheckPointer, ReplacePointer,
             ListDays, ScanReferences, Unlink, Select, Receipt, Crash
    <3>3. PICK p \in Proc : Put(p)
      BY <3>2
    <3>4. s = key[p]
      BY <2>2, <3>1, <3>3 DEF Put, Typed
    <3> QED
      BY <3>3, <3>4 DEF Put
  <2> QED
    BY <2>1, <2>2
<1> QED
  BY <1>1 DEF RecentDaysKept, Days
-----------------------------------------------------------------------------
(* A command that runs alone. *)

\* No two commands have overlapped: every process but this one is idle, and stays so.
LEMMA OnlyOne ==
  ASSUME IInv, [Next]_vars, ~overlapped', NEW p \in Proc, Capture(p) \/ Restore(p) \/ Crash(p)
  PROVE  ~overlapped /\ \A q \in Proc \ {p} : pc[q] = "idle" /\ pc'[q] = "idle"
<1>1. ~overlapped
  BY DEF Capture, Restore, Observe, Put, CheckPointer, ReplacePointer, ListDays, ScanReferences,
         Unlink, Select, Receipt, Crash, Starts
<1>2. ASSUME NEW q \in Proc \ {p} PROVE pc[q] = "idle"
  <2>1. CASE Observe(p) \/ Select(p)
    BY <2>1 DEF Observe, Select, Starts
  <2>2. CASE pc[p] # "idle"
    BY <1>1, <2>2 DEF IInv, Alone
  <2>3. Observe(p) \/ Select(p) \/ pc[p] # "idle"
    BY DEF Capture, Restore, Put, CheckPointer, ReplacePointer, ListDays, ScanReferences, Unlink,
           Receipt, Crash
  <2> QED
    BY <2>1, <2>2, <2>3
<1>3. \A q \in Proc \ {p} : pc'[q] = pc[q]
  BY OthersKept DEF IInv
<1> QED
  BY <1>1, <1>2, <1>3

LEMMA AloneStep == ASSUME IInv, [Next]_vars PROVE Alone'
<1> USE DEF IInv
<1> SUFFICES ASSUME ~overlapped'
             PROVE  /\ \A p, q \in Proc : pc'[p] # "idle" /\ pc'[q] # "idle" => p = q
                    /\ Resolves' /\ \A p \in Proc : Knows(p)'
  BY DEF Alone
<1>1. ASSUME NEW p \in Proc, Capture(p) \/ Restore(p) \/ Crash(p)
      PROVE  /\ \A q, r \in Proc : pc'[q] # "idle" /\ pc'[r] # "idle" => q = r
             /\ Resolves' /\ \A q \in Proc : Knows(q)'
  <2>1. /\ ~overlapped /\ Resolves /\ Knows(p)
        /\ \A q \in Proc \ {p} : pc[q] = "idle" /\ pc'[q] = "idle"
    BY <1>1, OnlyOne DEF Alone
  <2>2. \A q \in Proc \ {p} : Knows(q)'
    BY <2>1 DEF Knows
  <2>3. ASSUME Ends(p) PROVE Knows(p)'
    <3>1. pc'[p] = "idle"
      BY <2>3 DEF Ends, Goto, Typed
    <3> QED
      BY <3>1 DEF Knows
  <2>4. CASE Observe(p)
    <3>1. pc'[p] = "put" /\ key'[p] = taken' /\ target'[p] = "latest-observed"
      BY <2>4 DEF Observe, Starts, Goto, Typed, Valid
    <3> QED
      BY <2>1, <2>2, <2>4, <3>1 DEF Observe, Knows, Resolves
  <2>5. CASE Put(p)
    <3>1. /\ pc[p] = "put" /\ pc'[p] = "check" /\ key' = key /\ target'[p] = "latest-observed"
          /\ files \subseteq files' /\ UNCHANGED <<taken, receipts, pointer>>
      BY <2>5 DEF Put, Goto, Typed
    <3>2. key[p] = taken
      BY <2>1, <3>1 DEF Knows, Valid
    <3> QED
      BY <2>1, <2>2, <3>1, <3>2 DEF Knows, Resolves
  <2>6. CASE CheckPointer(p)
    <3>1. Resolves'
      BY <2>1, <2>6 DEF CheckPointer, Resolves
    <3>2. CASE ~Loads(p)
      BY <2>1, <2>2, <2>3, <2>6, <3>1, <3>2 DEF CheckPointer
    <3>3. CASE Loads(p)
      <4>1. /\ pc[p] = "check" /\ pc'[p] = "replace" /\ key[p] \in files
            /\ UNCHANGED <<taken, files, pointer, receipts, key, target, victims>>
        BY <2>6, <3>3 DEF CheckPointer, Loads, Goto, Typed
      <4>2. Knows(p)'
        BY <2>1, <4>1 DEF Knows
      <4> QED
        BY <2>1, <2>2, <3>1, <4>2
    <3> QED
      BY <3>2, <3>3
  <2>7. CASE ReplacePointer(p)
    <3>1. /\ key[p] \in files /\ pointer'[target[p]] = key[p] /\ target[p] \in Pointers
          /\ \A n \in Pointers \ {target[p]} : pointer'[n] = pointer[n]
          /\ UNCHANGED <<taken, files, receipts>>
      BY <2>1, <2>7 DEF ReplacePointer, Knows, Typed
    <3>2. /\ target[p] = "latest-observed" => key[p] = taken
          /\ target[p] = "last-display-valid" => key[p] = pointer["latest-observed"]
      BY <2>1, <2>7 DEF ReplacePointer, Knows
    <3>3. pointer["last-display-valid"] <= taken
      BY DEF Typed, Pointers
    <3>4. pointer'["last-display-valid"] <= pointer'["latest-observed"]
      <4>1. pointer["latest-observed"] \in Nat
        BY DEF Typed, Pointers
      <4> QED
        BY <2>1, <3>1, <3>2, <3>3, <4>1 DEF Resolves, Pointers
    <3>5. Resolves'
      BY <2>1, <3>1, <3>4 DEF Resolves
    <3>6. CASE NextTarget(p) # target[p]
      <4>1. /\ target[p] = "latest-observed" /\ pc'[p] = "check" /\ key' = key
            /\ target'[p] = "last-display-valid"
        BY <2>7, <3>6 DEF ReplacePointer, NextTarget, Goto, Typed
      <4> QED
        BY <2>1, <2>2, <3>1, <3>5, <4>1 DEF Knows
    <3>7. CASE NextTarget(p) = target[p]
      <4>1. Ends(p) \/ pc'[p] = "list"
        BY <2>7, <3>7 DEF ReplacePointer, Goto, Typed
      <4>2. Knows(p)'
        BY <2>3, <4>1 DEF Knows
      <4> QED
        BY <2>1, <2>2, <3>5, <4>2
    <3> QED
      BY <3>6, <3>7
  <2>8. CASE ListDays(p)
    <3>1. pc'[p] = "scan" /\ UNCHANGED <<files, pointer, receipts>>
      BY <2>8 DEF ListDays, Goto, Typed
    <3> QED
      BY <2>1, <2>2, <3>1 DEF Knows, Resolves
  <2>9. CASE ScanReferences(p)
    <3>1. /\ pc'[p] = "unlink" /\ victims'[p] \cap Referenced = {}
          /\ UNCHANGED <<files, pointer, receipts>>
      BY <2>9 DEF ScanReferences, Goto, Typed
    <3> QED
      BY <2>1, <2>2, <3>1 DEF Knows, Resolves, Referenced
  <2>10. CASE Unlink(p)
    <3>1. \A v \in victims[p] : v \notin receipts /\ \A n \in Pointers : pointer[n] # v
      BY <2>1, <2>10 DEF Unlink, Knows
    <3>2. files \ files' \subseteq victims[p] /\ UNCHANGED <<taken, pointer, receipts>>
      BY <2>10 DEF Unlink
    <3>3. Resolves'
      BY <2>1, <3>1, <3>2 DEF Resolves
    <3>4. CASE Ends(p)
      BY <2>1, <2>2, <2>3, <3>3, <3>4
    <3>5. CASE UNCHANGED pc /\ victims'[p] \subseteq victims[p]
      BY <2>1, <2>2, <2>10, <3>1, <3>2, <3>3, <3>5 DEF Unlink, Knows
    <3> QED
      BY <2>10, <3>4, <3>5 DEF Unlink, Typed
  <2>11. CASE Select(p)
    <3>1. pc'[p] = "reopening" /\ key'[p] \in files /\ UNCHANGED <<files, pointer, receipts>>
      BY <2>11 DEF Select, Goto, Typed
    <3> QED
      BY <2>1, <2>2, <3>1 DEF Knows, Resolves
  <2>12. CASE Receipt(p)
    <3>1. Resolves'
      BY <2>1, <2>12 DEF Receipt, Knows, Resolves
    <3>2. Ends(p) \/ (pc'[p] = "check" /\ target'[p] = "last-reopened")
      BY <2>12 DEF Receipt, FinishPointer, Goto, Typed
    <3>3. Knows(p)'
      BY <2>3, <3>2 DEF Knows
    <3> QED
      BY <2>1, <2>2, <3>1, <3>3
  <2>13. CASE Crash(p)
    BY <2>1, <2>2, <2>3, <2>13 DEF Crash, Resolves
  <2> QED
    BY <1>1, <2>4, <2>5, <2>6, <2>7, <2>8, <2>9, <2>10, <2>11, <2>12, <2>13 DEF Capture, Restore
<1>2. CASE Tick \/ UNCHANGED vars
  BY <1>2 DEF Tick, vars, local, Alone, Resolves, Knows
<1> QED
  BY <1>1, <1>2 DEF Next
-----------------------------------------------------------------------------
(* The theorems. *)

LEMMA IInvStep == IInv /\ [Next]_vars => IInv'
<1> SUFFICES ASSUME IInv, [Next]_vars PROVE IInv'
  OBVIOUS
<1>1. Typed'
  BY TypedStep
<1> QED
  BY <1>1, NumberedStep, ValidStep, PrunedStep, RecentDaysStep, AloneStep DEF IInv

THEOREM Invariance == Spec => []IInv
<1>1. Init => IInv
  BY InitIInv
<1>2. IInv /\ [Next]_vars => IInv'
  BY IInvStep
<1> QED
  BY <1>1, <1>2, PTL DEF Spec

\* Every day that still counts as recent has all its files, whatever runs beside a pruning and
\* wherever one is killed.
THEOREM RecentDaysSurvive == Spec => []RecentDaysKept
  BY Invariance, PTL DEF IInv

\* last-display-valid names a snapshot that is ready; and as long as no two commands overlapped
\* every pointer and every receipt names a file that is there, whatever was killed where.
THEOREM EveryReferenceResolves == Spec => []ReferencesResolve
<1>1. IInv => ReferencesResolve
  BY DEF IInv, Valid, Alone, Resolves, ReferencesResolve
<1> QED
  BY <1>1, Invariance, PTL

\* prune_snapshots' docstring, "never deleted", is true of a command that has run alone.
THEOREM AloneNeverDeletesReferenced ==
  Spec => [][~overlapped =>
               \A s \in files \ files' : s \notin receipts /\ \A n \in Pointers : pointer[n] # s]_vars
<1>1. IInv /\ [Next]_vars =>
        [~overlapped =>
           \A s \in files \ files' : s \notin receipts /\ \A n \in Pointers : pointer[n] # s]_vars
  <2> SUFFICES ASSUME IInv, Next, ~overlapped, NEW s \in files, s \notin files'
               PROVE  s \notin receipts /\ \A n \in Pointers : pointer[n] # s
    BY DEF vars
  <2>1. PICK p \in Proc : Unlink(p)
    BY DEF Next, Tick, Capture, Restore, Observe, Put, CheckPointer, ReplacePointer, ListDays,
           ScanReferences, Select, Receipt, Crash
  <2>2. pc[p] = "unlink" /\ s \in victims[p]
    BY <2>1 DEF Unlink
  <2> QED
    BY <2>2 DEF IInv, Alone, Knows
<1> QED
  BY <1>1, Invariance, PTL DEF Spec
-----------------------------------------------------------------------------
(***************************************************************************)
(* One file of the store, for any set of calls: what a call was told is    *)
(* stored survives every power loss, a fence is passed once, and the file  *)
(* written system call by system call implements ImmutableArtifact.  All   *)
(* of it rests on one inductive invariant, the types together with         *)
(* BarriersInOrder.                                                        *)
(***************************************************************************)

FileInv == TypeOK /\ BarriersInOrder

\* The bytes are whole before they are synced and the file is synced before its directory, at
\* every step of Store._create and Store.put.
LEMMA FileInvStep ==
  ASSUME FileInv, [FileNext]_fileVars
  PROVE  FileInv'
<1> USE DEF FileInv
<1>1. ASSUME NEW c \in Call, Create(c) PROVE FileInv'
  BY <1>1 DEF Create, Moves, TypeOK, BarriersInOrder, Past
<1>2. ASSUME NEW c \in Call, Exists(c) PROVE FileInv'
  <2>1. TypeOK'
    BY <1>2 DEF Exists, Moves, TypeOK, ComparesExisting, SameBytes, disk
  <2>2. CASE ~fence /\ content = "full"
    BY <1>2, <2>1, <2>2
       DEF Exists, Moves, TypeOK, BarriersInOrder, Past, ComparesExisting, SameBytes, disk
  <2>3. CASE fence \/ content # "full"
    <3>1. stage' = [stage EXCEPT ![c] = "refused"]
      BY <1>2, <2>3 DEF Exists, Moves, ComparesExisting, SameBytes
    <3> QED
      BY <1>2, <2>1, <3>1 DEF Exists, Moves, TypeOK, BarriersInOrder, Past, disk
  <2> QED
    BY <2>2, <2>3 DEF TypeOK
<1>3. ASSUME NEW c \in Call, Write(c) PROVE FileInv'
  BY <1>3 DEF Write, Moves, TypeOK, BarriersInOrder, Past, disk
<1>4. ASSUME NEW c \in Call, FsyncFile(c) PROVE FileInv'
  BY <1>4 DEF FsyncFile, Moves, Synced, TypeOK, BarriersInOrder, Past
<1>5. ASSUME NEW c \in Call, FsyncDirectory(c) PROVE FileInv'
  BY <1>5 DEF FsyncDirectory, Moves, TypeOK, BarriersInOrder, Past
<1>6. ASSUME NEW c \in Call, Return(c) PROVE FileInv'
  BY <1>6 DEF Return, Moves, TypeOK, BarriersInOrder, Past, disk
<1>7. ASSUME NEW c \in Call, Stop(c) PROVE FileInv'
  BY <1>7 DEF Stop, TypeOK, BarriersInOrder, Past, disk
<1>8. CASE Writeback
  <2>1. TypeOK'
    BY <1>8 DEF Writeback, TypeOK
  <2>2. entry /\ entry' /\ content' = content /\ stage' = stage /\ fence' = fence
    BY <1>8 DEF Writeback
  <2>3. (entryOnDisk => entryOnDisk') /\ (onDisk = "full" => onDisk' = "full")
         /\ (onDisk' = "full" => content = "full")
    BY <1>8 DEF Writeback, BarriersInOrder
  <2> QED
    BY <2>1, <2>2, <2>3 DEF BarriersInOrder, Past
<1>9. CASE PowerLoss
  <2>1. TypeOK'
    BY <1>9 DEF PowerLoss, TypeOK
  <2>2. \A c \in Call : \A S \in SUBSET {"write", "fsync", "syncdir"} :
          Past(c, S)' => stage[c] = "returned"
    BY <1>9 DEF PowerLoss, TypeOK, Past
  <2>3. \A c \in Call : stage[c] = "returned" => entryOnDisk /\ onDisk = "full"
    BY DEF BarriersInOrder, Past
  <2>4. \A c, d \in Call : fence /\ stage[c] = "returned" /\ stage[d] = "returned" => c = d
    BY DEF BarriersInOrder, Past
  <2>5. \A c, d \in Call :
          fence' /\ Past(c, {"write", "fsync", "syncdir"})'
                 /\ Past(d, {"write", "fsync", "syncdir"})' => c = d
    <3>1. fence' = fence
      BY <1>9 DEF PowerLoss
    <3> QED
      BY <2>2, <2>4, <3>1
  <2>6. /\ entryOnDisk' => entry'
        /\ onDisk' = "full" => content' = "full"
        /\ \A c \in Call : stage[c] = "returned" =>
             entry' /\ content' = "full" /\ onDisk' = "full" /\ entryOnDisk'
    BY <1>9, <2>3 DEF PowerLoss, TypeOK
  <2> QED
    BY <2>1, <2>2, <2>5, <2>6 DEF BarriersInOrder
<1>10. CASE UNCHANGED fileVars
  BY <1>10 DEF fileVars, TypeOK, BarriersInOrder, Past
<1> QED
  BY <1>1, <1>2, <1>3, <1>4, <1>5, <1>6, <1>7, <1>8, <1>9, <1>10 DEF FileNext

\* Store._create, Store.put, Store.consume: the barriers run in order for every call, through
\* failures of system calls, killed processes and power losses.
THEOREM BarriersHold == FileSpec => [](TypeOK /\ BarriersInOrder)
<1>1. FileInit => FileInv
  BY DEF FileInit, FileInv, TypeOK, BarriersInOrder, Past
<1>2. FileInv /\ [FileNext]_fileVars => FileInv'
  BY FileInvStep
<1>3. FileInv => TypeOK /\ BarriersInOrder
  BY DEF FileInv
<1> QED
  BY <1>1, <1>2, <1>3, PTL DEF FileSpec

\* Store.put: once a call has returned, no power loss takes the artifact away.
THEOREM Durable == FileSpec => []DurableOnceReturned
<1>1. FileInv => DurableOnceReturned
  BY DEF FileInv, BarriersInOrder, Past, DurableOnceReturned, Returned
<1> QED
  BY <1>1, BarriersHold, PTL DEF FileInv

\* Store.consume: of all calls that try to pass the fence, over all boots, one at most does.
THEOREM FenceHolds == FileSpec => []FencePassedOnce
<1>1. FileInv => FencePassedOnce
  BY DEF FileInv, BarriersInOrder, Past, FencePassedOnce, Returned
<1> QED
  BY <1>1, BarriersHold, PTL DEF FileInv

-----------------------------------------------------------------------------
\* Each system call maps to a step of the abstract artifact or to none.
LEMMA StepImplements ==
  ASSUME FileInv, [FileNext]_fileVars
  PROVE  [Artifact!Next]_(Artifact!vars)
<1> DEFINE stored == entryOnDisk /\ onDisk = "full"
<1>1. ASSUME NEW c \in Call, Return(c) PROVE Artifact!Return(c)
  <2>1. c \notin Returned /\ Returned' = Returned \cup {c}
    BY <1>1 DEF FileInv, TypeOK, Return, Moves, Returned
  <2>2. stored /\ UNCHANGED stored /\ UNCHANGED fence
    BY <1>1 DEF FileInv, BarriersInOrder, Past, Return, Moves, disk
  <2>3. fence => Returned = {}
    BY <1>1, <2>1 DEF FileInv, BarriersInOrder, Past, Return, Moves, Returned
  <2> QED
    BY <2>1, <2>2, <2>3 DEF Artifact!Return
<1>2. ASSUME ~\E c \in Call : Return(c) PROVE Returned' = Returned
  <2>1. ASSUME NEW c \in Call,
               Create(c) \/ Exists(c) \/ Write(c) \/ FsyncFile(c) \/ FsyncDirectory(c) \/ Stop(c)
        PROVE  Returned' = Returned
    BY <2>1 DEF FileInv, TypeOK, Returned, Moves, Create, Exists, Write, FsyncFile,
                FsyncDirectory, Stop
  <2>2. CASE Writeback \/ UNCHANGED fileVars
    BY <2>2 DEF Writeback, fileVars, Returned
  <2>3. CASE PowerLoss
    BY <2>3 DEF PowerLoss, FileInv, TypeOK, Returned
  <2> QED
    BY <1>2, <2>1, <2>2, <2>3 DEF FileNext
<1>3. stored => stored'
  BY DEF FileInv, TypeOK, BarriersInOrder, FileNext, fileVars, disk, Synced, Moves, Create, Exists, Write,
         FsyncFile, FsyncDirectory, Return, Stop, Writeback, PowerLoss
<1>6. UNCHANGED fence
  BY DEF FileNext, fileVars, Create, Exists, Write, FsyncFile, FsyncDirectory, Return, Stop, Writeback,
         PowerLoss
<1>4. CASE \E c \in Call : Return(c)
  BY <1>1, <1>4 DEF Artifact!Next
<1>5. CASE ~\E c \in Call : Return(c)
  <2>1. stored \in BOOLEAN /\ stored' \in BOOLEAN
    OBVIOUS
  <2>2. Artifact!Store \/ UNCHANGED <<fence, stored, Returned>>
    BY <1>2, <1>3, <1>5, <1>6, <2>1 DEF Artifact!Store
  <2> QED
    BY <2>2 DEF Artifact!Next, Artifact!vars
<1> QED
  BY <1>4, <1>5

\* store.py, "Private immutable artifacts, durable atomic pointers and single-use receipts":
\* the file is the abstract artifact, for every set of calls and in both uses.
THEOREM FileImplementsArtifact == FileSpec => ImplementsArtifact
<1>1. FileInit => Artifact!Init
  BY DEF FileInit, Artifact!Init, Returned
<1>2. FileInv /\ [FileNext]_fileVars => [Artifact!Next]_(Artifact!vars)
  BY StepImplements
<1> QED
  BY <1>1, <1>2, BarriersHold, PTL DEF FileInv, FileSpec, ImplementsArtifact, Artifact!Spec
=============================================================================
