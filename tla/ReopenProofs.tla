----------------------------- MODULE ReopenProofs -----------------------------
(***************************************************************************)
(* Safety of one `restore` run, for every saved desktop, plan and number   *)
(* of windows.  The induction is layered: types first, then what the run   *)
(* knows about windows, then launches, then who opened an adopted window,  *)
(* then what the receipt counts.  The last part is about planning itself:  *)
(* the order of the slots, the groups they make, what holds of every plan, *)
(* that every plan is one that the run's assumptions allow, by which route *)
(* an application comes back, and which arguments an Exec value gives it.  *)
(***************************************************************************)
EXTENDS PlannedReopen, FiniteSetTheorems, SequenceTheorems, WellFoundedInduction, TLAPS

USE DEF Ended, Outcome, Status

Typed == plan \in Plans /\ TypeOK

\* PlansAssumption in the form the steps use: groups and their slots are what they claim.
LEMMA PlanFacts ==
  ASSUME plan \in Plans
  PROVE  /\ N \in Nat
         /\ \A i \in 1 .. N : plan.groups[i] \in Group
         /\ \A i \in 1 .. N : Len(plan.groups[i].slots) \in Nat
         /\ \A i \in 1 .. N : \A j \in 1 .. Len(plan.groups[i].slots) :
              plan.groups[i].slots[j] \in Slot
         /\ \A i \in 1 .. N : plan.groups[i].app \in App
         /\ \A i \in 1 .. N : plan.groups[i].skip \in {"none", "already-running", "no-route"}
         /\ plan.preset \in [Slot -> {"none", "not-reopened", "already-open"}]
         /\ plan.open \in Seq(App) /\ Len(plan.open) \in 0 .. MaxWindow
<1>1. /\ plan.groups \in Seq(Group)
      /\ plan.preset \in [Slot -> {"none", "not-reopened", "already-open"}]
      /\ plan.open \in Seq(App) /\ Len(plan.open) <= MaxWindow
  BY PlansAssumption DEF PlanTyped
<1>2. N \in Nat /\ \A i \in 1 .. N : plan.groups[i] \in Group
  BY <1>1 DEF N
<1>3. \A x \in Group : /\ x.slots \in Seq(Slot)
                       /\ x.app \in App
                       /\ x.skip \in {"none", "already-running", "no-route"}
  BY DEF Group
<1>4. \A q \in Seq(Slot) : Len(q) \in Nat /\ \A j \in 1 .. Len(q) : q[j] \in Slot
  OBVIOUS
<1> QED
  BY <1>1, <1>2, <1>3, <1>4, SMTT(30)

LEMMA TypedInit == Init => Typed
<1> SUFFICES ASSUME Init PROVE Typed
  OBVIOUS
<1>1. plan \in Plans
  BY DEF Init
<1>2. failures \in Int
  <2>1. IsFiniteSet({s \in Slot : plan.preset[s] = "not-reopened"})
    BY SlotAssumption, FS_Subset
  <2> QED
    BY <2>1, FS_CardinalityType DEF Init
<1>3. /\ N \in Nat /\ Len(plan.open) \in 0 .. MaxWindow
      /\ plan.open \in Seq(App)
      /\ plan.preset \in [Slot -> {"none", "not-reopened", "already-open"}]
  BY <1>1, PlanFacts
<1>4. appOf \in [1 .. MaxWindow -> App \cup {NoApp}]
  <2> SUFFICES ASSUME NEW w \in 1 .. MaxWindow
               PROVE  (IF w <= opened THEN plan.open[w] ELSE NoApp) \in App \cup {NoApp}
    BY DEF Init
  <2> QED
    BY <1>3 DEF Init
<1>5. status \in [Slot -> Status]
  BY <1>3 DEF Init
<1>6. /\ apply \in BOOLEAN /\ pc = "start" /\ g \in 1 .. N + 1 /\ k \in Nat \ {0}
      /\ opened \in 0 .. MaxWindow /\ live \subseteq 1 .. opened
      /\ opener \in [1 .. MaxWindow -> 0 .. N] /\ strays = {}
      /\ known \subseteq 1 .. opened /\ found = {}
  BY <1>3 DEF Init, Protected
<1>7. /\ t \in 0 .. SpawnTimeout /\ last \in -1 .. SpawnTimeout
      /\ spawned \in [1 .. N -> Nat] /\ restored \in [Slot -> 0 .. opened]
  BY <1>3, BoundsAssumption DEF Init
<1>9. outcome \in Outcome /\ receipt \in Outcome /\ pointer \in BOOLEAN
  BY DEF Init
<1>8. TypeOK
  BY <1>2, <1>4, <1>5, <1>6, <1>7, <1>9 DEF TypeOK
<1> QED
  BY <1>1, <1>8 DEF Typed

LEMMA TypedNext == Typed /\ [Next]_vars => Typed'
<1> SUFFICES ASSUME Typed, [Next]_vars PROVE Typed'
  OBVIOUS
<1>1. plan \in Plans /\ TypeOK
  BY DEF Typed
<1>2. plan' = plan /\ N' = N
  BY DEF N, Next, Run, Fails, Desktop, Refuse, Admit, DryRun, SkipGroup, Spawn, Poll, Place,
     GroupDone, Arrange, StoreReceipt, SetPointer, SpawnFails, CollectFails, PlaceFails,
     ArrangeFails, Interrupted, Crash, AppOpens, UserOpens, Opens, Closes, Finished, vars
<1>0. /\ N \in Nat
      /\ \A i \in 1 .. N : /\ Len(plan.groups[i].slots) \in Nat
                          /\ plan.groups[i].app \in App
                          /\ plan.groups[i].skip \in {"none", "already-running", "no-route"}
                          /\ \A j \in 1 .. Len(plan.groups[i].slots) :
                               plan.groups[i].slots[j] \in Slot
  BY <1>1, PlanFacts
<1> USE <1>0, BoundsAssumption
<1>3. CASE Refuse \/ Crash
  BY <1>1, <1>2, <1>3 DEF TypeOK, Typed, Refuse, Crash, runVars, envVars
<1>18. CASE Admit \/ SetPointer
  BY <1>1, <1>2, <1>18 DEF TypeOK, Typed, Admit, SetPointer, runVars, envVars
<1>19. CASE Finished \/ UNCHANGED vars
  <2>1. UNCHANGED vars
    BY <1>19 DEF Finished
  <2> QED
    BY <1>1, <1>2, <2>1, SMTT(30) DEF TypeOK, Typed, vars, runVars, envVars
<1>4. CASE DryRun
  <2>1. \A s \in Slot : status'[s] \in Status
    <3> SUFFICES ASSUME NEW s \in Slot PROVE status'[s] \in Status
      OBVIOUS
    <3>1. CASE \E i \in 1 .. N : s \in SlotsOf(i) /\ plan.groups[i].skip # "none"
      <4> DEFINE i0 == CHOOSE i \in 1 .. N : s \in SlotsOf(i)
      <4>1. i0 \in 1 .. N
        BY <3>1
      <4> QED
        BY <1>4, <3>1, <4>1 DEF DryRun
    <3>2. CASE ~\E i \in 1 .. N : s \in SlotsOf(i) /\ plan.groups[i].skip # "none"
      BY <1>1, <1>4, <3>2, PlanFacts DEF DryRun
    <3> QED
      BY <3>1, <3>2
  <2>2. status' \in [Slot -> Status]
    BY <1>4, <2>1 DEF DryRun
  <2>3. /\ pc' = "finish" /\ outcome' \in Outcome /\ failures' \in Int
        /\ UNCHANGED <<apply, g, k, known, found, t, last, spawned, restored,
                       opened, live, appOf, opener, strays, receipt, pointer>>
    BY <1>4 DEF DryRun, envVars
  <2> QED
    BY <1>1, <1>2, <2>2, <2>3 DEF TypeOK, Typed
<1>5. CASE SkipGroup
  <2>1. g \in 1 .. N /\ failures \in Int /\ status \in [Slot -> Status]
    BY <1>1, <1>5 DEF TypeOK, SkipGroup
  <2>2. G.skip \in {"none", "already-running", "no-route"} /\ Len(G.slots) \in Nat
    BY <2>1 DEF G
  <2>3. status' \in [Slot -> Status] /\ failures' \in Int
    BY <1>5, <2>1, <2>2 DEF SkipGroup, Status
  <2>4. g' \in 1 .. N + 1 /\ pc' = pc /\ pc = "group"
    BY <1>5, <2>1 DEF SkipGroup, NextGroup
  <2>5. UNCHANGED <<apply, k, known, found, t, last, spawned, restored, outcome,
                    opened, live, appOf, opener, strays, receipt, pointer>>
    BY <1>5 DEF SkipGroup, envVars
  <2> QED
    BY <1>1, <1>2, <2>3, <2>4, <2>5 DEF TypeOK, Typed
<1>6. CASE Spawn
  BY <1>1, <1>2, <1>6, SMTT(30) DEF TypeOK, Typed, G, Spawn, envVars
<1>7. CASE Poll
  <2>1. found' \subseteq 1 .. opened /\ known' \subseteq 1 .. opened /\ k' \in Nat \ {0}
    <3>1. found \cup Arrivals \subseteq 1 .. opened
      BY <1>1 DEF TypeOK, Arrivals
    <3>2. known \subseteq 1 .. opened /\ k \in Nat \ {0}
      BY <1>1 DEF TypeOK
    <3>3. /\ found' = found \cup Arrivals
          /\ known' = known \cup found' \/ known' = known
          /\ k' = 1 \/ k' = k
      BY <1>7 DEF Poll
    <3>4. found' \subseteq 1 .. opened
      BY <3>1, <3>3
    <3>5. known' \subseteq 1 .. opened
      BY <3>2, <3>3, <3>4
    <3> QED
      BY <3>2, <3>3, <3>4, <3>5
  <2>2. t' \in 0 .. SpawnTimeout /\ last' \in -1 .. SpawnTimeout
    BY <1>1, <1>7 DEF TypeOK, Poll
  <2>3. g <= N /\ pc' \in {"collect", "place"}
    BY <1>1, <1>7 DEF TypeOK, Poll
  <2> QED
    BY <1>1, <1>2, <1>7, <2>1, <2>2, <2>3 DEF TypeOK, Typed, Poll, envVars
<1>8. CASE Place
  <2>0. g \in 1 .. N /\ k \in 1 .. Len(plan.groups[g].slots)
    BY <1>1, <1>8 DEF TypeOK, G, Place
  <2>1. G.slots[k] \in Slot
    BY <2>0 DEF G
  <2>2. PICK w \in found : /\ found' = found \ {w}
                           /\ restored' = [restored EXCEPT ![G.slots[k]] = w]
    BY <1>8 DEF Place
  <2>3. restored' \in [Slot -> 0 .. opened]
    BY <1>1, <2>1, <2>2 DEF TypeOK
  <2>4. status' \in [Slot -> Status]
    BY <1>1, <1>8, <2>1 DEF TypeOK, Place
  <2>5. found' \subseteq 1 .. opened /\ k' \in Nat \ {0}
    BY <1>1, <1>8, <2>2 DEF TypeOK, Place
  <2>6. UNCHANGED <<apply, pc, g, known, t, last, spawned, outcome, failures,
                    opened, live, appOf, opener, strays, receipt, pointer>>
    BY <1>8 DEF Place, envVars
  <2> QED
    BY <1>1, <1>2, <2>3, <2>4, <2>5, <2>6, SMTT(30) DEF TypeOK, Typed
<1>9. CASE GroupDone
  BY <1>1, <1>2, <1>9, SMTT(30) DEF TypeOK, Typed, G, GroupDone, NextGroup, Missing, envVars
<1>10. CASE Arrange
  BY <1>1, <1>2, <1>10 DEF TypeOK, Typed, Arrange, envVars
<1>11. CASE StoreReceipt
  BY <1>1, <1>2, <1>11 DEF TypeOK, Typed, StoreReceipt, Points, envVars
<1>12. CASE SpawnFails
  <2>1. spawned' \in [1 .. N -> Nat]
    BY <1>1, <1>12 DEF TypeOK, SpawnFails
  <2> QED
    BY <1>1, <1>2, <1>12, <2>1 DEF TypeOK, Typed, SpawnFails, Interrupted, envVars
<1>13. CASE CollectFails \/ ArrangeFails
  BY <1>1, <1>2, <1>13 DEF TypeOK, Typed, CollectFails, ArrangeFails, Interrupted, envVars
<1>14. CASE PlaceFails
  <2>0. g \in 1 .. N /\ k \in 1 .. Len(plan.groups[g].slots)
    BY <1>1, <1>14 DEF TypeOK, G, PlaceFails
  <2>1. G.slots[k] \in Slot
    BY <2>0 DEF G
  <2>2. PICK w \in found : restored' = [restored EXCEPT ![G.slots[k]] = w]
    BY <1>14 DEF PlaceFails
  <2>3. found \subseteq 1 .. opened /\ restored \in [Slot -> 0 .. opened]
    BY <1>1 DEF TypeOK
  <2>5. restored' \in [Slot -> 0 .. opened]
    BY <2>1, <2>2, <2>3
  <2>6. UNCHANGED <<apply, g, k, known, found, t, last, spawned, status,
                    opened, live, appOf, opener, strays, receipt, pointer>>
    BY <1>14 DEF PlaceFails, Interrupted, envVars
  <2>7. pc' = "finish" /\ outcome' \in Outcome /\ failures' \in Int
    BY <1>1, <1>14 DEF TypeOK, PlaceFails, Interrupted, Outcome
  <2> QED
    BY <1>1, <1>2, <2>3, <2>5, <2>6, <2>7 DEF TypeOK, Typed
<1>15. CASE AppOpens \/ UserOpens
  <2>1. PICK a \in App, i \in 0 .. N, stray \in BOOLEAN : Opens(a, i, stray)
    <3>1. CASE AppOpens
      <4>1. PICK j \in 1 .. N : Opens(plan.groups[j].app, j, ~(pc = "collect" /\ j = g))
        BY <3>1 DEF AppOpens
      <4>2. plan.groups[j].app \in App /\ j \in 0 .. N
        BY <4>1
      <4> QED
        BY <4>1, <4>2
    <3>2. CASE UserOpens
      <4>1. PICK b \in App : Opens(b, 0, TRUE)
        BY <3>2 DEF UserOpens
      <4>2. 0 \in 0 .. N
        OBVIOUS
      <4> QED
        BY <4>1, <4>2
    <3> QED
      BY <1>15, <3>1, <3>2
  <2>2. /\ opened \in 0 .. MaxWindow /\ live \subseteq 1 .. opened /\ strays \subseteq 1 .. opened
        /\ appOf \in [1 .. MaxWindow -> App \cup {NoApp}]
        /\ opener \in [1 .. MaxWindow -> 0 .. N]
    BY <1>1 DEF TypeOK
  <2>3. opened' \in 0 .. MaxWindow /\ opened' = opened + 1
    BY <2>1, <2>2 DEF Opens
  <2>4. live' \subseteq 1 .. opened' /\ strays' \subseteq 1 .. opened'
    BY <2>1, <2>2, <2>3 DEF Opens
  <2>5. appOf' \in [1 .. MaxWindow -> App \cup {NoApp}] /\ opener' \in [1 .. MaxWindow -> 0 .. N]
    BY <2>1, <2>2, <2>3 DEF Opens
  <2>6. 1 .. opened \subseteq 1 .. opened' /\ 0 .. opened \subseteq 0 .. opened'
    BY <2>2, <2>3
  <2>7. UNCHANGED <<apply, pc, g, k, known, found, t, last, spawned, status, restored,
                    failures, outcome, receipt, pointer>>
    BY <2>1 DEF Opens, runVars
  <2>8. restored' \in [Slot -> 0 .. opened']
    BY <1>1, <2>6, <2>7 DEF TypeOK
  <2>9. /\ known' \subseteq 1 .. opened' /\ found' \subseteq 1 .. opened'
    BY <1>1, <2>6, <2>7 DEF TypeOK
  <2> QED
    BY <1>1, <1>2, <2>3, <2>4, <2>5, <2>7, <2>8, <2>9, SMTT(30) DEF TypeOK, Typed
<1>17. CASE Closes
  <2>1. live' \subseteq 1 .. opened
    BY <1>1, <1>17 DEF TypeOK, Closes
  <2>2. UNCHANGED <<apply, pc, g, k, known, found, t, last, spawned, status, restored,
                    failures, outcome, opened, appOf, opener, strays, receipt, pointer>>
    BY <1>17 DEF Closes, runVars
  <2> QED
    BY <1>1, <1>2, <2>1, <2>2, SMTT(30) DEF TypeOK, Typed
<1> QED
  BY <1>3, <1>4, <1>5, <1>6, <1>7, <1>8, <1>9, <1>10, <1>11, <1>12, <1>13, <1>14, <1>15,
     <1>17, <1>18, <1>19 DEF Next, Run, Fails, Desktop

\* Type correctness of a run, from the shape of the plans alone.
THEOREM TypeCorrect == Spec => []TypeOK
<1>1. Typed => TypeOK
  BY DEF Typed
<1> QED
  BY <1>1, TypedInit, TypedNext, PTL DEF Spec

-----------------------------------------------------------------------------
\* What the run knows: collected windows are new and of the group's app, adopted ones are
\* known, new and adopted once, and nothing that was open before is collected.
Collected ==
  /\ Protected \subseteq known /\ found \cap Protected = {}
  /\ pc = "collect" => found \cap known = {}
  /\ pc = "place" => found \subseteq known
  /\ pc \in {"collect", "place"} => \A w \in found : appOf[w] = G.app

Adopted ==
  /\ \A s \in Slot : restored[s] # 0 =>
       /\ restored[s] \in known \ Protected
       /\ pc = "place" => restored[s] \notin found
       /\ \E i \in 1 .. N : s \in SlotsOf(i) /\ appOf[restored[s]] = plan.groups[i].app
  /\ \A s, r \in Slot : restored[s] # 0 /\ restored[s] = restored[r] => s = r

Adoption == Collected /\ Adopted

LEMMA PlanFixed ==
  ASSUME [Next]_vars
  PROVE  plan' = plan /\ N' = N /\ Protected' = Protected /\ \A i : SlotsOf(i)' = SlotsOf(i)
<1>1. plan' = plan
  BY DEF Next, Run, Fails, Desktop, Refuse, Admit, DryRun, SkipGroup, Spawn, Poll, Place,
     GroupDone, Arrange, StoreReceipt, SetPointer, SpawnFails, CollectFails, PlaceFails,
     ArrangeFails, Interrupted, Crash, AppOpens, UserOpens, Opens, Closes, Finished, vars
<1> QED
  BY <1>1 DEF N, Protected, SlotsOf

\* The slot a placing run fills next is one of its group's.
LEMMA NextSlot ==
  ASSUME Typed, pc = "place", k <= Len(G.slots)
  PROVE  g \in 1 .. N /\ G.slots[k] \in Slot /\ G.slots[k] \in SlotsOf(g)
<1>1. g \in 1 .. N /\ k \in 1 .. Len(plan.groups[g].slots)
  BY PlanFacts DEF Typed, TypeOK, G
<1>2. plan.groups[g].slots[k] \in Slot /\ plan.groups[g].slots \in Seq(Slot)
  BY <1>1, PlanFacts DEF Typed, Group
<1> QED
  BY <1>1, <1>2 DEF G, SlotsOf

LEMMA AdoptionInit == Typed /\ Init => Adoption
  BY DEF Init, Adoption, Collected, Adopted, Typed

\* Steps that neither collect nor place leave what the run knows as it was.
LEMMA AdoptionFrame ==
  ASSUME Adoption, plan' = plan, N' = N, Protected' = Protected,
         \A i : SlotsOf(i)' = SlotsOf(i),
         UNCHANGED <<known, found, restored, appOf>>,
         pc' \notin {"collect", "place"} \/ (pc' = pc /\ g' = g)
  PROVE  Adoption'
<1>1. Collected'
  BY DEF Adoption, Collected, G
<1>2. Adopted'
  BY DEF Adoption, Adopted
<1> QED
  BY <1>1, <1>2 DEF Adoption

LEMMA AdoptionNext == Typed /\ Typed' /\ Adoption /\ [Next]_vars => Adoption'
<1> SUFFICES ASSUME Typed, Typed', Adoption, [Next]_vars PROVE Adoption'
  OBVIOUS
<1>0. plan' = plan /\ N' = N /\ Protected' = Protected /\ \A i : SlotsOf(i)' = SlotsOf(i)
  BY PlanFixed
<1>1. CASE \/ Refuse \/ Admit \/ DryRun \/ SkipGroup \/ GroupDone \/ StoreReceipt \/ SetPointer
           \/ SpawnFails \/ CollectFails \/ ArrangeFails \/ Crash \/ Closes \/ Finished
           \/ UNCHANGED vars
  <2>1. /\ UNCHANGED <<known, found, restored, appOf>>
        /\ pc' \notin {"collect", "place"} \/ (pc' = pc /\ g' = g)
    BY <1>1 DEF Refuse, Admit, DryRun, SkipGroup, GroupDone, StoreReceipt, SetPointer,
       SpawnFails, CollectFails, ArrangeFails, Interrupted, Crash, Closes, Finished, vars,
       runVars, envVars
  <2> QED
    BY <1>0, <2>1, AdoptionFrame
<1>2. CASE Spawn
  <2>1. Collected'
    BY <1>0, <1>2 DEF Spawn, Adoption, Collected
  <2>2. Adopted'
    BY <1>0, <1>2 DEF Spawn, Adoption, Adopted, envVars
  <2> QED
    BY <2>1, <2>2 DEF Adoption
<1>3. CASE Poll
  <2>0. /\ found' = found \cup Arrivals /\ g' = g /\ pc = "collect"
        /\ UNCHANGED <<restored, appOf>>
        /\ \/ pc' = "place" /\ known' = known \cup found'
           \/ pc' = "collect" /\ known' = known
    BY <1>3 DEF Poll, envVars
  <2>1. Arrivals \cap known = {} /\ \A w \in Arrivals : appOf[w] = G.app
    BY DEF Arrivals
  <2>2. G' = G
    BY <1>0, <2>0 DEF G
  <2>3. Collected'
    BY <1>0, <2>0, <2>1, <2>2 DEF Adoption, Collected
  <2>4. Adopted'
    BY <1>0, <2>0, <2>1 DEF Adoption, Adopted, Collected
  <2> QED
    BY <2>3, <2>4 DEF Adoption
<1>4. CASE Place \/ PlaceFails
  <2>1. /\ pc = "place" /\ pc' \in {"place", "finish"} /\ k <= Len(G.slots)
        /\ UNCHANGED <<known, appOf, g>>
    BY <1>4 DEF Place, PlaceFails, Interrupted, envVars
  <2>2. PICK w \in found : /\ restored' = [restored EXCEPT ![G.slots[k]] = w]
                           /\ pc' = "place" => found' = found \ {w}
                           /\ found' \subseteq found
    BY <1>4 DEF Place, PlaceFails, Interrupted
  <2>3. /\ found \subseteq 1 .. opened /\ opened \in Nat
        /\ restored \in [Slot -> 0 .. opened]
    BY SMTT(30) DEF Typed, TypeOK
  <2>4. g \in 1 .. N /\ G.slots[k] \in Slot /\ G.slots[k] \in SlotsOf(g)
    BY <2>1, NextSlot
  <2>5. w \in known \ Protected /\ appOf[w] = plan.groups[g].app /\ w # 0
    BY <2>1, <2>3 DEF Adoption, Collected, G
  <2>6. \A s \in Slot : restored[s] # w
    BY <2>1, <2>5 DEF Adoption, Adopted
  <2>7. Collected'
    BY <1>0, <2>1, <2>2 DEF Adoption, Collected, G
  <2>8. Adopted'
    <3>1. \A s \in Slot : restored'[s] = IF s = G.slots[k] THEN w ELSE restored[s]
      BY <2>2, <2>3, <2>4
    <3>2. ASSUME NEW s \in Slot, restored'[s] # 0
          PROVE  /\ restored'[s] \in known \ Protected
                 /\ pc' = "place" => restored'[s] \notin found'
                 /\ \E i \in 1 .. N : s \in SlotsOf(i)
                                     /\ appOf[restored'[s]] = plan.groups[i].app
      <4>1. CASE s = G.slots[k]
        BY <2>2, <2>3, <2>4, <2>5, <3>1, <4>1
      <4>2. CASE s # G.slots[k]
        BY <2>1, <2>2, <3>1, <3>2, <4>2 DEF Adoption, Adopted
      <4> QED
        BY <4>1, <4>2
    <3>3. \A s, r \in Slot : restored'[s] # 0 /\ restored'[s] = restored'[r] => s = r
      BY <2>6, <3>1 DEF Adoption, Adopted
    <3> QED
      BY <1>0, <2>1, <3>2, <3>3 DEF Adopted
  <2> QED
    BY <2>7, <2>8 DEF Adoption
<1>5. CASE Arrange
  BY <1>0, <1>5 DEF Arrange, Adoption, Collected, Adopted, envVars
<1>6. CASE AppOpens \/ UserOpens
  <2>1. PICK a : appOf' = [appOf EXCEPT ![opened + 1] = a]
    BY <1>6 DEF AppOpens, UserOpens, Opens
  <2>2. UNCHANGED <<pc, g, known, found, restored>>
    BY <1>6 DEF AppOpens, UserOpens, Opens, runVars
  <2>3. /\ opened \in Nat /\ found \subseteq 1 .. opened /\ known \subseteq 1 .. opened
        /\ appOf \in [1 .. MaxWindow -> App \cup {NoApp}]
    BY SMTT(30) DEF Typed, TypeOK
  <2>4. \A w \in known \cup found : appOf'[w] = appOf[w]
    BY <2>1, <2>3
  <2>5. Collected'
    BY <1>0, <2>2, <2>4 DEF Adoption, Collected, G
  <2>6. Adopted'
    BY <1>0, <2>2, <2>4 DEF Adoption, Adopted
  <2> QED
    BY <2>5, <2>6 DEF Adoption
<1> QED
  BY <1>1, <1>2, <1>3, <1>4, <1>5, <1>6 DEF Next, Run, Fails, Desktop

LEMMA AdoptionInvariant == Spec => [](Typed /\ Adoption)
  BY TypedInit, TypedNext, AdoptionInit, AdoptionNext, PTL DEF Spec

\* Whatever the desktop does during the run, an adopted window is new, of the right app, and
\* adopted for one slot only.
THEOREM AdoptionIsSound == Spec => []AdoptsOnlyNewWindowsOfTheApp
<1>1. Adoption => AdoptsOnlyNewWindowsOfTheApp
  BY DEF Adoption, Adopted, AdoptsOnlyNewWindowsOfTheApp
<1> QED
  BY <1>1, AdoptionInvariant, PTL

-----------------------------------------------------------------------------
\* Groups are launched in order, each when it is reached and never again.
Launches ==
  /\ LaunchedAtMostOnce
  /\ pc = "start" => \A i \in 1 .. N : spawned[i] = 0
  /\ pc = "group" => apply /\ \A i \in g .. N : spawned[i] = 0
  /\ pc \in {"collect", "place"} => apply /\ \A i \in g + 1 .. N : spawned[i] = 0

LEMMA LaunchesInit == Typed /\ Init => Launches
  BY PlanFacts DEF Typed, Init, Launches, LaunchedAtMostOnce

LEMMA LaunchesNext == Typed /\ Launches /\ [Next]_vars => Launches'
<1> SUFFICES ASSUME Typed, Launches, [Next]_vars PROVE Launches'
  OBVIOUS
<1>0. plan' = plan /\ N' = N /\ N \in Nat
  BY PlanFixed, PlanFacts DEF Typed
<1>t. g \in 1 .. N + 1 /\ spawned \in [1 .. N -> Nat]
  BY DEF Typed, TypeOK
<1>1. CASE /\ UNCHANGED <<apply, spawned>>
           /\ \/ pc' \in Ended \cup {"finish", "point"}
              \/ pc' = pc /\ g' = g
              \/ pc = "collect" /\ pc' = "place" /\ g' = g
              \/ pc \in {"group", "place"} /\ pc' = "group" /\ g' = g + 1
              \/ pc = "start" /\ pc' = "group" /\ apply
  <2>1. LaunchedAtMostOnce'
    BY <1>0, <1>1 DEF Launches, LaunchedAtMostOnce
  <2>2. /\ pc' = "start" => \A i \in 1 .. N : spawned[i] = 0
        /\ pc' = "group" => apply /\ \A i \in g' .. N : spawned[i] = 0
        /\ pc' \in {"collect", "place"} => apply /\ \A i \in g' + 1 .. N : spawned[i] = 0
    <3>1. CASE pc' \in Ended \cup {"finish", "point"} \/ (pc' = pc /\ g' = g)
      BY <1>0, <1>t, <3>1 DEF Launches
    <3>2. CASE pc = "collect" /\ pc' = "place" /\ g' = g
      BY <1>0, <1>t, <3>2 DEF Launches
    <3>3. CASE pc \in {"group", "place"} /\ pc' = "group" /\ g' = g + 1
      <4>1. apply /\ \A i \in g + 1 .. N : spawned[i] = 0
        BY <1>0, <1>t, <3>3 DEF Launches
      <4> QED
        BY <3>3, <4>1
    <3>4. CASE pc = "start" /\ pc' = "group" /\ apply
      <4>1. \A i \in 1 .. N : spawned[i] = 0
        BY <3>4 DEF Launches
      <4>2. g' \in 1 .. N + 1
        BY <1>0, TypedNext DEF Typed, TypeOK
      <4> QED
        BY <1>0, <3>4, <4>1, <4>2
    <3> QED
      BY <1>1, <3>1, <3>2, <3>3, <3>4
  <2> QED
    BY <1>0, <1>1, <2>1, <2>2 DEF Launches
<1>2. CASE Spawn \/ SpawnFails
  <2>1. /\ pc = "group" /\ g <= N /\ plan.groups[g].skip = "none" /\ apply' = apply
        /\ spawned' = spawned \/ spawned' = [spawned EXCEPT ![g] = @ + 1]
        /\ pc' = "finish" \/ (pc' = "collect" /\ g' = g)
    BY <1>2 DEF Spawn, SpawnFails, Interrupted, G
  <2>2. \A i \in 1 .. N : \/ spawned'[i] = spawned[i]
                          \/ i = g /\ spawned'[i] = spawned[i] + 1
    <3>1. CASE spawned' = spawned
      BY <3>1
    <3>2. CASE spawned' = [spawned EXCEPT ![g] = @ + 1]
      BY <1>t, <3>2
    <3> QED
      BY <2>1, <3>1, <3>2
  <2>3. spawned[g] = 0 /\ apply
    BY <1>0, <1>t, <2>1 DEF Launches
  <2>4. LaunchedAtMostOnce'
    BY <1>0, <1>t, <2>1, <2>2, <2>3 DEF Launches, LaunchedAtMostOnce
  <2> QED
    BY <1>0, <1>t, <2>1, <2>2, <2>3, <2>4 DEF Launches
<1>3. CASE Refuse \/ Admit \/ DryRun \/ SkipGroup \/ GroupDone \/ Poll
  BY <1>1, <1>3 DEF Refuse, Admit, DryRun, SkipGroup, GroupDone, Poll, NextGroup, runVars
<1>4. CASE \/ Place \/ Arrange \/ StoreReceipt \/ SetPointer \/ CollectFails
           \/ PlaceFails \/ ArrangeFails \/ Crash
  BY <1>1, <1>4 DEF Place, Arrange, StoreReceipt, SetPointer, CollectFails, PlaceFails,
     ArrangeFails, Interrupted, Crash, runVars
<1>5. CASE Desktop \/ Finished \/ UNCHANGED vars
  BY <1>1, <1>5 DEF Desktop, AppOpens, UserOpens, Opens, Closes, Finished, vars, runVars
<1> QED
  BY <1>2, <1>3, <1>4, <1>5 DEF Next, Run, Fails

\* README "Guarantees": late, missing or closed windows never lead to a second launch.
THEOREM LaunchOnce == Spec => []LaunchedAtMostOnce
<1>1. Launches => LaunchedAtMostOnce
  BY DEF Launches
<1> QED
  BY <1>1, TypedInit, TypedNext, LaunchesInit, LaunchesNext, PTL DEF Spec

-----------------------------------------------------------------------------
\* Who opened what: a window the user did not open, and that opened in its own group's wait,
\* is collected by that wait or closed before it ends, so no later group can find it.
Origins ==
  /\ \A w \in 1 .. opened : opener[w] = 0 => w \in Protected \cup strays
  /\ \A w \in 1 .. opened : opener[w] # 0 => appOf[w] = plan.groups[opener[w]].app
  /\ pc \in {"start", "group", "place"} => live \subseteq known \cup strays
  /\ pc = "collect" => \A w \in live : w \in known \cup strays \/ opener[w] = g
  /\ pc \in {"collect", "place"} => \A w \in found : w \in strays \/ opener[w] = g
  /\ MisadoptsOnlyStrays

LEMMA OriginsInit == Typed /\ Init => Origins
<1> SUFFICES ASSUME Typed, Init PROVE Origins
  OBVIOUS
<1>1. /\ live = Protected /\ 1 .. opened = Protected /\ known = Protected /\ pc = "start"
      /\ \A s \in Slot : restored[s] = 0
  BY DEF Init, Protected
<1>2. \A w \in 1 .. opened : opener[w] = 0
  BY BoundsAssumption DEF Typed, TypeOK, Init
<1> QED
  BY <1>1, <1>2 DEF Origins, MisadoptsOnlyStrays

LEMMA OriginsNext == Typed /\ Typed' /\ Adoption /\ Origins /\ [Next]_vars => Origins'
<1> SUFFICES ASSUME Typed, Typed', Adoption, Origins, [Next]_vars PROVE Origins'
  OBVIOUS
<1>0. plan' = plan /\ N' = N /\ N \in Nat /\ Protected' = Protected
      /\ \A i : SlotsOf(i)' = SlotsOf(i)
  BY PlanFixed, PlanFacts DEF Typed
<1>t. /\ opened \in Nat /\ live \subseteq 1 .. opened /\ found \subseteq 1 .. opened
      /\ restored \in [Slot -> 0 .. opened] /\ known \subseteq 1 .. opened
      /\ strays \subseteq 1 .. opened
      /\ opener \in [1 .. MaxWindow -> 0 .. N]
      /\ appOf \in [1 .. MaxWindow -> App \cup {NoApp}]
  BY SMTT(30) DEF Typed, TypeOK
<1>1. CASE /\ UNCHANGED <<opened, appOf, opener, strays, restored, known, found>>
           /\ live' \subseteq live
           /\ \/ pc' \in Ended \cup {"finish", "point"}
              \/ pc' = pc /\ g' = g
              \/ pc \in {"start", "group", "place"} /\ pc' = "group"
  <2>1. MisadoptsOnlyStrays'
    BY <1>0, <1>1 DEF Origins, MisadoptsOnlyStrays
  <2> QED
    BY <1>0, <1>1, <2>1 DEF Origins
<1>2. CASE Spawn
  <2>1. UNCHANGED <<opened, live, appOf, opener, strays, restored, known>>
        /\ found' = {} /\ pc = "group" /\ pc' = "collect"
    BY <1>2 DEF Spawn, envVars
  <2>2. MisadoptsOnlyStrays'
    BY <1>0, <2>1 DEF Origins, MisadoptsOnlyStrays
  <2> QED
    BY <1>0, <2>1, <2>2 DEF Origins
<1>3. CASE Poll
  <2>1. /\ UNCHANGED <<opened, live, appOf, opener, strays, restored, g>>
        /\ found' = found \cup Arrivals /\ pc = "collect"
        /\ \/ pc' = "place" /\ known' = known \cup found'
           \/ pc' = "collect" /\ known' = known
    BY <1>3 DEF Poll, envVars
  <2>2. g \in 1 .. N
    BY <2>1 DEF Typed, TypeOK
  <2>3. \A w \in live : opener[w] = g => w \in known \cup found'
    BY <1>t, <2>1, <2>2 DEF Origins, Arrivals, G
  <2>4. \A w \in found' : w \in strays \/ opener[w] = g
    BY <2>1 DEF Origins, Arrivals
  <2>5. MisadoptsOnlyStrays'
    BY <1>0, <2>1 DEF Origins, MisadoptsOnlyStrays
  <2>6. pc' = "place" => live \subseteq known' \cup strays
    BY <2>1, <2>3 DEF Origins
  <2> QED
    BY <1>0, <2>1, <2>4, <2>5, <2>6 DEF Origins
<1>4. CASE Place \/ PlaceFails
  <2>1. /\ pc = "place" /\ pc' \in {"place", "finish"} /\ k <= Len(G.slots)
        /\ UNCHANGED <<opened, live, appOf, opener, strays, known, g>>
    BY <1>4 DEF Place, PlaceFails, Interrupted, envVars
  <2>2. PICK w \in found : /\ restored' = [restored EXCEPT ![G.slots[k]] = w]
                           /\ found' \subseteq found
    BY <1>4 DEF Place, PlaceFails, Interrupted
  <2>3. g \in 1 .. N /\ G.slots[k] \in Slot /\ G.slots[k] \in SlotsOf(g)
    BY <2>1, NextSlot
  <2>4. \A s \in Slot : restored'[s] = IF s = G.slots[k] THEN w ELSE restored[s]
    BY <1>t, <2>2, <2>3
  <2>5. w \in strays \/ opener[w] = g
    BY <2>1 DEF Origins
  <2>6. MisadoptsOnlyStrays'
    BY <1>0, <2>1, <2>3, <2>4, <2>5 DEF Origins, MisadoptsOnlyStrays
  <2> QED
    BY <1>0, <2>1, <2>2, <2>6 DEF Origins
<1>5. CASE AppOpens \/ UserOpens
  <2> DEFINE new == opened + 1
  <2>1. PICK a \in App, i \in 0 .. N :
          /\ opened < MaxWindow /\ opened' = new /\ live' = live \cup {new}
          /\ appOf' = [appOf EXCEPT ![new] = a] /\ opener' = [opener EXCEPT ![new] = i]
          /\ \/ strays' = strays \cup {new}
             \/ strays' = strays /\ pc = "collect" /\ i = g /\ i # 0
          /\ i # 0 => a = plan.groups[i].app
          /\ UNCHANGED <<pc, g, known, found, restored>>
    <3>1. CASE AppOpens
      <4>1. PICK i \in 1 .. N : Opens(plan.groups[i].app, i, ~(pc = "collect" /\ i = g))
        BY <3>1 DEF AppOpens
      <4>2. plan.groups[i].app \in App /\ i \in 0 .. N
        BY PlanFacts DEF Typed
      <4>3. \/ strays' = strays \cup {new}
            \/ strays' = strays /\ pc = "collect" /\ i = g /\ i # 0
        BY <1>0, <4>1 DEF Opens
      <4>4. /\ opened < MaxWindow /\ opened' = new /\ live' = live \cup {new}
            /\ appOf' = [appOf EXCEPT ![new] = plan.groups[i].app]
            /\ opener' = [opener EXCEPT ![new] = i]
            /\ UNCHANGED <<pc, g, known, found, restored>>
        BY <4>1 DEF Opens, runVars
      <4> QED
        BY <4>2, <4>3, <4>4
    <3>2. CASE UserOpens
      <4>1. 0 \in 0 .. N
        BY <1>0
      <4> QED
        BY <3>2, <4>1 DEF UserOpens, Opens, runVars
    <3> QED
      BY <1>5, <3>1, <3>2
  <2>2. /\ new \in 1 .. MaxWindow
        /\ strays' \in {strays, strays \cup {new}}
    BY <1>t, <2>1, BoundsAssumption
  <2>3. /\ \A w \in 1 .. opened : appOf'[w] = appOf[w] /\ opener'[w] = opener[w]
        /\ appOf'[new] = a /\ opener'[new] = i
    BY <1>t, <2>1, <2>2
  <2>4. \A w \in 1 .. new : w \in 1 .. opened \/ w = new
    BY <1>t
  <2>5. \A w \in 1 .. opened' :
          /\ opener'[w] = 0 => w \in Protected \cup strays'
          /\ opener'[w] # 0 => appOf'[w] = plan.groups[opener'[w]].app
    BY <2>1, <2>2, <2>3, <2>4 DEF Origins
  <2>6. new \in strays' \/ (pc = "collect" /\ opener'[new] = g)
    BY <2>1, <2>2, <2>3
  <2>7. /\ pc \in {"start", "group", "place"} => live' \subseteq known \cup strays'
        /\ pc = "collect" => \A w \in live' : w \in known \cup strays' \/ opener'[w] = g
        /\ pc \in {"collect", "place"} => \A w \in found : w \in strays' \/ opener'[w] = g
    BY <1>t, <2>1, <2>2, <2>3, <2>6 DEF Origins
  <2>8. MisadoptsOnlyStrays'
    BY <1>0, <1>t, <2>1, <2>2, <2>3 DEF Origins, MisadoptsOnlyStrays
  <2> QED
    BY <1>0, <2>1, <2>5, <2>7, <2>8 DEF Origins
<1>6. CASE Refuse \/ Admit \/ DryRun \/ SkipGroup \/ GroupDone \/ Arrange
  BY <1>1, <1>6 DEF Refuse, Admit, DryRun, SkipGroup, GroupDone, Arrange, runVars, envVars
<1>7. CASE \/ StoreReceipt \/ SetPointer \/ SpawnFails \/ CollectFails \/ ArrangeFails \/ Crash
           \/ Closes \/ Finished \/ UNCHANGED vars
  BY <1>1, <1>7 DEF StoreReceipt, SetPointer, SpawnFails, CollectFails, ArrangeFails,
     Interrupted, Crash, Closes, Finished, vars, runVars, envVars
<1> QED
  BY <1>2, <1>3, <1>4, <1>5, <1>6, <1>7 DEF Next, Run, Fails, Desktop

\* docs/usage.md, "Save and reopen": the only way a slot gets a window another launch or the
\* user opened is that this window appeared outside its own group's wait.
THEOREM OnlyStraysMisadopted == Spec => []MisadoptsOnlyStrays
<1>1. Origins => MisadoptsOnlyStrays
  BY DEF Origins
<1> QED
  BY <1>1, AdoptionInvariant, TypedInit, OriginsInit, OriginsNext, PTL DEF Spec

-----------------------------------------------------------------------------
\* The receipt: what is not settled yet is still ahead, and the failures are the slots that
\* are reported as missing so far.
Missed == {s \in Slot : status[s] \in Failed}

Counted ==
  /\ failures = Cardinality(Missed)
  /\ \A s \in Slot : status[s] \notin {"planned", "not-attempted"}

Settled == \A s \in Slot : status[s] # "none"

Ahead(s) ==
  \E i \in 1 .. N :
    /\ s \in SlotsOf(i)
    /\ i > g \/ (i = g /\ (pc = "place" => \E j \in k .. Len(G.slots) : G.slots[j] = s))

Tally ==
  /\ pc \in {"start", "group", "collect", "place"} =>
       /\ Counted /\ outcome = "none" /\ receipt = "none"
       /\ \A s \in Slot : status[s] = "none" <=> Ahead(s)
  /\ pc = "place" => k <= Len(G.slots) + 1
  /\ pc = "finish" =>
       /\ outcome # "none" /\ receipt = "none"
       /\ outcome \in Points => Counted /\ Settled /\ (outcome = "reopened" <=> failures = 0)
  /\ receipt # "none" => Settled
  /\ receipt \in Points => Counted /\ (receipt = "reopened" <=> failures = 0)

LEMMA CoverFacts ==
  ASSUME plan \in Plans
  PROVE  /\ \A s \in Slot : plan.preset[s] = "none" <=> \E i \in 1 .. N : s \in SlotsOf(i)
         /\ \A i \in 1 .. N : SlotsOf(i) = {plan.groups[i].slots[j] : j \in 1 .. Len(plan.groups[i].slots)}
         /\ \A i, h \in 1 .. N :
              \A j \in 1 .. Len(plan.groups[i].slots), l \in 1 .. Len(plan.groups[h].slots) :
                plan.groups[i].slots[j] = plan.groups[h].slots[l] => i = h /\ j = l
<1>1. DOMAIN plan.groups = 1 .. N
  BY PlansAssumption DEF N, PlanTyped
<1>2. ASSUME NEW i \in 1 .. N PROVE DOMAIN plan.groups[i].slots = 1 .. Len(plan.groups[i].slots)
  <2>1. plan.groups[i] \in Group
    BY PlanFacts
  <2>2. plan.groups[i].slots \in Seq(Slot)
    BY <2>1 DEF Group
  <2> QED
    BY <2>2
<1>3. \A s \in Slot : plan.preset[s] = "none" <=> \E i \in 1 .. N : s \in SlotsOf(i)
  <2> SUFFICES ASSUME NEW s \in Slot
               PROVE  plan.preset[s] = "none" <=> \E i \in 1 .. N : s \in SlotsOf(i)
    OBVIOUS
  <2>1. plan.preset[s] = "none" <=>
          \E i \in DOMAIN plan.groups :
            \E j \in DOMAIN plan.groups[i].slots : plan.groups[i].slots[j] = s
    BY PlacesAssumption DEF OnePlaceEach
  <2>2. \A i : s \in SlotsOf(i) <=>
          \E j \in DOMAIN plan.groups[i].slots : plan.groups[i].slots[j] = s
    BY DEF SlotsOf
  <2> QED
    BY <1>1, <2>1, <2>2
<1>4. \A i \in 1 .. N :
        SlotsOf(i) = {plan.groups[i].slots[j] : j \in 1 .. Len(plan.groups[i].slots)}
  BY <1>2 DEF SlotsOf
<1>5. \A i, h \in DOMAIN plan.groups :
        \A j \in DOMAIN plan.groups[i].slots, l \in DOMAIN plan.groups[h].slots :
          plan.groups[i].slots[j] = plan.groups[h].slots[l] => i = h /\ j = l
  BY PlacesAssumption, Zenon DEF OnePlaceEach
<1>6. \A i, h \in 1 .. N :
        \A j \in 1 .. Len(plan.groups[i].slots), l \in 1 .. Len(plan.groups[h].slots) :
          plan.groups[i].slots[j] = plan.groups[h].slots[l] => i = h /\ j = l
  BY <1>1, <1>2, <1>5
<1> QED
  BY <1>3, <1>4, <1>6

\* The slots from a place of a group on are as many as the places.
LEMMA TailCount ==
  ASSUME NEW q \in Seq(Slot), \A i, j \in 1 .. Len(q) : q[i] = q[j] => i = j,
         NEW a \in Nat \ {0}, a <= Len(q) + 1
  PROVE  Cardinality({q[j] : j \in a .. Len(q)}) = Len(q) - a + 1
<1> DEFINE f == [j \in a .. Len(q) |-> q[j]]
           T == {q[j] : j \in a .. Len(q)}
<1>1. f \in Bijection(a .. Len(q), T)
  BY DEF Bijection, Injection, Surjection, IsInjective
<1>2. ExistsBijection(a .. Len(q), T)
  BY <1>1 DEF ExistsBijection
<1>3. a \in Int /\ Len(q) \in Int
  OBVIOUS
<1>4. IsFiniteSet(a .. Len(q)) /\ Cardinality(a .. Len(q)) = Len(q) - a + 1
  <2>1. /\ IsFiniteSet(a .. Len(q))
        /\ Cardinality(a .. Len(q)) = IF a > Len(q) THEN 0 ELSE Len(q) - a + 1
    BY <1>3, FS_Interval, Zenon
  <2>2. a > Len(q) => Len(q) - a + 1 = 0
    BY <1>3
  <2> QED
    BY <2>1, <2>2
<1>5. Cardinality(T) = Cardinality(a .. Len(q))
  BY <1>2, <1>4, FS_Bijection
<1> QED
  BY <1>4, <1>5

\* Reporting the slots from a place on as missing counts each of them once.
LEMMA CountsTail ==
  ASSUME Typed, Counted, NEW q \in Seq(Slot), \A i, j \in 1 .. Len(q) : q[i] = q[j] => i = j,
         NEW a \in Nat \ {0}, a <= Len(q) + 1, NEW bad \in Failed,
         \A j \in a .. Len(q) : status[q[j]] = "none",
         status' = [s \in Slot |-> IF \E j \in a .. Len(q) : q[j] = s THEN bad ELSE status[s]],
         failures' = failures + (Len(q) - a + 1)
  PROVE  Counted'
<1> DEFINE T == {q[j] : j \in a .. Len(q)}
<1>1. T \subseteq Slot
  OBVIOUS
<1>2. Missed' = Missed \cup T /\ Missed \cap T = {}
  BY DEF Missed, Failed
<1>3. IsFiniteSet(Missed) /\ IsFiniteSet(T) /\ IsFiniteSet(Missed \cap T)
  BY <1>1, SlotAssumption, FS_Subset DEF Missed
<1>4. Cardinality(Missed \cup T) = Cardinality(Missed) + Cardinality(T) - Cardinality(Missed \cap T)
  BY <1>3, FS_Union
<1>5. Cardinality(Missed \cap T) = 0 /\ Cardinality(Missed) \in Nat
  BY <1>2, <1>3, FS_EmptySet, FS_CardinalityType
<1>6. Cardinality(T) = Len(q) - a + 1
  BY TailCount
<1>7. failures' = Cardinality(Missed')
  BY <1>2, <1>4, <1>5, <1>6 DEF Counted
<1>8. \A s \in Slot : status'[s] \notin {"planned", "not-attempted"}
  BY DEF Counted, Failed
<1> QED
  BY <1>7, <1>8 DEF Counted

LEMMA TallyInit == Typed /\ Init => Tally
<1> SUFFICES ASSUME Typed, Init PROVE Tally
  OBVIOUS
<1>1. plan \in Plans /\ plan.preset \in [Slot -> {"none", "not-reopened", "already-open"}]
  BY PlanFacts DEF Typed
<1>2. Missed = {s \in Slot : plan.preset[s] = "not-reopened"}
  BY <1>1 DEF Missed, Failed, Init
<1>3. Counted
  BY <1>1, <1>2 DEF Counted, Init
<1>4. \A s \in Slot : status[s] = "none" <=> Ahead(s)
  BY <1>1, CoverFacts DEF Ahead, Init
<1> QED
  BY <1>3, <1>4 DEF Tally, Init, Points

\* The slots of the groups at hand and ahead are unsettled, the others are not.
LEMMA TallyNext == Typed /\ Tally /\ [Next]_vars => Tally'
<1> SUFFICES ASSUME Typed, Tally, [Next]_vars PROVE Tally'
  OBVIOUS
<1>0. plan' = plan /\ N' = N /\ N \in Nat /\ plan \in Plans /\ \A i : SlotsOf(i)' = SlotsOf(i)
  BY PlanFixed, PlanFacts DEF Typed
<1>t. g \in 1 .. N + 1 /\ k \in Nat \ {0} /\ status \in [Slot -> Status]
  BY DEF Typed, TypeOK
<1>q. ASSUME g <= N
      PROVE  /\ G.slots \in Seq(Slot) /\ G = plan.groups[g]
             /\ \A i, j \in 1 .. Len(G.slots) : G.slots[i] = G.slots[j] => i = j
             /\ SlotsOf(g) = {G.slots[j] : j \in 1 .. Len(G.slots)}
             /\ \A i \in 1 .. N : i # g => SlotsOf(i) \cap SlotsOf(g) = {}
  <2>1. g \in 1 .. N
    BY <1>0, <1>t, <1>q
  <2>2. G = plan.groups[g] /\ plan.groups[g] \in Group
    BY <1>0, <2>1, PlanFacts DEF G
  <2>3. G.slots \in Seq(Slot)
    BY <2>2 DEF Group
  <2>4. /\ \A i \in 1 .. N :
             SlotsOf(i) = {plan.groups[i].slots[j] : j \in 1 .. Len(plan.groups[i].slots)}
        /\ \A i, h \in 1 .. N :
             \A j \in 1 .. Len(plan.groups[i].slots), l \in 1 .. Len(plan.groups[h].slots) :
               plan.groups[i].slots[j] = plan.groups[h].slots[l] => i = h /\ j = l
    BY <1>0, CoverFacts
  <2>5. \A i, j \in 1 .. Len(G.slots) : G.slots[i] = G.slots[j] => i = j
    BY <2>1, <2>2, <2>4
  <2>6. SlotsOf(g) = {G.slots[j] : j \in 1 .. Len(G.slots)}
    BY <2>1, <2>2, <2>4
  <2>7. \A i \in 1 .. N : i # g => SlotsOf(i) \cap SlotsOf(g) = {}
    <3> SUFFICES ASSUME NEW i \in 1 .. N, i # g, NEW s \in SlotsOf(i), s \in SlotsOf(g)
                 PROVE  FALSE
      OBVIOUS
    <3>1. PICK j \in 1 .. Len(plan.groups[i].slots) : s = plan.groups[i].slots[j]
      BY <2>4
    <3>2. PICK l \in 1 .. Len(plan.groups[g].slots) : s = plan.groups[g].slots[l]
      BY <2>1, <2>4
    <3>3. plan.groups[i].slots[j] = plan.groups[g].slots[l]
      BY <3>1, <3>2, Zenon
    <3>4. i = g
      BY <2>1, <2>4, <3>3, Zenon
    <3> QED
      BY <3>4
  <2> QED
    BY <2>2, <2>3, <2>5, <2>6, <2>7
<1>1. CASE SkipGroup
  <2>1. /\ pc = "group" /\ pc' = pc /\ g <= N /\ g' = g + 1 /\ UNCHANGED <<outcome, receipt>>
        /\ status' = [s \in Slot |-> IF s \in SlotsOf(g) THEN G.skip ELSE status[s]]
        /\ failures' = IF G.skip = "no-route" THEN failures + Len(G.slots) ELSE failures
    BY <1>1 DEF SkipGroup, NextGroup
  <2>2. G.skip \in {"already-running", "no-route"}
    BY <1>0, <1>1, <1>t, PlanFacts DEF SkipGroup, G
  <2>3. \A s \in SlotsOf(g) : s \in Slot /\ status[s] = "none"
    <3>1. \A s \in SlotsOf(g) : s \in Slot /\ Ahead(s)
      BY <1>0, <1>t, <1>q, <2>1 DEF Ahead
    <3> QED
      BY <2>1, <3>1 DEF Tally
  <2>4. Counted'
    <3>1. CASE G.skip = "no-route"
      <4> DEFINE q == G.slots
      <4>1. q \in Seq(Slot) /\ Len(q) \in Nat /\ \A i, j \in 1 .. Len(q) : q[i] = q[j] => i = j
        BY <1>q, <2>1
      <4>2. status' = [s \in Slot |-> IF \E j \in 1 .. Len(q) : q[j] = s THEN "no-route" ELSE status[s]]
        BY <1>q, <2>1, <3>1
      <4>3. \A j \in 1 .. Len(q) : status[q[j]] = "none"
        BY <1>q, <2>1, <2>3
      <4>4. failures' = failures + (Len(q) - 1 + 1) /\ 1 <= Len(q) + 1 /\ 1 \in Nat \ {0}
        BY <2>1, <3>1, <4>1
      <4>5. Counted /\ "no-route" \in Failed
        BY <2>1 DEF Tally, Failed
      <4> HIDE DEF q
      <4> QED
        BY <4>1, <4>2, <4>3, <4>4, <4>5, CountsTail
    <3>2. CASE G.skip = "already-running"
      <4>1. Missed' = Missed
        BY <2>1, <2>3, <3>2 DEF Missed, Failed
      <4> QED
        BY <2>1, <3>2, <4>1 DEF Tally, Counted
    <3> QED
      BY <2>2, <3>1, <3>2
  <2>5. \A s \in Slot : status'[s] = "none" <=> Ahead(s)'
    <3>1. \A s \in Slot : Ahead(s)' <=> \E i \in 1 .. N : s \in SlotsOf(i) /\ (i > g + 1 \/ i = g + 1)
      BY <1>0, <2>1 DEF Ahead
    <3>2. \A s \in Slot : Ahead(s) <=> \E i \in 1 .. N : s \in SlotsOf(i) /\ (i > g \/ i = g)
      BY <2>1 DEF Ahead
    <3>3. \A s \in Slot : Ahead(s)' <=> Ahead(s) /\ s \notin SlotsOf(g)
      BY <1>0, <1>t, <1>q, <2>1, <3>1, <3>2
    <3> QED
      BY <2>1, <2>2, <3>3 DEF Tally
  <2> QED
    BY <2>1, <2>4, <2>5 DEF Tally, Points
<1>2. CASE Place
  <2>1. /\ pc = "place" /\ pc' = pc /\ k <= Len(G.slots) /\ k' = k + 1
        /\ UNCHANGED <<g, failures, outcome, receipt>>
        /\ status' = [status EXCEPT ![G.slots[k]] = "placed"]
    BY <1>2 DEF Place
  <2>2. g \in 1 .. N /\ G' = G
    BY <1>0, <2>1 DEF Typed, TypeOK, G
  <2> DEFINE q == G.slots
  <2>3. /\ q \in Seq(Slot) /\ Len(q) \in Nat /\ k \in 1 .. Len(q) /\ q[k] \in Slot /\ q[k] \in SlotsOf(g)
        /\ \A i, j \in 1 .. Len(q) : q[i] = q[j] => i = j
        /\ \A i \in 1 .. N : i # g => q[k] \notin SlotsOf(i)
    BY <1>q, <1>t, <2>1, <2>2
  <2>4. status[q[k]] = "none"
    <3>1. Ahead(q[k])
      BY <2>1, <2>2, <2>3 DEF Ahead
    <3> QED
      BY <2>1, <2>3, <3>1 DEF Tally
  <2>5. \A s \in Slot : status'[s] = IF s = q[k] THEN "placed" ELSE status[s]
    BY <1>t, <2>1, <2>3
  <2>6. Counted'
    <3>1. Missed' = Missed
      BY <2>4, <2>5 DEF Missed, Failed
    <3> QED
      BY <2>1, <2>5, <3>1 DEF Tally, Counted
  <2>7. \A s \in Slot : Ahead(s)' <=> Ahead(s) /\ s # q[k]
    <3>1. \A s \in Slot : (\E j \in k + 1 .. Len(q) : q[j] = s)
                            <=> (\E j \in k .. Len(q) : q[j] = s) /\ s # q[k]
      BY <2>3
    <3>2. ASSUME NEW s \in Slot
          PROVE  /\ Ahead(s) <=> \E i \in 1 .. N : s \in SlotsOf(i) /\ (i > g \/ (i = g /\ \E j \in k .. Len(q) : q[j] = s))
                 /\ Ahead(s)' <=> \E i \in 1 .. N : s \in SlotsOf(i) /\ (i > g \/ (i = g /\ \E j \in k + 1 .. Len(q) : q[j] = s))
      BY <1>0, <2>1, <2>2 DEF Ahead
    <3>3. \A i \in 1 .. N : i > g => q[k] \notin SlotsOf(i)
      BY <1>t, <2>3
    <3> HIDE DEF q
    <3> QED
      BY <3>1, <3>2, <3>3
  <2>8. \A s \in Slot : status'[s] = "none" <=> Ahead(s)'
    BY <2>1, <2>4, <2>5, <2>7 DEF Tally
  <2>9. k' <= Len(G'.slots) + 1
    BY <2>1, <2>2, <2>3
  <2> QED
    BY <2>1, <2>6, <2>8, <2>9 DEF Tally, Points
<1>3. CASE GroupDone
  <2>1. /\ pc = "place" /\ pc' = "group" /\ g' = g + 1 /\ UNCHANGED <<outcome, receipt>>
        /\ status' = [s \in Slot |->
             IF \E j \in k .. Len(G.slots) : G.slots[j] = s THEN "not-detected" ELSE status[s]]
        /\ failures' = failures + (Len(G.slots) - k + 1) /\ k <= Len(G.slots) + 1
    BY <1>3 DEF GroupDone, NextGroup, Missing, Tally
  <2>2. g \in 1 .. N
    BY <1>0, <2>1 DEF Typed, TypeOK
  <2> DEFINE q == G.slots
  <2>3. /\ q \in Seq(Slot) /\ Len(q) \in Nat /\ \A i, j \in 1 .. Len(q) : q[i] = q[j] => i = j
        /\ \A j \in k .. Len(q) : q[j] \in Slot /\ q[j] \in SlotsOf(g)
    BY <1>q, <1>t, <2>2
  <2>4. \A j \in k .. Len(q) : status[q[j]] = "none"
    <3>1. \A j \in k .. Len(q) : Ahead(q[j])
      BY <2>1, <2>2, <2>3 DEF Ahead
    <3> QED
      BY <2>1, <2>3, <3>1 DEF Tally
  <2>5. Counted /\ "not-detected" \in Failed
    BY <2>1 DEF Tally, Failed
  <2>6. /\ status' = [s \in Slot |-> IF \E j \in k .. Len(q) : q[j] = s THEN "not-detected" ELSE status[s]]
        /\ failures' = failures + (Len(q) - k + 1) /\ k <= Len(q) + 1
    BY <2>1
  <2>7. \A s \in Slot : Ahead(s) <=> (\E i \in 1 .. N : s \in SlotsOf(i) /\ i > g) \/ \E j \in k .. Len(q) : q[j] = s
    BY <2>1, <2>2, <2>3 DEF Ahead
  <2>8. \A s \in Slot : Ahead(s)' <=> \E i \in 1 .. N : s \in SlotsOf(i) /\ (i > g + 1 \/ i = g + 1)
    BY <1>0, <2>1 DEF Ahead
  <2>9. \A i \in 1 .. N : i > g => \A j \in k .. Len(q) : q[j] \notin SlotsOf(i)
    BY <1>q, <1>t, <2>2, <2>3
  <2> HIDE DEF q
  <2>10. Counted'
    <3>1. q \in Seq(Slot) /\ \A i, j \in 1 .. Len(q) : q[i] = q[j] => i = j
      BY <2>3
    <3>2. k \in Nat \ {0} /\ k <= Len(q) + 1
      BY <1>t, <2>6
    <3> QED
      BY <2>4, <2>5, <2>6, <3>1, <3>2, CountsTail
  <2>11. \A s \in Slot : status'[s] = "none" <=> Ahead(s)'
    <3>1. \A s \in Slot : Ahead(s)' <=> Ahead(s) /\ ~\E j \in k .. Len(q) : q[j] = s
      <4>1. \A i \in 1 .. N : i > g <=> i > g + 1 \/ i = g + 1
        BY <1>0, <2>2
      <4>2. \A s \in Slot : Ahead(s)' <=> \E i \in 1 .. N : s \in SlotsOf(i) /\ i > g
        BY <2>8, <4>1
      <4> QED
        BY <2>7, <2>9, <4>2
    <3> QED
      BY <2>1, <2>6, <3>1 DEF Tally
  <2> QED
    BY <2>1, <2>10, <2>11 DEF Tally, Points
<1>4. CASE Poll
  <2>1. /\ pc = "collect" /\ UNCHANGED <<g, status, failures, outcome, receipt>>
        /\ pc' = "collect" \/ (pc' = "place" /\ k' = 1)
    BY <1>4 DEF Poll
  <2>2. g \in 1 .. N /\ G' = G
    BY <1>0, <2>1 DEF Typed, TypeOK, G
  <2>3. Len(G.slots) \in Nat /\ SlotsOf(g) = {G.slots[j] : j \in 1 .. Len(G.slots)}
    BY <1>q, <2>2
  <2>4. \A s \in Slot : Ahead(s)' <=> Ahead(s)
    BY <1>0, <2>1, <2>2, <2>3 DEF Ahead
  <2>5. Counted'
    BY <2>1 DEF Tally, Counted, Missed
  <2> QED
    BY <2>1, <2>2, <2>3, <2>4, <2>5 DEF Tally, Points
<1>5. CASE Arrange
  <2>1. /\ pc = "group" /\ g > N /\ pc' = "finish" /\ UNCHANGED <<status, failures, receipt>>
        /\ outcome' = IF failures = 0 THEN "reopened" ELSE "reopened-partially"
    BY <1>5 DEF Arrange
  <2>2. Settled'
    BY <1>0, <1>t, <2>1 DEF Tally, Ahead, Settled
  <2>3. Counted'
    BY <2>1 DEF Tally, Counted, Missed
  <2> QED
    BY <2>1, <2>2, <2>3 DEF Tally, Points
<1>6. CASE DryRun \/ SpawnFails \/ CollectFails \/ PlaceFails \/ ArrangeFails
  <2>1. pc \in {"start", "group", "collect", "place"} /\ pc' = "finish" /\ receipt' = receipt
        /\ outcome' \in {"dry-run", "interrupted"}
    BY <1>6 DEF DryRun, SpawnFails, CollectFails, PlaceFails, ArrangeFails, Interrupted
  <2> QED
    BY <2>1 DEF Tally, Points
<1>7. CASE StoreReceipt
  <2>1. /\ pc = "finish" /\ pc' \in {"point", "done"} /\ receipt' = outcome /\ failures' = failures
        /\ status' = [s \in Slot |-> IF status[s] # "none" THEN status[s]
                                     ELSE IF apply THEN "not-attempted" ELSE "planned"]
    BY <1>7 DEF StoreReceipt
  <2>2. Settled'
    BY <2>1 DEF Settled
  <2>3. ASSUME outcome \in Points PROVE Counted'
    <3>1. \A s \in Slot : status'[s] = status[s]
      BY <2>1, <2>3 DEF Tally, Settled
    <3> QED
      BY <2>1, <2>3, <3>1 DEF Tally, Counted, Missed
  <2> QED
    BY <2>1, <2>2, <2>3 DEF Tally
<1>8. CASE /\ UNCHANGED <<g, k, status, failures, outcome, receipt>>
           /\ pc' = pc \/ pc' \in Ended \/ (pc = "start" /\ pc' = "group") \/ (pc = "group" /\ pc' = "collect")
  <2>1. G' = G /\ \A s \in Slot : pc' \notin Ended => (Ahead(s)' <=> Ahead(s))
    BY <1>0, <1>8 DEF Ahead, G
  <2>2. (Counted' <=> Counted) /\ (Settled' <=> Settled)
    BY <1>8 DEF Counted, Missed, Settled
  <2> QED
    BY <1>8, <2>1, <2>2 DEF Tally, Points
<1>9. CASE Refuse \/ Admit \/ Spawn \/ SetPointer \/ Crash
  BY <1>8, <1>9 DEF Refuse, Admit, Spawn, SetPointer, Crash, runVars
<1>10. CASE Desktop \/ Finished \/ UNCHANGED vars
  BY <1>8, <1>10 DEF Desktop, AppOpens, UserOpens, Opens, Closes, Finished, vars, runVars
<1> QED
  BY <1>1, <1>2, <1>3, <1>4, <1>5, <1>6, <1>7, <1>9, <1>10 DEF Next, Run, Fails

\* What the receipt leaves unsaid: an adopted window is reported as placed, except the one
\* whose move was interrupted.
Held ==
  /\ pc = "start" => \A s \in Slot : restored[s] = 0
  /\ \A s \in Slot : status[s] = "placed" => restored[s] # 0
  /\ \A s, r \in Unreported : s = r /\ outcome = "interrupted"
  /\ receipt # "none" => receipt = outcome

LEMMA HeldInit == Typed /\ Init => Held
<1> SUFFICES ASSUME Typed, Init PROVE Held
  OBVIOUS
<1>1. plan.preset \in [Slot -> {"none", "not-reopened", "already-open"}]
  BY PlanFacts DEF Typed
<1> QED
  BY <1>1 DEF Init, Held, Unreported

\* Settling slots that are still ahead leaves what was adopted alone.
LEMMA HeldFrame ==
  ASSUME Held, Tally, pc \in {"start", "group", "collect", "place"}, pc' # "start",
         UNCHANGED <<restored, receipt>>,
         \A s \in Slot : status'[s] # "placed" /\ status'[s] # status[s] => Ahead(s),
         \A s \in Slot : status'[s] = "placed" => status[s] = "placed"
  PROVE  Held'
<1>1. outcome = "none" /\ receipt = "none" /\ Unreported = {}
  BY DEF Tally, Held
<1>2. \A s \in Slot : Ahead(s) => restored[s] = 0
  BY <1>1 DEF Tally, Unreported
<1>3. Unreported' = {}
  BY <1>1, <1>2 DEF Unreported
<1> QED
  BY <1>1, <1>3 DEF Held

LEMMA HeldNext == Typed /\ Typed' /\ Tally /\ Held /\ [Next]_vars => Held'
<1> SUFFICES ASSUME Typed, Typed', Tally, Held, [Next]_vars PROVE Held'
  OBVIOUS
<1>0. g \in 1 .. N + 1 /\ status \in [Slot -> Status] /\ restored \in [Slot -> 0 .. opened]
  BY SMTT(30) DEF Typed, TypeOK
<1>1. CASE SkipGroup
  <2>1. /\ pc = "group" /\ pc' = pc /\ g <= N /\ UNCHANGED <<restored, receipt>>
        /\ status' = [s \in Slot |-> IF s \in SlotsOf(g) THEN G.skip ELSE status[s]]
    BY <1>1 DEF SkipGroup
  <2>2. G.skip # "placed"
    BY <1>0, <2>1, PlanFacts DEF Typed, G
  <2>3. \A s \in SlotsOf(g) : Ahead(s)
    BY <1>0, <2>1, PlanFacts DEF Typed, Ahead
  <2> QED
    BY <2>1, <2>2, <2>3, HeldFrame
<1>2. CASE GroupDone
  <2>1. /\ pc = "place" /\ pc' = "group" /\ UNCHANGED <<restored, receipt>>
        /\ status' = [s \in Slot |->
             IF \E j \in k .. Len(G.slots) : G.slots[j] = s THEN "not-detected" ELSE status[s]]
    BY <1>2 DEF GroupDone
  <2>2. g \in 1 .. N /\ k \in Nat \ {0}
    BY <2>1, PlanFacts DEF Typed, TypeOK
  <2>3. \A j \in 1 .. Len(G.slots) : G.slots[j] \in SlotsOf(g)
    BY <2>2, CoverFacts DEF Typed, G
  <2>5. \A j \in k .. Len(G.slots) : j \in 1 .. Len(G.slots)
    BY <2>2, PlanFacts DEF Typed, G
  <2>4. \A s \in Slot : (\E j \in k .. Len(G.slots) : G.slots[j] = s) => Ahead(s)
    BY <2>1, <2>2, <2>3, <2>5 DEF Ahead
  <2> QED
    BY <2>1, <2>4, HeldFrame
<1>3. CASE Place \/ PlaceFails
  <2>1. /\ pc = "place" /\ k <= Len(G.slots) /\ pc' \in {"place", "finish"} /\ receipt' = receipt
        /\ \/ status' = [status EXCEPT ![G.slots[k]] = "placed"]
           \/ status' = status /\ outcome' = "interrupted"
    BY <1>3 DEF Place, PlaceFails, Interrupted
  <2>2. PICK w \in found : restored' = [restored EXCEPT ![G.slots[k]] = w]
    BY <1>3 DEF Place, PlaceFails
  <2>3. G.slots[k] \in Slot /\ w # 0
    <3>1. found \subseteq 1 .. opened /\ opened \in Nat
      BY SMTT(30) DEF Typed, TypeOK
    <3> QED
      BY <2>1, <3>1, NextSlot
  <2>4. outcome = "none" /\ receipt = "none" /\ Unreported = {}
    BY <2>1 DEF Tally, Held
  <2>5. /\ \A s \in Slot : restored'[s] = IF s = G.slots[k] THEN w ELSE restored[s]
        /\ \A s \in Slot : s # G.slots[k] => status'[s] = status[s]
    BY <1>0, <2>1, <2>2, <2>3
  <2>6. Unreported' \subseteq {G.slots[k]}
    BY <2>4, <2>5 DEF Unreported
  <2>7. CASE status' = [status EXCEPT ![G.slots[k]] = "placed"]
    <3>1. status'[G.slots[k]] = "placed"
      BY <1>0, <2>3, <2>7
    <3>2. Unreported' = {}
      BY <2>6, <3>1 DEF Unreported
    <3> QED
      BY <2>1, <2>3, <2>4, <2>5, <3>2 DEF Held
  <2>8. CASE status' = status /\ outcome' = "interrupted"
    BY <2>1, <2>3, <2>4, <2>5, <2>6, <2>8 DEF Held
  <2> QED
    BY <2>1, <2>7, <2>8
<1>4. CASE DryRun
  <2>1. pc = "start" /\ pc' = "finish" /\ UNCHANGED <<restored, receipt>>
    BY <1>4 DEF DryRun
  <2>2. \A s \in Slot : restored'[s] = 0
    BY <2>1 DEF Held
  <2>3. ASSUME NEW s \in Slot PROVE status'[s] # "placed"
    <3>1. plan.preset[s] # "placed" /\ \A i \in 1 .. N : plan.groups[i].skip # "placed"
      BY PlanFacts DEF Typed
    <3>2. CASE \E i \in 1 .. N : s \in SlotsOf(i) /\ plan.groups[i].skip # "none"
      <4> DEFINE i0 == CHOOSE i \in 1 .. N : s \in SlotsOf(i)
      <4>1. i0 \in 1 .. N
        BY <3>2
      <4> QED
        BY <1>4, <3>1, <3>2, <4>1 DEF DryRun
    <3>3. CASE ~\E i \in 1 .. N : s \in SlotsOf(i) /\ plan.groups[i].skip # "none"
      BY <1>4, <3>1, <3>3 DEF DryRun
    <3> QED
      BY <3>2, <3>3
  <2>4. receipt = "none" /\ Unreported' = {}
    BY <2>1, <2>2 DEF Tally, Unreported
  <2> QED
    BY <2>1, <2>3, <2>4 DEF Held
<1>5. CASE StoreReceipt
  <2>1. /\ pc' # "start" /\ UNCHANGED <<restored, outcome>> /\ receipt' = outcome
        /\ \A s \in Slot : status'[s] = IF status[s] # "none" THEN status[s]
                                       ELSE IF apply THEN "not-attempted" ELSE "planned"
    BY <1>5 DEF StoreReceipt
  <2>2. Unreported' = Unreported
    BY <2>1 DEF Unreported
  <2> QED
    BY <2>1, <2>2 DEF Held
<1>6. CASE Spawn \/ Poll \/ Arrange \/ SpawnFails \/ CollectFails \/ ArrangeFails
  <2>1. /\ pc \in {"group", "collect"} /\ pc' # "start"
        /\ UNCHANGED <<restored, receipt, status>>
    BY <1>6 DEF Spawn, Poll, Arrange, SpawnFails, CollectFails, ArrangeFails, Interrupted
  <2> QED
    BY <2>1, HeldFrame
<1>7. CASE /\ UNCHANGED <<restored, status, outcome, receipt>>
           /\ pc' = pc \/ pc' # "start"
  <2>1. Unreported' = Unreported
    BY <1>7 DEF Unreported
  <2> QED
    BY <1>7, <2>1 DEF Held
<1>8. CASE Refuse \/ Admit \/ SetPointer \/ Crash \/ Desktop \/ Finished \/ UNCHANGED vars
  <2>1. UNCHANGED <<restored, status, outcome, receipt>> /\ (pc' = pc \/ pc' # "start")
    BY <1>8, SMTT(30) DEF Refuse, Admit, SetPointer, Crash, Desktop, AppOpens, UserOpens, Opens,
       Closes, Finished, Ended, vars, runVars
  <2> QED
    BY <1>7, <2>1
<1> QED
  BY <1>1, <1>2, <1>3, <1>4, <1>5, <1>6, <1>8 DEF Next, Run, Fails

\* reopen._run and finish: the receipt has a line for every saved window, counts exactly those it
\* reports as missing, says `reopened` only when there is none, and leaves an adopted window
\* unreported only when the run was interrupted, one at most.
THEOREM ReceiptIsTrue == Spec => []ReceiptMatchesWindows
<1>1. Typed /\ Tally /\ receipt \in Points =>
        /\ receipt = "reopened" <=>
             \A s \in Slot : status[s] \in {"placed", "already-open", "already-running"}
        /\ failures = Cardinality({s \in Slot : status[s] \in Failed})
  <2> SUFFICES ASSUME Typed, Tally, receipt \in Points
               PROVE  /\ receipt = "reopened" <=>
                           \A s \in Slot : status[s] \in {"placed", "already-open", "already-running"}
                      /\ failures = Cardinality({s \in Slot : status[s] \in Failed})
    OBVIOUS
  <2>1. Counted /\ Settled /\ (receipt = "reopened" <=> failures = 0)
    BY DEF Tally, Points
  <2>2. IsFiniteSet(Missed)
    BY SlotAssumption, FS_Subset DEF Missed
  <2>3. failures = 0 <=> Missed = {}
    BY <2>1, <2>2, FS_EmptySet DEF Counted
  <2>4. status \in [Slot -> Status]
    BY DEF Typed, TypeOK
  <2>5. Missed = {} <=> \A s \in Slot : status[s] \in {"placed", "already-open", "already-running"}
    BY <2>1, <2>4 DEF Missed, Failed, Settled, Counted
  <2> QED
    BY <2>1, <2>3, <2>5 DEF Counted, Missed
<1>2. Tally => (receipt # "none" => \A s \in Slot : status[s] # "none")
  BY DEF Tally, Settled
<1>3. Typed /\ Tally /\ Held => ReceiptMatchesWindows
  BY <1>1, <1>2, Zenon DEF Held, ReceiptMatchesWindows, Points
<1> QED
  BY <1>3, TypedInit, TypedNext, TallyInit, TallyNext, HeldInit, HeldNext, PTL DEF Spec
-----------------------------------------------------------------------------
(* Orders and sorted lists of finite sets.                                 *)

\* Induction over the naturals, with a set for the predicate.
LEMMA NumberInduction ==
  ASSUME NEW S, 0 \in S, \A n \in Nat : n \in S => n + 1 \in S
  PROVE  Nat \subseteq S
<1> DEFINE R == OpToRel(<, Nat)
           B == Nat \ S
<1>1. \A x, y \in Nat : <<x, y>> \in R <=> x < y
  BY DEF OpToRel
<1>2. IsWellFoundedOn(R, Nat)
  BY NatLessThanWellFounded
<1> HIDE DEF R
<1>3. ASSUME B # {} PROVE FALSE
  <2>1. PICK x \in B : \A y \in B : ~(<<y, x>> \in R)
    BY <1>2, <1>3, WFMin
  <2>2. x # 0 /\ x - 1 \in Nat /\ x - 1 < x
    BY <2>1
  <2>3. x - 1 \in S
    BY <1>1, <2>1, <2>2
  <2> QED
    BY <2>1, <2>2, <2>3
<1> QED
  BY <1>3

\* B orders S.
Orders(B, S) ==
  /\ \A x \in S : <<x, x>> \notin B
  /\ \A x, y, z \in S : <<x, y>> \in B /\ <<y, z>> \in B => <<x, z>> \in B
  /\ \A x, y \in S : x = y \/ <<x, y>> \in B \/ <<y, x>> \in B

Sorted(q, T, B) ==
  /\ q \in [1 .. Cardinality(T) -> T]
  /\ \A i, j \in DOMAIN q : i < j => <<q[i], q[j]>> \in B

HasLast(T, B) == \E m \in T : \A x \in T \ {m} : <<x, m>> \in B

\* What is ordered and finite has a last member.
LEMMA LastOf ==
  ASSUME NEW S, NEW B, Orders(B, S)
  PROVE  \A T \in SUBSET S : IsFiniteSet(T) /\ T # {} => HasLast(T, B)
<1> DEFINE X == {n \in Nat : \A T \in SUBSET S :
                               IsFiniteSet(T) /\ Cardinality(T) = n /\ T # {} => HasLast(T, B)}
<1>1. 0 \in X
  BY FS_EmptySet
<1>2. ASSUME NEW n \in Nat, n \in X PROVE n + 1 \in X
  <2> SUFFICES ASSUME NEW T \in SUBSET S, IsFiniteSet(T), Cardinality(T) = n + 1, T # {}
               PROVE  HasLast(T, B)
    OBVIOUS
  <2>1. PICK x \in T : TRUE
    OBVIOUS
  <2> DEFINE U == T \ {x}
  <2>0. IsFiniteSet(U) /\ Cardinality(U) = Cardinality(T) - 1
    <3> HIDE DEF X
    <3> QED
      BY <2>1, FS_RemoveElement
  <2>2. IsFiniteSet(U) /\ Cardinality(U) = n /\ U \in SUBSET S
    <3> HIDE DEF X
    <3> QED
      BY <2>0
  <2>3. CASE U = {}
    BY <2>1, <2>3 DEF HasLast
  <2>4. CASE U # {}
    <3>1. HasLast(U, B)
      BY <1>2, <2>2, <2>4
    <3>2. PICK m \in U : \A y \in U \ {m} : <<y, m>> \in B
      BY <3>1 DEF HasLast
    <3>3. CASE <<x, m>> \in B
      BY <2>1, <3>2, <3>3 DEF HasLast
    <3>4. CASE <<m, x>> \in B
      <4>1. \A y \in T \ {x} : <<y, x>> \in B
        BY <2>1, <3>2, <3>4 DEF Orders
      <4> QED
        BY <2>1, <4>1 DEF HasLast
    <3> QED
      BY <2>1, <3>2, <3>3, <3>4 DEF Orders
  <2> QED
    BY <2>3, <2>4
<1> HIDE DEF X
<1>3. Nat \subseteq X
  BY <1>1, <1>2, NumberInduction
<1> QED
  BY <1>3, FS_CardinalityType DEF X

\* What is ordered and finite can be listed in order.
LEMMA Sortable ==
  ASSUME NEW S, NEW B, Orders(B, S)
  PROVE  \A T \in SUBSET S : IsFiniteSet(T) => \E q : Sorted(q, T, B)
<1> DEFINE X == {n \in Nat : \A T \in SUBSET S :
                               IsFiniteSet(T) /\ Cardinality(T) = n => \E q : Sorted(q, T, B)}
<1>1. 0 \in X
  <2> SUFFICES ASSUME NEW T \in SUBSET S, IsFiniteSet(T), Cardinality(T) = 0
               PROVE  \E q : Sorted(q, T, B)
    OBVIOUS
  <2>1. Sorted([i \in 1 .. 0 |-> i], T, B)
    BY DEF Sorted
  <2> QED
    BY <2>1
<1>2. ASSUME NEW n \in Nat, n \in X PROVE n + 1 \in X
  <2> SUFFICES ASSUME NEW T \in SUBSET S, IsFiniteSet(T), Cardinality(T) = n + 1
               PROVE  \E q : Sorted(q, T, B)
    OBVIOUS
  <2>1. HasLast(T, B)
    BY LastOf, FS_EmptySet
  <2>2. PICK m \in T : \A x \in T \ {m} : <<x, m>> \in B
    BY <2>1 DEF HasLast
  <2> DEFINE U == T \ {m}
  <2>0. IsFiniteSet(U) /\ Cardinality(U) = Cardinality(T) - 1
    <3> HIDE DEF X
    <3> QED
      BY <2>2, FS_RemoveElement
  <2>3. IsFiniteSet(U) /\ Cardinality(U) = n /\ U \in SUBSET S
    <3> HIDE DEF X
    <3> QED
      BY <2>0
  <2>4. PICK q : Sorted(q, U, B)
    BY <1>2, <2>3
  <2> DEFINE r == [i \in 1 .. n + 1 |-> IF i = n + 1 THEN m ELSE q[i]]
  <2>5. q \in [1 .. n -> U] /\ \A i, j \in 1 .. n : i < j => <<q[i], q[j]>> \in B
    BY <2>3, <2>4 DEF Sorted
  <2>6. r \in [1 .. n + 1 -> T]
    BY <2>5
  <2>7. \A i, j \in 1 .. n + 1 : i < j => <<r[i], r[j]>> \in B
    BY <2>2, <2>5
  <2>8. Sorted(r, T, B)
    BY <2>6, <2>7 DEF Sorted
  <2> QED
    BY <2>8
<1> HIDE DEF X
<1>3. Nat \subseteq X
  BY <1>1, <1>2, NumberInduction
<1> QED
  BY <1>3, FS_CardinalityType DEF X

\* What is sorted lists each member once.
LEMMA SortedLists ==
  ASSUME NEW S, NEW B, Orders(B, S), NEW T \in SUBSET S, IsFiniteSet(T), NEW q, Sorted(q, T, B)
  PROVE  /\ q \in Seq(T) /\ DOMAIN q = 1 .. Cardinality(T) /\ Cardinality(T) \in Nat
         /\ \A i, j \in DOMAIN q : q[i] = q[j] => i = j
         /\ \A x \in T : \E i \in DOMAIN q : q[i] = x
<1> DEFINE n == Cardinality(T)
<1>1. n \in Nat /\ q \in [1 .. n -> T] /\ DOMAIN q = 1 .. n
  BY FS_CardinalityType DEF Sorted
<1>2. \A i, j \in DOMAIN q : q[i] = q[j] => i = j
  <2> SUFFICES ASSUME NEW i \in 1 .. n, NEW j \in 1 .. n, q[i] = q[j], i # j PROVE FALSE
    BY <1>1
  <2>1. i < j \/ j < i
    BY <1>1
  <2>2. <<q[i], q[i]>> \in B
    BY <1>1, <2>1 DEF Sorted
  <2> QED
    BY <1>1, <2>2 DEF Orders
<1>3. q \in Injection(1 .. n, T)
  BY <1>1, <1>2 DEF Injection, IsInjective
<1>4. IsFiniteSet(1 .. n) /\ Cardinality(1 .. n) = n
  BY <1>1, FS_Interval
<1>5. q \in Surjection(1 .. n, T)
  BY <1>3, <1>4, FS_Injection
<1>6. \A x \in T : \E i \in DOMAIN q : q[i] = x
  BY <1>1, <1>5 DEF Surjection
<1>7. q \in Seq(T)
  BY <1>1
<1> QED
  BY <1>1, <1>2, <1>6, <1>7

\* Tuples of six are compared place by place.
LEMMA KeyOrder ==
  ASSUME NEW one, NEW other, DOMAIN one = 1 .. 6
  PROVE  Precedes(one, other) <=>
           \/ one[1] < other[1]
           \/ one[1] = other[1] /\ one[2] < other[2]
           \/ one[1] = other[1] /\ one[2] = other[2] /\ one[3] < other[3]
           \/ one[1] = other[1] /\ one[2] = other[2] /\ one[3] = other[3] /\ one[4] < other[4]
           \/ one[1] = other[1] /\ one[2] = other[2] /\ one[3] = other[3] /\ one[4] = other[4] /\ one[5] < other[5]
           \/ one[1] = other[1] /\ one[2] = other[2] /\ one[3] = other[3] /\ one[4] = other[4] /\ one[5] = other[5] /\ one[6] < other[6]
<1>1. /\ 1 .. 1 - 1 = {} /\ 1 .. 2 - 1 = {1} /\ 1 .. 3 - 1 = {1, 2} /\ 1 .. 4 - 1 = {1, 2, 3}
      /\ 1 .. 5 - 1 = {1, 2, 3, 4} /\ 1 .. 6 - 1 = {1, 2, 3, 4, 5} /\ 1 .. 6 = {1, 2, 3, 4, 5, 6}
  OBVIOUS
<1>2. Precedes(one, other) <=> \E i \in {1, 2, 3, 4, 5, 6} : one[i] < other[i] /\ \A j \in 1 .. i - 1 : one[j] = other[j]
  BY <1>1 DEF Precedes
<1> QED
  BY <1>1, <1>2
-----------------------------------------------------------------------------
(* The order of the slots of a saved desktop.                               *)

SlotsFit(saved) ==
  /\ IsFiniteSet(saved)
  /\ \A s \in saved : {s.id, s.column, s.tile} \subseteq Nat
  /\ \A s, r \in saved : s.id = r.id => s = r

SlotOrder(saved) == {p \in saved \X saved : Before(saved, p[1], p[2])}

\* Workspaces with a recipe have targets of their own, and slots on them keep their columns.
LEMMA WorkspacesCounted ==
  ASSUME NEW saved, SlotsFit(saved)
  PROVE  /\ IsFiniteSet(KnownWorkspaces(saved)) /\ Spare(saved) \in Nat
         /\ \A s \in saved : Target(saved, s) \in Nat
         /\ \A s \in saved : s.ws \in KnownWorkspaces(saved) =>
              Target(saved, s) # Spare(saved) /\ Column(saved, s) = s.column
<1> DEFINE R == {r \in saved : r.kind # "unknown" /\ r.ws # 0}
           K == KnownWorkspaces(saved)
           place == [r \in R |-> r.ws]
<1>1. IsFiniteSet(R)
  BY FS_Subset DEF SlotsFit
<1>2. K = {r.ws : r \in R}
  BY DEF KnownWorkspaces
<1>3. place \in Surjection(R, K)
  BY <1>2 DEF Surjection
<1> HIDE DEF R, K, place
<1>4. IsFiniteSet(K)
  BY <1>1, <1>3, FS_Surjection
<1>5. Cardinality(K) \in Nat /\ Spare(saved) = Cardinality(K) + 1
  <2>1. Cardinality(K) \in Nat
    BY <1>4, FS_CardinalityType
  <2>2. Spare(saved) = Cardinality(K) + 1
    BY DEF Spare, K
  <2> QED
    BY <2>1, <2>2
<1>6. ASSUME NEW w PROVE /\ Cardinality({x \in K : x <= w}) \in Nat
                         /\ Cardinality({x \in K : x <= w}) <= Cardinality(K)
  <2> DEFINE L == {x \in K : x <= w}
  <2>1. L \in SUBSET K
    OBVIOUS
  <2> HIDE DEF L
  <2>2. IsFiniteSet(L) /\ Cardinality(L) <= Cardinality(K)
    BY <1>4, <2>1, FS_Subset
  <2>3. Cardinality(L) \in Nat
    BY <2>2, FS_CardinalityType
  <2> QED
    BY <2>2, <2>3 DEF L
<1>7. \A s : Target(saved, s) = IF s.ws \in K THEN Cardinality({x \in K : x <= s.ws})
                                   ELSE Spare(saved)
  <2> TAKE s
  <2> QED
    BY DEF Target, K
<1>8. \A s : Target(saved, s) \in Nat /\ (s.ws \in K => Target(saved, s) # Spare(saved))
  <2> TAKE s
  <2> DEFINE L == Cardinality({x \in K : x <= s.ws})
  <2>1. L \in Nat /\ L <= Cardinality(K)
    BY <1>6
  <2>2. Target(saved, s) = IF s.ws \in K THEN L ELSE Spare(saved)
    BY <1>7
  <2> HIDE DEF L
  <2> QED
    BY <1>5, <2>1, <2>2
<1>9. \A s : s.ws \in K => Column(saved, s) = s.column
  BY <1>8 DEF Column
<1> QED
  BY <1>4, <1>5, <1>8, <1>9 DEF K

\* The parts of a slot's key.
Unplaced(saved, s) == IF Column(saved, s) = 0 THEN 1 ELSE 0
OwnWindow(s) == IF s.extra THEN 0 ELSE s.id

\* The order of two slots, written out.
LEMMA BeforeIs ==
  ASSUME NEW saved, SlotsFit(saved), NEW s \in saved, NEW r \in saved
  PROVE  LET a == Target(saved, s)   u == Target(saved, r)
             b == Unplaced(saved, s)    v == Unplaced(saved, r)
             c == Column(saved, s)   w == Column(saved, r)
             d == s.tile                x == r.tile
             e == OwnWindow(s)          y == OwnWindow(r)
             f == s.id                  z == r.id
         IN  /\ {a, b, c, d, e, f, u, v, w, x, y, z} \subseteq Nat
             /\ Before(saved, s, r) <=>
                  \/ a < u
                  \/ a = u /\ b < v
                  \/ a = u /\ b = v /\ c < w
                  \/ a = u /\ b = v /\ c = w /\ d < x
                  \/ a = u /\ b = v /\ c = w /\ d = x /\ e < y
                  \/ a = u /\ b = v /\ c = w /\ d = x /\ e = y /\ f < z
<1>1. \A m \in saved :
        /\ Target(saved, m) \in Nat /\ Column(saved, m) \in Nat /\ Unplaced(saved, m) \in Nat
        /\ m.tile \in Nat /\ OwnWindow(m) \in Nat /\ m.id \in Nat
  BY WorkspacesCounted DEF SlotsFit, Column, Unplaced, OwnWindow
<1>2. \A m \in saved :
        SortKey(saved, m) = <<Target(saved, m), Unplaced(saved, m), Column(saved, m),
                                 m.tile, OwnWindow(m), m.id>>
  BY DEF SortKey, Unplaced, OwnWindow
<1> DEFINE a == Target(saved, s)   u == Target(saved, r)
           b == Unplaced(saved, s)    v == Unplaced(saved, r)
           c == Column(saved, s)   w == Column(saved, r)
           d == s.tile                x == r.tile
           e == OwnWindow(s)          y == OwnWindow(r)
           f == s.id                  z == r.id
<1>3. Before(saved, s, r) <=> Precedes(SortKey(saved, s), SortKey(saved, r))
  BY DEF Before
<1>4. /\ a \in Nat /\ b \in Nat /\ c \in Nat /\ d \in Nat /\ e \in Nat /\ f \in Nat
      /\ u \in Nat /\ v \in Nat /\ w \in Nat /\ x \in Nat /\ y \in Nat /\ z \in Nat
  BY <1>1
<1>6. SortKey(saved, s) = <<a, b, c, d, e, f>> /\ SortKey(saved, r) = <<u, v, w, x, y, z>>
  BY <1>2
<1> DEFINE one == SortKey(saved, s)
           other == SortKey(saved, r)
<1> HIDE DEF a, b, c, d, e, f, u, v, w, x, y, z, one, other
<1>7. /\ DOMAIN one = 1 .. 6 /\ one[1] = a /\ one[2] = b /\ one[3] = c /\ one[4] = d /\ one[5] = e /\ one[6] = f
      /\ other[1] = u /\ other[2] = v /\ other[3] = w /\ other[4] = x /\ other[5] = y /\ other[6] = z
  BY <1>6 DEF one, other
<1>5. Before(saved, s, r) <=>
                  \/ a < u
                  \/ a = u /\ b < v
                  \/ a = u /\ b = v /\ c < w
                  \/ a = u /\ b = v /\ c = w /\ d < x
                  \/ a = u /\ b = v /\ c = w /\ d = x /\ e < y
                  \/ a = u /\ b = v /\ c = w /\ d = x /\ e = y /\ f < z
  <2>1. Before(saved, s, r) <=> Precedes(one, other)
    BY <1>3 DEF one, other
  <2> QED
    BY <1>7, <2>1, KeyOrder
<1> QED
  BY <1>4, <1>5 DEF a, b, c, d, e, f, u, v, w, x, y, z

\* The slots of a saved desktop are ordered: the last part of the key tells any two apart.
LEMMA SlotsOrdered ==
  ASSUME NEW saved, SlotsFit(saved)
  PROVE  Orders(SlotOrder(saved), saved)
<1> DEFINE B == SlotOrder(saved)
<1>1. \A s, r \in saved : <<s, r>> \in B <=> Before(saved, s, r)
  BY DEF SlotOrder
<1>2. ASSUME NEW s \in saved PROVE <<s, s>> \notin B
  BY <1>1, BeforeIs
<1>3. ASSUME NEW s \in saved, NEW r \in saved
      PROVE  s = r \/ <<s, r>> \in B \/ <<r, s>> \in B
  <2>1. s.id = r.id => s = r
    BY DEF SlotsFit
  <2> QED
    BY <1>1, <2>1, BeforeIs
<1>4. ASSUME NEW s \in saved, NEW r \in saved, NEW m \in saved, <<s, r>> \in B, <<r, m>> \in B
      PROVE  <<s, m>> \in B
  BY <1>1, <1>4, BeforeIs
<1> QED
  BY <1>2, <1>3, <1>4 DEF Orders

\* Ordered picks a list that there is.
LEMMA OrderedSorts ==
  ASSUME NEW saved, SlotsFit(saved), NEW some \in SUBSET saved
  PROVE  Sorted(Ordered(saved, some), some, SlotOrder(saved))
<1> DEFINE B == SlotOrder(saved)
           n == Cardinality(some)
<1>1. IsFiniteSet(some)
  BY FS_Subset DEF SlotsFit
<1>2. \E q : Sorted(q, some, B)
  BY <1>1, SlotsOrdered, Sortable
<1>3. PICK p : Sorted(p, some, B)
  BY <1>2
<1>4. \A q \in [1 .. n -> some] :
        (\A i, j \in DOMAIN q : i < j => Before(saved, q[i], q[j]))
          <=> (\A i, j \in DOMAIN q : i < j => <<q[i], q[j]>> \in B)
  <2> TAKE q \in [1 .. n -> some]
  <2>1. \A i, j \in DOMAIN q : Before(saved, q[i], q[j]) <=> <<q[i], q[j]>> \in B
    BY DEF SlotOrder
  <2> QED
    BY <2>1
<1>5. p \in [1 .. n -> some] /\ \A i, j \in DOMAIN p : i < j => <<p[i], p[j]>> \in B
  BY <1>3 DEF Sorted
<1> HIDE DEF B, n
<1>6. \E q \in [1 .. n -> some] : \A i, j \in DOMAIN q : i < j => Before(saved, q[i], q[j])
  BY <1>4, <1>5
<1> DEFINE c == CHOOSE q \in [1 .. n -> some] :
                  \A i, j \in DOMAIN q : i < j => Before(saved, q[i], q[j])
<1>7. /\ c \in [1 .. n -> some]
      /\ \A i, j \in DOMAIN c : i < j => Before(saved, c[i], c[j])
  BY <1>6, Zenon
<1>8. Ordered(saved, some) = c
  BY DEF Ordered, n
<1> HIDE DEF c
<1>9. \A i, j \in DOMAIN c : i < j => <<c[i], c[j]>> \in B
  BY <1>4, <1>7
<1> QED
  BY <1>7, <1>8, <1>9 DEF Sorted, n, B

\* Ordered lists each of the slots once.
LEMMA OrderedLists ==
  ASSUME NEW saved, SlotsFit(saved), NEW some \in SUBSET saved, NEW q, q = Ordered(saved, some)
  PROVE  /\ q \in Seq(some) /\ DOMAIN q = 1 .. Cardinality(some) /\ Cardinality(some) \in Nat
         /\ \A i \in DOMAIN q : q[i] \in some
         /\ \A i, j \in DOMAIN q : i < j => Before(saved, q[i], q[j])
         /\ \A i, j \in DOMAIN q : q[i] = q[j] => i = j
         /\ \A s \in some : \E i \in DOMAIN q : q[i] = s
<1> DEFINE B == SlotOrder(saved)
<1>1. Sorted(q, some, B)
  BY OrderedSorts
<1>2. IsFiniteSet(some)
  BY FS_Subset DEF SlotsFit
<1>3. Orders(B, saved)
  BY SlotsOrdered
<1> HIDE DEF B
<1>4. /\ q \in Seq(some) /\ DOMAIN q = 1 .. Cardinality(some) /\ Cardinality(some) \in Nat
      /\ \A i, j \in DOMAIN q : q[i] = q[j] => i = j
      /\ \A s \in some : \E i \in DOMAIN q : q[i] = s
  BY <1>1, <1>2, <1>3, SortedLists
<1>5. \A i \in DOMAIN q : q[i] \in some
  BY <1>4
<1>6. \A i, j \in DOMAIN q : i < j => Before(saved, q[i], q[j])
  <2>1. \A i, j \in DOMAIN q : i < j => <<q[i], q[j]>> \in B
    BY <1>1 DEF Sorted
  <2>2. \A s, r : <<s, r>> \in B => Before(saved, s, r)
    BY DEF B, SlotOrder
  <2> QED
    BY <2>1, <2>2
<1> QED
  BY <1>4, <1>5, <1>6

\* What Before does not hold of in either direction is one slot.
LEMMA BeforeTotal ==
  ASSUME NEW saved, SlotsFit(saved)
  PROVE  /\ \A s \in saved : ~Before(saved, s, s)
         /\ \A s, r \in saved : s = r \/ Before(saved, s, r) \/ Before(saved, r, s)
         /\ \A s, r, m \in saved : Before(saved, s, r) /\ Before(saved, r, m) => Before(saved, s, m)
<1>1. \A s, r \in saved : <<s, r>> \in SlotOrder(saved) <=> Before(saved, s, r)
  BY DEF SlotOrder
<1>2. Orders(SlotOrder(saved), saved)
  BY SlotsOrdered
<1> QED
  BY <1>1, <1>2 DEF Orders

\* Every launching slot belongs to the group of one slot that leads it.
LEMMA OneLead ==
  ASSUME NEW saved, SlotsFit(saved), NEW now, NEW s \in Launching(saved, now)
  PROVE  \E l \in Leads(saved, now) :
           /\ s \in Members(saved, now, l)
           /\ \A h \in Leads(saved, now) : s \in Members(saved, now, h) => h = l
<1> DEFINE L == Launching(saved, now)
           M == Members(saved, now, s)
           q == Ordered(saved, M)
           l == q[1]
<1>1. L \subseteq saved /\ M \subseteq L /\ s \in M
  BY DEF Launching, Members
<1>2. \A r, h \in L : r \in Members(saved, now, h) <=> GroupKey(r) = GroupKey(h)
  BY DEF Members
<1>3. \A h : h \in Leads(saved, now) <=>
        h \in L /\ \A r \in Members(saved, now, h) : ~Before(saved, r, h)
  BY DEF Leads
<1>4. \A h : Members(saved, now, h) \subseteq L
  BY DEF Members
<1> HIDE DEF L, M, q, l
<1>5. M \in SUBSET saved
  BY <1>1
<1>6. /\ DOMAIN q = 1 .. Cardinality(M) /\ Cardinality(M) \in Nat
      /\ \A i \in DOMAIN q : q[i] \in M
      /\ \A i, j \in DOMAIN q : i < j => Before(saved, q[i], q[j])
      /\ \A r \in M : \E i \in DOMAIN q : q[i] = r
  BY <1>5, OrderedLists DEF q
<1>7. 1 \in DOMAIN q
  BY <1>1, <1>6
<1>8. l \in M /\ \A r \in M : r = l \/ Before(saved, l, r)
  BY <1>6, <1>7 DEF l
<1>9. l \in L /\ GroupKey(l) = GroupKey(s)
  BY <1>1, <1>2, <1>8 DEF M
<1>10. s \in Members(saved, now, l)
  BY <1>1, <1>2, <1>9 DEF L
<1>11. \A r \in Members(saved, now, l) : r \in M
  BY <1>1, <1>2, <1>4, <1>9 DEF M, L
<1>12. \A r \in Members(saved, now, l) : ~Before(saved, r, l)
  <2> SUFFICES ASSUME NEW r \in Members(saved, now, l), Before(saved, r, l) PROVE FALSE
    OBVIOUS
  <2>1. r \in saved /\ l \in saved /\ (r = l \/ Before(saved, l, r))
    BY <1>5, <1>8, <1>11
  <2> QED
    BY <2>1, BeforeTotal
<1>13. l \in Leads(saved, now)
  BY <1>3, <1>9, <1>12
<1>14. ASSUME NEW h \in Leads(saved, now), s \in Members(saved, now, h) PROVE h = l
  <2>1. h \in L /\ GroupKey(h) = GroupKey(s)
    BY <1>1, <1>2, <1>3, <1>14 DEF L
  <2>2. h \in M /\ l \in Members(saved, now, h)
    BY <1>1, <1>2, <1>9, <2>1 DEF M, L
  <2>3. ~Before(saved, l, h)
    BY <1>3, <2>2, <1>14
  <2> QED
    BY <1>8, <2>2, <2>3
<1> QED
  BY <1>10, <1>13, <1>14
-----------------------------------------------------------------------------
(* The groups of a plan.                                                   *)

LeadList(saved, now) == Ordered(saved, Leads(saved, now))
MemberList(saved, now, s) == Ordered(saved, Members(saved, now, s))

\* Leads and members are slots that launch.
LEMMA LeadsAndMembers ==
  ASSUME NEW saved, SlotsFit(saved), NEW now
  PROVE  /\ Launching(saved, now) \in SUBSET saved
         /\ Leads(saved, now) \in SUBSET saved
         /\ Leads(saved, now) \subseteq Launching(saved, now)
         /\ \A s : Members(saved, now, s) \in SUBSET saved
         /\ \A s : Members(saved, now, s) \subseteq Launching(saved, now)
         /\ \A s \in Launching(saved, now) : s \in Members(saved, now, s)
<1>1. Launching(saved, now) \in SUBSET saved
  BY DEF Launching
<1>2. Leads(saved, now) \subseteq Launching(saved, now)
  BY DEF Leads
<1>3. \A s : Members(saved, now, s) \subseteq Launching(saved, now)
  BY DEF Members
<1>4. \A s \in Launching(saved, now) : s \in Members(saved, now, s)
  BY DEF Members
<1> QED
  BY <1>1, <1>2, <1>3, <1>4

\* OrderedLists for the leads of a plan.
LEMMA LeadsListed ==
  ASSUME NEW saved, SlotsFit(saved), NEW now
  PROVE  LET leads == LeadList(saved, now)
         IN  /\ leads \in Seq(Leads(saved, now))
             /\ \A i \in DOMAIN leads : leads[i] \in Leads(saved, now)
             /\ \A i, j \in DOMAIN leads : i < j => Before(saved, leads[i], leads[j])
             /\ \A i, j \in DOMAIN leads : leads[i] = leads[j] => i = j
             /\ \A s \in Leads(saved, now) : \E i \in DOMAIN leads : leads[i] = s
<1>1. Leads(saved, now) \in SUBSET saved
  BY LeadsAndMembers
<1> QED
  BY <1>1, OrderedLists DEF LeadList

\* OrderedLists for the members of a group.
LEMMA MembersListed ==
  ASSUME NEW saved, SlotsFit(saved), NEW now, NEW l
  PROVE  LET q == MemberList(saved, now, l)
         IN  /\ q \in Seq(Members(saved, now, l))
             /\ \A i \in DOMAIN q : q[i] \in Members(saved, now, l) /\ q[i] \in saved
             /\ \A i, j \in DOMAIN q : i < j => Before(saved, q[i], q[j])
             /\ \A i, j \in DOMAIN q : q[i] = q[j] => i = j
             /\ \A s \in Members(saved, now, l) : \E i \in DOMAIN q : q[i] = s
<1>1. Members(saved, now, l) \in SUBSET saved
  BY LeadsAndMembers
<1> QED
  BY <1>1, OrderedLists DEF MemberList

\* The parts of a group.
LEMMA GroupFields ==
  ASSUME NEW saved, NEW now, NEW l
  PROVE  /\ GroupOf(saved, now, l).app = l.app
         /\ GroupOf(saved, now, l).route = Route(saved, l, now)
         /\ GroupOf(saved, now, l).skip = Skip(saved, l, now)
BY DEF GroupOf

\* There is one group for each lead.
LEMMA GroupsOfLeads ==
  ASSUME NEW saved, NEW now
  PROVE  LET leads == LeadList(saved, now)
             groups == Groups(saved, now)
         IN  /\ DOMAIN groups = DOMAIN leads
             /\ \A i \in DOMAIN leads : groups[i] = GroupOf(saved, now, leads[i])
BY DEF Groups, LeadList

\* What the i-th group holds.
LEMMA GroupHolds ==
  ASSUME NEW saved, SlotsFit(saved), NEW now, NEW i \in DOMAIN Groups(saved, now)
  PROVE  LET group == Groups(saved, now)[i]
             l == LeadList(saved, now)[i]
         IN  /\ i \in DOMAIN LeadList(saved, now) /\ l \in Leads(saved, now)
             /\ group.app = l.app /\ group.route = Route(saved, l, now)
             /\ group.skip = Skip(saved, l, now)
             /\ \A s \in saved : Lists(group, s) <=> s \in Members(saved, now, l)
<1> DEFINE group == Groups(saved, now)[i]
           l == LeadList(saved, now)[i]
           q == MemberList(saved, now, l)
<1>1. i \in DOMAIN LeadList(saved, now) /\ group = GroupOf(saved, now, l)
  BY GroupsOfLeads
<1>2. l \in Leads(saved, now)
  BY <1>1, LeadsListed
<1> HIDE DEF group, l, q
<1>3. /\ group.app = l.app /\ group.route = Route(saved, l, now)
      /\ group.skip = Skip(saved, l, now)
  BY <1>1, GroupFields
<1>4. group.slots = [n \in DOMAIN q |-> q[n].id]
  BY <1>1 DEF q, GroupOf, MemberList
<1>5. ASSUME NEW s \in saved PROVE Lists(group, s) <=> s \in Members(saved, now, l)
  <2>1. Lists(group, s) <=> \E n \in DOMAIN q : q[n].id = s.id
    BY <1>4 DEF Lists
  <2>2. \A n \in DOMAIN q : q[n] \in saved /\ q[n] \in Members(saved, now, l)
    BY MembersListed DEF q
  <2>3. s \in Members(saved, now, l) => \E n \in DOMAIN q : q[n] = s
    BY MembersListed DEF q
  <2>4. \A r \in saved : r.id = s.id => r = s
    BY DEF SlotsFit
  <2> QED
    BY <2>1, <2>2, <2>3, <2>4
<1> QED
  BY <1>1, <1>2, <1>3, <1>5 DEF group, l

\* The slots of the i-th group.
LEMMA GroupSlots ==
  ASSUME NEW saved, SlotsFit(saved), NEW now, NEW i \in DOMAIN Groups(saved, now)
  PROVE  LET q == MemberList(saved, now, LeadList(saved, now)[i])
         IN  Groups(saved, now)[i].slots = [n \in DOMAIN q |-> q[n].id]
<1>1. i \in DOMAIN LeadList(saved, now)
      /\ Groups(saved, now)[i] = GroupOf(saved, now, LeadList(saved, now)[i])
  BY GroupsOfLeads
<1> QED
  BY <1>1 DEF GroupOf, MemberList

\* No lead is left out.
LEMMA EveryLeadGroups ==
  ASSUME NEW saved, SlotsFit(saved), NEW now, NEW l \in Leads(saved, now)
  PROVE  \E i \in DOMAIN Groups(saved, now) : LeadList(saved, now)[i] = l
BY LeadsListed, GroupsOfLeads

\* What two slots of one group key share.
LEMMA KeysApart ==
  ASSUME NEW saved, SlotsFit(saved), NEW s \in saved, NEW r \in saved
  PROVE  /\ GroupKey(s) = GroupKey(r) =>
              /\ s.app = r.app
              /\ s.kind \in TerminalKinds <=> r.kind \in TerminalKinds
              /\ s.kind \in TerminalKinds => s = r
              /\ s.kind \notin TerminalKinds => s.pid = r.pid /\ (s.pid = 0 => s.argv = r.argv)
         /\ s.kind \notin TerminalKinds /\ r.kind \notin TerminalKinds
              /\ s.app = r.app /\ s.pid = r.pid /\ (s.pid = 0 => s.argv = r.argv)
              => GroupKey(s) = GroupKey(r)
<1>1. s.id = r.id => s = r
  BY DEF SlotsFit
<1>2. \A a, b, c, d, e : <<"terminal", a, b, 0>> # <<"app", c, d, e>>
  OBVIOUS
<1> QED
  BY <1>1, <1>2 DEF GroupKey

\* Only apps and terminals launch.
LEMMA LaunchKinds ==
  ASSUME NEW s, NEW now, Disposition(s, now) = "launch"
  PROVE  s.kind = "app" <=> s.kind \notin TerminalKinds
BY DEF Disposition, TerminalKinds, SessionKinds
-----------------------------------------------------------------------------
\* One launch for each saved process, and one desktop entry for each application.
LEMMA EachInstanceOnce ==
  ASSUME NEW saved, SlotsFit(saved), NEW now
  PROVE  OneLaunchEach(saved, now)
<1> DEFINE groups == Groups(saved, now)
           leads == LeadList(saved, now)
<1>1. \A i \in DOMAIN groups :
        /\ i \in DOMAIN leads /\ leads[i] \in Leads(saved, now)
        /\ groups[i].app = leads[i].app /\ groups[i].route = Route(saved, leads[i], now)
        /\ \A s \in saved : Lists(groups[i], s) <=> s \in Members(saved, now, leads[i])
  BY GroupHolds
<1>2. /\ Launching(saved, now) \subseteq saved /\ Leads(saved, now) \subseteq Launching(saved, now)
      /\ \A s \in Launching(saved, now) : s \in Members(saved, now, s)
  BY LeadsAndMembers
<1>3. \A s \in saved : s \in Launching(saved, now) <=> Disposition(s, now) = "launch"
  BY DEF Launching
<1>4. \A s, r : r \in Members(saved, now, s) <=>
                  r \in Launching(saved, now) /\ GroupKey(r) = GroupKey(s)
  BY DEF Members
<1>5. \A l \in Leads(saved, now) : \E i \in DOMAIN groups : leads[i] = l
  BY EveryLeadGroups
<1>6. \A i, j \in DOMAIN leads : leads[i] = leads[j] => i = j
  BY LeadsListed
<1> HIDE DEF groups, leads
<1>7. ASSUME NEW s \in saved, NEW r \in saved, s # r,
             Disposition(s, now) = "launch", Disposition(r, now) = "launch"
      PROVE  (\E i \in DOMAIN groups : Lists(groups[i], s) /\ Lists(groups[i], r))
               <=> SameInstance(s, r)
  <2>1. s \in Launching(saved, now) /\ r \in Launching(saved, now)
    BY <1>3, <1>7
  <2>2. GroupKey(s) = GroupKey(r) <=> SameInstance(s, r)
    <3>1. (s.kind = "app" <=> s.kind \notin TerminalKinds) /\ (r.kind = "app" <=> r.kind \notin TerminalKinds)
      BY <1>7, LaunchKinds
    <3> QED
      BY <1>7, <3>1, KeysApart DEF SameInstance
  <2>3. ASSUME NEW i \in DOMAIN groups, Lists(groups[i], s), Lists(groups[i], r)
        PROVE  GroupKey(s) = GroupKey(r)
    BY <1>1, <1>4, <2>3
  <2>4. ASSUME GroupKey(s) = GroupKey(r)
        PROVE  \E i \in DOMAIN groups : Lists(groups[i], s) /\ Lists(groups[i], r)
    <3>1. PICK l \in Leads(saved, now) : s \in Members(saved, now, l)
      BY <2>1, OneLead
    <3>2. r \in Members(saved, now, l)
      BY <1>4, <2>1, <2>4, <3>1
    <3>3. PICK i \in DOMAIN groups : leads[i] = l
      BY <1>5
    <3> QED
      BY <1>1, <3>1, <3>2, <3>3
  <2> QED
    BY <2>2, <2>3, <2>4
<1>8. ASSUME NEW i \in DOMAIN groups, NEW j \in DOMAIN groups, groups[i].app = groups[j].app,
             groups[i].route = "desktop", groups[j].route = "desktop",
             groups[i].app \notin DOMAIN now.users,
             NEW x \in saved, Lists(groups[i], x) \/ Lists(groups[j], x), x.pid # 0
      PROVE  i = j
  <2> DEFINE s == leads[i]
             r == leads[j]
             P == Instances(saved, s.app)
  <2>1. /\ s \in Leads(saved, now) /\ r \in Leads(saved, now) /\ s.app = r.app
        /\ Route(saved, s, now) = "desktop" /\ Route(saved, r, now) = "desktop"
        /\ s.app \notin DOMAIN now.users
    BY <1>1, <1>8
  <2>2. /\ s \in saved /\ r \in saved /\ Disposition(s, now) = "launch" /\ Disposition(r, now) = "launch"
        /\ s \in Launching(saved, now) /\ r \in Launching(saved, now)
    BY <1>2, <1>3, <2>1
  <2>3. \A w : Route(saved, w, now) = "desktop" /\ w.app \notin DOMAIN now.users =>
                 w.kind \notin TerminalKinds /\ Cardinality(Instances(saved, w.app)) = 1
    BY DEF Route
  <2>4. s.kind = "app" /\ r.kind = "app" /\ Cardinality(P) = 1
    BY <2>1, <2>2, <2>3, LaunchKinds
  <2>5. s.pid \in P /\ r.pid \in P
    BY <2>1, <2>2, <2>4 DEF Instances
  <2>6. IsFiniteSet(P)
    <3> DEFINE R == {w \in saved : w.kind = "app" /\ w.app = s.app}
               owner == [w \in R |-> w.pid]
    <3>1. IsFiniteSet(R)
      BY FS_Subset DEF SlotsFit
    <3>2. owner \in Surjection(R, P)
      BY DEF Instances, Surjection
    <3> HIDE DEF R, owner, P
    <3> QED
      BY <3>1, <3>2, FS_Surjection
  <2> HIDE DEF P
  <2>7. PICK p : P = {p}
    BY <2>4, <2>6, FS_Singleton
  <2>8. s.pid = r.pid /\ s.pid # 0
    <3>1. x \in Members(saved, now, s) \/ x \in Members(saved, now, r)
      BY <1>1, <1>8
    <3>2. GroupKey(x) = GroupKey(s) \/ GroupKey(x) = GroupKey(r)
      BY <1>4, <3>1
    <3>3. s.kind \notin TerminalKinds /\ r.kind \notin TerminalKinds
      BY <2>1, <2>3
    <3>4. x.pid = s.pid \/ x.pid = r.pid
      BY <2>2, <3>2, <3>3, KeysApart
    <3> QED
      BY <1>8, <2>5, <2>7, <3>4
  <2>9. GroupKey(s) = GroupKey(r)
    BY <2>1, <2>2, <2>4, <2>8, LaunchKinds, KeysApart
  <2>10. s \in Members(saved, now, s) /\ s \in Members(saved, now, r)
    BY <1>4, <2>2, <2>9
  <2>11. s = r
    <3> HIDE DEF s, r
    <3>1. PICK l \in Leads(saved, now) :
            \A h \in Leads(saved, now) : s \in Members(saved, now, h) => h = l
      BY <2>2, OneLead
    <3> QED
      BY <2>1, <2>10, <3>1
  <2> QED
    BY <1>1, <1>6, <2>11
<1> QED
  BY <1>7, <1>8, Zenon DEF OneLaunchEach, groups

\* A list of slots in the slot order is in the order of their saved places.
LEMMA InOrder ==
  ASSUME NEW saved, SlotsFit(saved), NEW q, \A n \in DOMAIN q : q[n] \in saved,
         \A n, h \in DOMAIN q : n < h => Before(saved, q[n], q[h])
  PROVE  InSavedOrder(saved, [n \in DOMAIN q |-> q[n].id])
<1> DEFINE slots == [n \in DOMAIN q |-> q[n].id]
<1>1. slots = [n \in DOMAIN q |-> q[n].id]
  OBVIOUS
<1>2. /\ \A n \in DOMAIN q : q[n] \in saved
      /\ \A n, h \in DOMAIN q : n < h => Before(saved, q[n], q[h])
  OBVIOUS
<1> HIDE DEF slots
<1> SUFFICES ASSUME NEW n \in DOMAIN q, NEW h \in DOMAIN q, n < h,
                    NEW s, s = (CHOOSE w \in saved : w.id = slots[n]),
                    NEW r, r = (CHOOSE w \in saved : w.id = slots[h])
             PROVE  /\ Target(saved, s) <= Target(saved, r)
                    /\ s.ws = r.ws /\ s.ws \in KnownWorkspaces(saved) =>
                         /\ r.column # 0 => s.column \in 1 .. r.column
                         /\ r.column # 0 /\ s.column = r.column => s.tile <= r.tile
  BY <1>1 DEF InSavedOrder, slots
<1>3. \A x \in saved : (CHOOSE w \in saved : w.id = x.id) = x
  BY DEF SlotsFit
<1>4. s = q[n] /\ r = q[h]
  BY <1>1, <1>2, <1>3
<1>5. s \in saved /\ r \in saved /\ Before(saved, s, r)
  BY <1>2, <1>4
<1>6. Target(saved, s) <= Target(saved, r)
  BY <1>5, BeforeIs
<1>7. ASSUME s.ws = r.ws, s.ws \in KnownWorkspaces(saved), r.column # 0
      PROVE  s.column \in 1 .. r.column /\ (s.column = r.column => s.tile <= r.tile)
  <2>1. Target(saved, s) = Target(saved, r)
    BY <1>7 DEF Target
  <2>2. Column(saved, s) = s.column /\ Column(saved, r) = r.column
    BY <1>5, <1>7, WorkspacesCounted
  <2>3. s.column \in Nat /\ r.column \in Nat /\ s.tile \in Nat /\ r.tile \in Nat
    BY <1>5 DEF SlotsFit
  <2>4. Unplaced(saved, r) = 0 /\ Unplaced(saved, s) = IF s.column = 0 THEN 1 ELSE 0
    BY <1>7, <2>2 DEF Unplaced
  <2>5. \/ Unplaced(saved, s) < Unplaced(saved, r)
        \/ Unplaced(saved, s) = Unplaced(saved, r) /\ s.column < r.column
        \/ Unplaced(saved, s) = Unplaced(saved, r) /\ s.column = r.column /\ s.tile <= r.tile
    BY <1>5, <2>1, <2>2, <2>3, BeforeIs
  <2> QED
    BY <1>7, <2>3, <2>4, <2>5
<1> QED
  BY <1>6, <1>7

\* A group begins with its lead.
LEMMA LeadFirst ==
  ASSUME NEW saved, SlotsFit(saved), NEW now, NEW i \in DOMAIN Groups(saved, now)
  PROVE  Groups(saved, now)[i].slots[1] = LeadList(saved, now)[i].id
<1> DEFINE l == LeadList(saved, now)[i]
           q == MemberList(saved, now, l)
<1>1. l \in Leads(saved, now) /\ l \in Members(saved, now, l)
  BY GroupHolds, LeadsAndMembers
<1>2. Groups(saved, now)[i].slots = [n \in DOMAIN q |-> q[n].id]
  BY GroupSlots
<1>3. /\ q \in Seq(Members(saved, now, l))
      /\ \A n, h \in DOMAIN q : n < h => Before(saved, q[n], q[h])
      /\ \E n \in DOMAIN q : q[n] = l
  BY <1>1, MembersListed
<1>4. \A r \in Members(saved, now, l) : ~Before(saved, r, l)
  BY <1>1 DEF Leads
<1> HIDE DEF q, l
<1>5. 1 \in DOMAIN q /\ q[1] = l
  <2>1. PICK n \in DOMAIN q : q[n] = l
    BY <1>3
  <2>2. 1 \in DOMAIN q /\ n >= 1 /\ n \in Nat /\ q[1] \in Members(saved, now, l)
    BY <1>3, <2>1
  <2> QED
    BY <1>3, <1>4, <2>1, <2>2
<1> QED
  BY <1>2, <1>5 DEF l

\* A group's slots, and the groups, are in the order of the saved places.
LEMMA GroupsInSavedOrder ==
  ASSUME NEW saved, SlotsFit(saved), NEW now
  PROVE  OrderedGroups(saved, now)
<1> DEFINE groups == Groups(saved, now)
           leads == LeadList(saved, now)
<1>1. ASSUME NEW i \in DOMAIN groups PROVE InSavedOrder(saved, groups[i].slots)
  <2> DEFINE q == MemberList(saved, now, leads[i])
  <2>1. groups[i].slots = [n \in DOMAIN q |-> q[n].id]
    BY GroupSlots
  <2>2. /\ \A n \in DOMAIN q : q[n] \in saved
        /\ \A n, h \in DOMAIN q : n < h => Before(saved, q[n], q[h])
    BY MembersListed
  <2> HIDE DEF q
  <2> QED
    BY <2>1, <2>2, InOrder
<1>2. DOMAIN leads = DOMAIN groups /\ \A i \in DOMAIN groups : groups[i].slots[1] = leads[i].id
  BY GroupsOfLeads, LeadFirst
<1>3. /\ \A n \in DOMAIN leads : leads[n] \in saved
      /\ \A n, h \in DOMAIN leads : n < h => Before(saved, leads[n], leads[h])
  BY LeadsListed, LeadsAndMembers
<1> HIDE DEF groups, leads
<1>4. [i \in DOMAIN groups |-> groups[i].slots[1]] = [n \in DOMAIN leads |-> leads[n].id]
  BY <1>2
<1>5. InSavedOrder(saved, [i \in DOMAIN groups |-> groups[i].slots[1]])
  BY <1>3, <1>4, InOrder
<1> QED
  BY <1>1, <1>5 DEF OrderedGroups, groups

\* What has opened since settles slots and settles nothing else.
LEMMA DispositionsShrink ==
  ASSUME NEW s, NEW now, NEW later, Grown(now, later)
  PROVE  /\ Disposition(s, later) = "launch" => Disposition(s, now) = "launch"
         /\ s.kind = "app" => Disposition(s, later) = Disposition(s, now)
BY DEF Disposition, Grown, SessionKinds, TerminalKinds

\* A slot is launched with the group it is a member of.
LEMMA LaunchedIs ==
  ASSUME NEW saved, SlotsFit(saved), NEW now, NEW s
  PROVE  s \in Launched(saved, now) <=>
           ~Refused(saved, now) /\ \E l \in Leads(saved, now) : s \in Members(saved, now, l) /\ Skip(saved, l, now) = "none"
<1> DEFINE groups == Groups(saved, now)
           leads == LeadList(saved, now)
<1>1. \A i \in DOMAIN groups :
        /\ leads[i] \in Leads(saved, now) /\ groups[i].skip = Skip(saved, leads[i], now)
        /\ \A r \in saved : Lists(groups[i], r) <=> r \in Members(saved, now, leads[i])
  BY GroupHolds
<1>2. \A l \in Leads(saved, now) : \E i \in DOMAIN groups : leads[i] = l
  BY EveryLeadGroups
<1>3. \A l : Members(saved, now, l) \subseteq saved
  BY LeadsAndMembers
<1>4. s \in Launched(saved, now) <=>
        s \in saved /\ ~Refused(saved, now) /\ \E i \in DOMAIN groups : groups[i].skip = "none" /\ Lists(groups[i], s)
  BY DEF Launched
<1> HIDE DEF groups, leads
<1> QED
  BY <1>1, <1>2, <1>3, <1>4

\* What is open later is launched by no later plan, and no group gets another lead.
LEMMA GrowthShrinks ==
  ASSUME NEW saved, SlotsFit(saved), NEW now, NEW later, Grown(now, later)
  PROVE  Launched(saved, later) \subseteq Launched(saved, now)
<1> SUFFICES ASSUME NEW s \in Launched(saved, later) PROVE s \in Launched(saved, now)
  OBVIOUS
<1>1. PICK l \in Leads(saved, later) : s \in Members(saved, later, l) /\ Skip(saved, l, later) = "none"
  BY LaunchedIs
<1>8. ~Refused(saved, now)
  <2>1. ~Refused(saved, later)
    BY LaunchedIs
  <2>2. \A x : Route(saved, x, now) = Route(saved, x, later)
    BY DEF Route, Grown
  <2>3. \A x \in saved : x.kind = "app" /\ x \in Launching(saved, now) => x \in Launching(saved, later)
    BY DispositionsShrink DEF Launching
  <2>4. Launching(saved, now) \subseteq saved
    BY DEF Launching
  <2> QED
    BY <2>1, <2>2, <2>3, <2>4 DEF Refused
<1>2. \A d : /\ \A x : x \in Launching(saved, d) <=> x \in saved /\ Disposition(x, d) = "launch"
             /\ \A x, h : x \in Members(saved, d, h) <=>
                            x \in Launching(saved, d) /\ GroupKey(x) = GroupKey(h)
             /\ \A h : h \in Leads(saved, d) <=>
                  h \in Launching(saved, d) /\ \A x \in Members(saved, d, h) : ~Before(saved, x, h)
  BY DEF Launching, Members, Leads
<1>3. /\ s \in saved /\ l \in saved /\ GroupKey(s) = GroupKey(l)
      /\ Disposition(s, later) = "launch" /\ Disposition(l, later) = "launch"
  BY <1>1, <1>2
<1>4. Disposition(s, now) = "launch" /\ Disposition(l, now) = "launch"
  BY <1>3, DispositionsShrink
<1>5. s \in Launching(saved, now) /\ l \in Launching(saved, now) /\ s \in Members(saved, now, l)
  BY <1>2, <1>3, <1>4
<1>6. l \in Leads(saved, now)
  <2> SUFFICES ASSUME NEW x \in Members(saved, now, l), Before(saved, x, l) PROVE FALSE
    BY <1>2, <1>5
  <2>1. x \in saved /\ GroupKey(x) = GroupKey(l) /\ Disposition(x, now) = "launch"
    BY <1>2
  <2>2. CASE l.kind \in TerminalKinds
    <3>1. x = l
      BY <1>3, <2>1, <2>2, KeysApart
    <3> QED
      BY <1>3, <3>1, BeforeTotal
  <2>3. CASE l.kind \notin TerminalKinds
    <3>1. x.kind \notin TerminalKinds
      BY <1>3, <2>1, <2>3, KeysApart
    <3>2. x.kind = "app"
      BY <2>1, <3>1, LaunchKinds
    <3>3. Disposition(x, later) = "launch"
      BY <2>1, <3>2, DispositionsShrink
    <3>4. x \in Members(saved, later, l)
      BY <1>2, <2>1, <3>3
    <3> QED
      BY <1>1, <1>2, <3>4
  <2> QED
    BY <2>2, <2>3
<1>7. Skip(saved, l, now) = "none"
  <2>1. Route(saved, l, now) = Route(saved, l, later)
    BY DEF Route, Grown
  <2> QED
    BY <1>1, <2>1 DEF Skip, Grown
<1> QED
  BY <1>5, <1>6, <1>7, <1>8, LaunchedIs
-----------------------------------------------------------------------------
(* The plans of RestorePlan are plans that Reopen may be given.            *)

SettledAs(s, now) == IF Disposition(s, now) = "launch" THEN "none" ELSE Disposition(s, now)

\* The parts of a plan.
LEMMA PlanFields ==
  ASSUME NEW saved, NEW now, NEW open
  PROVE  LET p == PlanOf(saved, now, open)
             groups == Groups(saved, now)
         IN  /\ p.open = open
             /\ DOMAIN p.groups = DOMAIN groups
             /\ \A i \in DOMAIN groups : p.groups[i].slots = groups[i].slots
BY DEF PlanOf, Plan

\* A group as the run reads it.
LEMMA PlanGroups ==
  ASSUME NEW saved, NEW now, NEW open, NEW i \in DOMAIN Groups(saved, now),
         Groups(saved, now)[i].app \in App,
         Groups(saved, now)[i].skip \in {"none", "already-running", "no-route"},
         Groups(saved, now)[i].slots \in Seq(Slot)
  PROVE  PlanOf(saved, now, open).groups[i] \in Group
BY DEF PlanOf, Plan, Group

\* The groups of a plan are a function.
LEMMA PlanGroupsFunction ==
  ASSUME NEW saved, NEW now, NEW open
  PROVE  LET p == PlanOf(saved, now, open)
         IN  p.groups = [i \in DOMAIN p.groups |-> p.groups[i]]
BY DEF PlanOf, Plan

\* A slot is settled beforehand exactly when it is not launched.
LEMMA PlanPreset ==
  ASSUME NEW saved, SlotsFit(saved), NEW now, NEW open, {s.id : s \in saved} = Slot
  PROVE  LET p == PlanOf(saved, now, open)
         IN  /\ DOMAIN p.preset = Slot
             /\ p.preset \in [Slot -> {"none", "not-reopened", "already-open"}]
             /\ \A s \in saved : p.preset[s.id] = "none" <=> Disposition(s, now) = "launch"
<1> DEFINE f == [i \in Slot |-> SettledAs(CHOOSE r \in saved : r.id = i, now)]
           p == PlanOf(saved, now, open)
<1>1. p.preset = f
  BY DEF PlanOf, Plan, SettledAs
<1>2. \A s : SettledAs(s, now) \in {"none", "not-reopened", "already-open"}
  BY DEF SettledAs, Disposition
<1>3. f \in [Slot -> {"none", "not-reopened", "already-open"}]
  BY <1>2
<1>4. ASSUME NEW s \in saved PROVE f[s.id] = "none" <=> Disposition(s, now) = "launch"
  <2>1. s.id \in Slot
    OBVIOUS
  <2>2. (CHOOSE r \in saved : r.id = s.id) = s
    BY DEF SlotsFit
  <2>3. f[s.id] = SettledAs(s, now)
    BY <2>1, <2>2
  <2>4. SettledAs(s, now) = "none" <=> Disposition(s, now) = "launch"
    BY DEF SettledAs, Disposition
  <2> QED
    BY <2>3, <2>4
<1> HIDE DEF f, p
<1>5. /\ DOMAIN p.preset = Slot
      /\ p.preset \in [Slot -> {"none", "not-reopened", "already-open"}]
      /\ \A s \in saved : p.preset[s.id] = "none" <=> Disposition(s, now) = "launch"
  BY <1>1, <1>3, <1>4
<1> QED
  BY <1>5 DEF p

\* The groups of a plan hold saved slots.
LEMMA GroupTyped ==
  ASSUME NEW saved, SlotsFit(saved), NEW now, {s.id : s \in saved} = Slot,
         \A s \in saved : s.app \in App, NEW i \in DOMAIN Groups(saved, now)
  PROVE  LET group == Groups(saved, now)[i]
         IN  /\ group.app \in App /\ group.skip \in {"none", "already-running", "no-route"}
             /\ group.slots \in Seq(Slot)
<1> DEFINE l == LeadList(saved, now)[i]
           q == MemberList(saved, now, l)
           group == Groups(saved, now)[i]
<1>1. l \in Leads(saved, now) /\ group.app = l.app /\ group.skip = Skip(saved, l, now)
  BY GroupHolds
<1>2. group.slots = [n \in DOMAIN q |-> q[n].id]
  BY GroupSlots
<1>3. l \in saved
  BY <1>1, LeadsAndMembers
<1>4. Skip(saved, l, now) \in {"none", "already-running", "no-route"}
  BY DEF Skip
<1>5. q \in Seq(Members(saved, now, l)) /\ \A n \in DOMAIN q : q[n] \in saved
  BY MembersListed
<1> HIDE DEF l, q, group
<1>6. \A n \in DOMAIN q : q[n].id \in Slot
  BY <1>5
<1>7. Len(q) \in Nat /\ DOMAIN q = 1 .. Len(q)
  BY <1>5
<1>8. group.slots \in Seq(Slot)
  BY <1>2, <1>6, <1>7
<1> QED
  BY <1>1, <1>3, <1>4, <1>8 DEF group

\* reopen.plan: what it makes of any saved desktop is a plan that a run can carry out: each
\* saved slot is settled beforehand or stands in exactly one place of one group.
THEOREM PlansFit ==
  ASSUME NEW saved, SlotsFit(saved), {s.id : s \in saved} = Slot,
         \A s \in saved : s.app \in App,
         NEW now, NEW open \in Seq(App), Len(open) <= MaxWindow
  PROVE  PlanTyped(PlanOf(saved, now, open)) /\ OnePlaceEach(PlanOf(saved, now, open))
<1> DEFINE p == PlanOf(saved, now, open)
           groups == Groups(saved, now)
           leads == LeadList(saved, now)
<1>1. /\ p.open = open /\ DOMAIN p.groups = DOMAIN groups
      /\ \A i \in DOMAIN groups : p.groups[i].slots = groups[i].slots
  BY PlanFields
<1>2. /\ DOMAIN p.preset = Slot
      /\ p.preset \in [Slot -> {"none", "not-reopened", "already-open"}]
      /\ \A s \in saved : p.preset[s.id] = "none" <=> Disposition(s, now) = "launch"
  BY PlanPreset
<1>3. \A i \in DOMAIN groups :
        /\ groups[i].app \in App /\ groups[i].skip \in {"none", "already-running", "no-route"}
        /\ groups[i].slots \in Seq(Slot)
  BY GroupTyped
<1>4. /\ DOMAIN groups = DOMAIN leads /\ leads \in Seq(Leads(saved, now))
      /\ \A i, j \in DOMAIN leads : leads[i] = leads[j] => i = j
      /\ \A l \in Leads(saved, now) : \E i \in DOMAIN leads : leads[i] = l
  BY GroupsOfLeads, LeadsListed
<1>5. \A i \in DOMAIN groups :
        /\ leads[i] \in Leads(saved, now)
        /\ \A s \in saved : Lists(groups[i], s) <=> s \in Members(saved, now, leads[i])
  BY GroupHolds
<1>6. \A i \in DOMAIN groups : \A j, n \in DOMAIN groups[i].slots :
        groups[i].slots[j] = groups[i].slots[n] => j = n
  <2> TAKE i \in DOMAIN groups
  <2> DEFINE q == MemberList(saved, now, LeadList(saved, now)[i])
  <2>1. groups[i].slots = [n \in DOMAIN q |-> q[n].id]
    BY GroupSlots
  <2>2. /\ \A n \in DOMAIN q : q[n] \in saved
        /\ \A j, n \in DOMAIN q : q[j] = q[n] => j = n
    BY MembersListed
  <2> HIDE DEF q
  <2>3. \A j, n \in DOMAIN q : q[j].id = q[n].id => j = n
    BY <2>2 DEF SlotsFit
  <2> QED
    BY <2>1, <2>3
<1>7. /\ \A s \in saved : s \in Launching(saved, now) <=> Disposition(s, now) = "launch"
      /\ \A l : Members(saved, now, l) \subseteq Launching(saved, now)
      /\ Launching(saved, now) \subseteq saved
  BY LeadsAndMembers DEF Launching
<1> HIDE DEF p, groups, leads
<1>8. p.groups \in Seq(Group)
  <2>1. \A i \in DOMAIN p.groups : p.groups[i] \in Group
    BY <1>1, <1>3, PlanGroups DEF p, groups
  <2>2. DOMAIN p.groups = 1 .. Len(leads) /\ Len(leads) \in Nat
    BY <1>1, <1>4
  <2>3. p.groups = [i \in DOMAIN p.groups |-> p.groups[i]]
    BY PlanGroupsFunction DEF p
  <2> QED
    BY <2>1, <2>2, <2>3
<1>9. PlanTyped(p)
  BY <1>1, <1>2, <1>8 DEF PlanTyped
<1>11. ASSUME NEW s \in saved
       PROVE  p.preset[s.id] = "none" <=>
                \E i \in DOMAIN groups : \E j \in DOMAIN groups[i].slots : groups[i].slots[j] = s.id
  <2>1. (\E i \in DOMAIN groups : \E j \in DOMAIN groups[i].slots : groups[i].slots[j] = s.id)
          <=> \E i \in DOMAIN groups : Lists(groups[i], s)
    BY DEF Lists
  <2>2. (\E i \in DOMAIN groups : Lists(groups[i], s)) => s \in Launching(saved, now)
    BY <1>5, <1>7
  <2>3. s \in Launching(saved, now) => \E i \in DOMAIN groups : Lists(groups[i], s)
    <3> SUFFICES ASSUME s \in Launching(saved, now) PROVE \E i \in DOMAIN groups : Lists(groups[i], s)
      OBVIOUS
    <3>1. PICK l \in Leads(saved, now) : s \in Members(saved, now, l)
      BY OneLead
    <3>2. PICK i \in DOMAIN groups : leads[i] = l
      BY <1>4
    <3> QED
      BY <1>5, <3>1, <3>2
  <2> QED
    BY <1>2, <1>7, <2>1, <2>2, <2>3
<1>12. \A w \in Slot : \E s \in saved : s.id = w
  OBVIOUS
<1>13. ASSUME NEW i \in DOMAIN groups, NEW h \in DOMAIN groups,
              NEW j \in DOMAIN groups[i].slots, NEW n \in DOMAIN groups[h].slots,
              groups[i].slots[j] = groups[h].slots[n]
       PROVE  i = h /\ j = n
  <2>1. groups[i].slots[j] \in Slot
    BY <1>3
  <2>2. PICK s \in saved : s.id = groups[i].slots[j]
    BY <1>12, <2>1
  <2>3. Lists(groups[i], s) /\ Lists(groups[h], s)
    BY <1>13, <2>2 DEF Lists
  <2>4. s \in Members(saved, now, leads[i]) /\ s \in Members(saved, now, leads[h])
    BY <1>5, <2>3
  <2>5. s \in Launching(saved, now)
    BY <1>7, <2>4
  <2>6. leads[i] = leads[h]
    BY <1>5, <2>4, <2>5, OneLead
  <2>7. i = h
    BY <1>4, <2>6
  <2> QED
    BY <1>6, <1>13, <2>7
<1>14. OnePlaceEach(p)
  <2>1. \A w \in Slot : p.preset[w] = "none" <=>
          \E i \in DOMAIN p.groups : \E j \in DOMAIN p.groups[i].slots : p.groups[i].slots[j] = w
    BY <1>1, <1>11, <1>12
  <2>2. \A i, h \in DOMAIN p.groups :
          \A j \in DOMAIN p.groups[i].slots, n \in DOMAIN p.groups[h].slots :
            p.groups[i].slots[j] = p.groups[h].slots[n] => i = h /\ j = n
    BY <1>1, <1>13
  <2> QED
    BY <2>1, <2>2 DEF OnePlaceEach
<1> QED
  BY <1>9, <1>14 DEF p
-----------------------------------------------------------------------------
\* SavedAssumption in the form the lemmas use.
LEMMA SavedFit == \A saved \in SavedDesktops : SlotsFit(saved)
BY SavedAssumption DEF SlotsFit

\* reopen.plan, for any saved desktop and any desktop it meets: the windows of one saved
\* process are one launch, and a menu entry serves two launches of an application only by the
\* user's own route, or for windows whose process is not recorded.
THEOREM PlansLaunchOncePerInstance == Spec => []OneLaunchPerInstance
<1>1. OneLaunchPerInstance
  BY SavedFit, EachInstanceOnce DEF OneLaunchPerInstance
<1> QED
  BY <1>1, PTL

\* reopen.plan: a group lists its slots in the order of the places they were saved at, and the
\* groups are launched in that order of their first slots.
THEOREM PlansKeepSavedOrder == Spec => []GroupsFollowSavedPlaces
<1>1. GroupsFollowSavedPlaces
  BY SavedFit, GroupsInSavedOrder DEF GroupsFollowSavedPlaces
<1> QED
  BY <1>1, PTL

\* reopen.plan: what has opened since a dry run only takes launches away.
THEOREM PlansOnlyShrink == Spec => []MoreOpenNeverLaunchesMore
<1>1. MoreOpenNeverLaunchesMore
  BY SavedFit, GrowthShrinks DEF MoreOpenNeverLaunchesMore
<1> QED
  BY <1>1, PTL
-----------------------------------------------------------------------------
(* How an application comes back.                                          *)

\* f goes from a base through the steps 1 .. m.
Runs(m, X, base, step, f) ==
  f \in [0 .. m -> X] /\ f[0] = base /\ \A n \in 1 .. m : f[n] = step[n][f[n - 1]]

\* A recursive function over 0 .. m is there for every base and every step.
LEMMA Recursion ==
  ASSUME NEW m \in Nat, NEW X, NEW base \in X, NEW step \in [1 .. m -> [X -> X]]
  PROVE  \E f : Runs(m, X, base, step, f)
<1> DEFINE Up(n, f) == /\ f \in [0 .. n -> X] /\ f[0] = base
                       /\ \A i \in 1 .. n : f[i] = step[i][f[i - 1]]
           S == {n \in Nat : n <= m => \E f : Up(n, f)}
<1>1. 0 \in S
  <2>1. Up(0, [n \in 0 .. 0 |-> base])
    OBVIOUS
  <2> QED
    BY <2>1
<1>2. ASSUME NEW n \in Nat, n \in S PROVE n + 1 \in S
  <2> SUFFICES ASSUME n + 1 <= m PROVE \E f : Up(n + 1, f)
    OBVIOUS
  <2>1. PICK f : Up(n, f)
    BY <1>2
  <2> DEFINE h == [i \in 0 .. n + 1 |-> IF i = n + 1 THEN step[n + 1][f[n]] ELSE f[i]]
  <2>2. n + 1 \in 1 .. m /\ f[n] \in X /\ step[n + 1][f[n]] \in X
    BY <2>1
  <2>3. h \in [0 .. n + 1 -> X]
    BY <2>1, <2>2
  <2>4. h[0] = base /\ h[n + 1] = step[n + 1][h[n]]
    BY <2>1
  <2>5. \A i \in 1 .. n : h[i] = step[i][h[i - 1]]
    BY <2>1
  <2> HIDE DEF h
  <2>6. \A i \in 1 .. n + 1 : h[i] = step[i][h[i - 1]]
    <3> TAKE i \in 1 .. n + 1
    <3>1. i = n + 1 \/ i \in 1 .. n
      OBVIOUS
    <3> QED
      BY <2>4, <2>5, <3>1
  <2>7. Up(n + 1, h)
    BY <2>3, <2>4, <2>6
  <2> QED
    BY <2>7
<1> HIDE DEF S
<1>3. m \in S
  BY <1>1, <1>2, NumberInduction
<1>4. PICK f : Up(m, f)
  BY <1>3 DEF S
<1>5. Runs(m, X, base, step, f)
  BY <1>4 DEF Runs
<1> QED
  BY <1>5

\* The first of some places, which 0 is none of.
LEMMA FirstIs ==
  ASSUME NEW S \in SUBSET (Nat \ {0})
  PROVE  /\ RT!FirstOf(S) = 0 <=> S = {}
         /\ S # {} => RT!FirstOf(S) \in S /\ \A j \in S : RT!FirstOf(S) <= j
<1>1. ASSUME S # {} PROVE \E i \in S : \A j \in S : i <= j
  <2> DEFINE R == OpToRel(<, Nat)
  <2>1. \A x, y \in Nat : <<x, y>> \in R <=> x < y
    BY DEF OpToRel
  <2>2. IsWellFoundedOn(R, Nat)
    BY NatLessThanWellFounded
  <2> HIDE DEF R
  <2>3. PICK x \in S : \A y \in S : ~(<<y, x>> \in R)
    BY <1>1, <2>2, WFMin
  <2>4. x \in Nat /\ \A y \in S : y \in Nat /\ ~(y < x)
    BY <2>1, <2>3
  <2>5. \A y \in S : x <= y
    BY <2>4
  <2> QED
    BY <2>5
<1>2. CASE S = {}
  BY <1>2 DEF RT!FirstOf
<1>3. CASE S # {}
  <2> DEFINE least == CHOOSE i \in S : \A j \in S : i <= j
  <2>1. least \in S /\ \A j \in S : least <= j
    BY <1>1, <1>3, Zenon
  <2>2. RT!FirstOf(S) = least
    BY <1>3 DEF RT!FirstOf
  <2> HIDE DEF least
  <2> QED
    BY <1>3, <2>1, <2>2
<1> QED
  BY <1>2, <1>3

\* What the search by name, class and program picks: the first of those that fit best.
LEMMA SearchIs ==
  ASSUME NEW entries, DOMAIN entries \subseteq Nat \ {0}, NEW app, app # RT!None,
         NEW argv, argv = <<>> \/ Head(argv) # RT!None,
         NEW picked, picked = RT!EntryFor(app, IF argv = <<>> THEN RT!None ELSE Head(argv), entries)
  PROVE  /\ picked = 0 <=> \A i \in DOMAIN entries : ~(Fit(entries[i], app, argv) < 4)
         /\ picked # 0 =>
              /\ picked \in DOMAIN entries /\ Fit(entries[picked], app, argv) < 4
              /\ \A j \in DOMAIN entries : Fit(entries[j], app, argv) < 4 =>
                   \/ Fit(entries[picked], app, argv) < Fit(entries[j], app, argv)
                   \/ Fit(entries[picked], app, argv) = Fit(entries[j], app, argv) /\ picked <= j
<1> DEFINE program == IF argv = <<>> THEN RT!None ELSE Head(argv)
           key == RT!Lower(app)
           D == DOMAIN entries
           A == {i \in D : RT!Lower(entries[i].id) = key}
           B == {i \in D : RT!Lower(entries[i].wm) = key}
           C == {i \in D : program # RT!None /\ entries[i].program = program}
           fit(i) == Fit(entries[i], app, argv)
<1>1. picked = IF RT!FirstOf(A) # 0 THEN RT!FirstOf(A)
              ELSE IF RT!FirstOf(B) # 0 THEN RT!FirstOf(B) ELSE RT!FirstOf(C)
  <2>1. A = {i \in D : app # RT!None /\ RT!Lower(entries[i].id) = key}
    OBVIOUS
  <2>2. B = {i \in D : app # RT!None /\ RT!Lower(entries[i].wm) = key}
    OBVIOUS
  <2> HIDE DEF program
  <2>3. picked = RT!EntryFor(app, program, entries)
    BY DEF program
  <2> QED
    BY <2>1, <2>2, <2>3 DEF RT!EntryFor
<1>2. ASSUME NEW i \in D
      PROVE  /\ fit(i) \in {1, 2, 3, 4}
             /\ fit(i) = 1 <=> i \in A
             /\ fit(i) = 2 <=> i \in B /\ i \notin A
             /\ fit(i) = 3 <=> i \in C /\ i \notin A /\ i \notin B
  <2>1. i \in C <=> argv # <<>> /\ entries[i].program = Head(argv)
    OBVIOUS
  <2>2. (i \in A <=> RT!Lower(entries[i].id) = key) /\ (i \in B <=> RT!Lower(entries[i].wm) = key)
    OBVIOUS
  <2> HIDE DEF A, B, C, program
  <2> QED
    BY <2>1, <2>2 DEF Fit
<1>3. A \in SUBSET D /\ B \in SUBSET D /\ C \in SUBSET D /\ D \subseteq Nat \ {0}
  OBVIOUS
<1> DEFINE a == RT!FirstOf(A)
           b == RT!FirstOf(B)
           c == RT!FirstOf(C)
<1> HIDE DEF A, B, C, D, program, key, fit
<1>4. /\ a = 0 <=> A = {}
      /\ A # {} => a \in A /\ \A j \in A : a <= j
  BY <1>3, FirstIs
<1>5. /\ b = 0 <=> B = {}
      /\ B # {} => b \in B /\ \A j \in B : b <= j
  BY <1>3, FirstIs
<1>6. /\ c = 0 <=> C = {}
      /\ C # {} => c \in C /\ \A j \in C : c <= j
  BY <1>3, FirstIs
<1> HIDE DEF a, b, c
<1>7. picked = IF a # 0 THEN a ELSE IF b # 0 THEN b ELSE c
  BY <1>1 DEF a, b, c
<1>8. /\ picked = 0 <=> \A i \in D : ~(fit(i) < 4)
      /\ picked # 0 => picked \in D /\ fit(picked) < 4
      /\ picked # 0 => \A j \in D : fit(j) < 4 =>
           fit(picked) < fit(j) \/ (fit(picked) = fit(j) /\ picked <= j)
  <2>1. \A i \in D : fit(i) < 4 <=> (i \in A \/ i \in B \/ i \in C)
    BY <1>2
  <2>2. CASE A # {}
    <3>1. picked = a /\ a \in A /\ a # 0 /\ a \in D /\ fit(a) = 1 /\ \A j \in A : a <= j
      BY <1>2, <1>3, <1>4, <1>7, <2>2
    <3>2. \A j \in D : fit(j) < 4 => 1 < fit(j) \/ (fit(j) = 1 /\ j \in A)
      BY <1>2
    <3> QED
      BY <3>1, <3>2
  <2>3. CASE A = {} /\ B # {}
    <3>1. picked = b /\ b \in B /\ b # 0 /\ b \in D /\ fit(b) = 2 /\ \A j \in B : b <= j
      BY <1>2, <1>3, <1>4, <1>5, <1>7, <2>3
    <3>2. \A j \in D : fit(j) < 4 => 2 < fit(j) \/ (fit(j) = 2 /\ j \in B)
      BY <1>2, <2>3
    <3> QED
      BY <3>1, <3>2
  <2>4. CASE A = {} /\ B = {} /\ C # {}
    BY <1>2, <1>3, <1>4, <1>5, <1>6, <1>7, <2>1, <2>4
  <2>5. CASE A = {} /\ B = {} /\ C = {}
    BY <1>2, <1>3, <1>4, <1>5, <1>6, <1>7, <2>1, <2>5
  <2> QED
    BY <2>2, <2>3, <2>4, <2>5
<1> QED
  BY <1>8 DEF D, fit

Blank == [seen |-> {}, entries |-> <<>>]
Readings(files) ==
  [seen : SUBSET {files[i].id : i \in DOMAIN files}, entries : Seq({files[i] : i \in DOMAIN files})]

\* `read` is what desktop_entries has after each of the files.
Reads(files, read) ==
  /\ read \in [0 .. Len(files) -> Readings(files)]
  /\ read[0] = Blank
  /\ \A n \in 1 .. Len(files) : read[n] = RT!Lists(read[n - 1], files[n])
  /\ RT!DesktopEntries(files) = read[Len(files)].entries

\* One more file keeps it a reading.
LEMMA ReadingStep ==
  ASSUME NEW files, files \in Seq({files[i] : i \in DOMAIN files}),
         NEW n \in 1 .. Len(files), NEW acc \in Readings(files)
  PROVE  RT!Lists(acc, files[n]) \in Readings(files)
<1> DEFINE F == {files[i] : i \in DOMAIN files}
           D == {files[i].id : i \in DOMAIN files}
<1>1. n \in DOMAIN files
  OBVIOUS
<1>2. files[n] \in F /\ files[n].id \in D
  BY <1>1
<1>3. acc \in [seen : SUBSET D, entries : Seq(F)]
  BY DEF Readings
<1> HIDE DEF F, D
<1>4. RT!Lists(acc, files[n]) \in [seen : SUBSET D, entries : Seq(F)]
  BY <1>2, <1>3 DEF RT!Lists
<1> QED
  BY <1>4 DEF Readings, F, D

\* desktop_entries ends, with every file read in turn.
LEMMA ReadingExists ==
  ASSUME NEW files, files \in Seq({files[i] : i \in DOMAIN files})
  PROVE  \E read : Reads(files, read)
<1> DEFINE m == Len(files)
           X == Readings(files)
           step == [n \in 1 .. m |-> [x \in X |-> RT!Lists(x, files[n])]]
           read == CHOOSE read : read = [n \in 0 .. m |-> IF n = 0 THEN Blank
                                                          ELSE RT!Lists(read[n - 1], files[n])]
<1>1. m \in Nat
  OBVIOUS
<1>2. Blank \in X
  BY DEF Blank, Readings
<1>3. \A n \in 1 .. m, x \in X : RT!Lists(x, files[n]) \in X
  BY ReadingStep
<1>4. RT!DesktopEntries(files) = read[m].entries
  BY DEF RT!DesktopEntries, Blank
<1> HIDE DEF m, X
<1>5. step \in [1 .. m -> [X -> X]]
  BY <1>3
<1>6. \A n \in 1 .. m, x \in X : step[n][x] = RT!Lists(x, files[n])
  OBVIOUS
<1> HIDE DEF step
<1>0. PICK f : Runs(m, X, Blank, step, f)
  BY <1>1, <1>2, <1>5, Recursion
<1>7. f \in [0 .. m -> X] /\ f[0] = Blank /\ \A n \in 1 .. m : f[n] = step[n][f[n - 1]]
  BY <1>0 DEF Runs
<1>8. \A n \in 1 .. m : f[n - 1] \in X /\ f[n] = RT!Lists(f[n - 1], files[n])
  <2> TAKE n \in 1 .. m
  <2>1. n - 1 \in 0 .. m
    BY <1>1
  <2>2. f[n - 1] \in X
    BY <1>7, <2>1
  <2> QED
    BY <1>6, <1>7, <2>2
<1>9. \A n \in 0 .. m : f[n] = IF n = 0 THEN Blank ELSE RT!Lists(f[n - 1], files[n])
  <2> TAKE n \in 0 .. m
  <2>1. n = 0 \/ n \in 1 .. m
    BY <1>1
  <2> QED
    BY <1>7, <1>8, <2>1
<1>10. f = [n \in 0 .. m |-> f[n]]
  BY <1>7
<1>11. f = [n \in 0 .. m |-> IF n = 0 THEN Blank ELSE RT!Lists(f[n - 1], files[n])]
  BY <1>9, <1>10
<1>12. read = [n \in 0 .. m |-> IF n = 0 THEN Blank ELSE RT!Lists(read[n - 1], files[n])]
  BY <1>11
<1> HIDE DEF read
<1>13. DOMAIN read = 0 .. m
  BY <1>12
<1>14. \A n \in 0 .. m : read[n] = IF n = 0 THEN Blank ELSE RT!Lists(read[n - 1], files[n])
  BY <1>12
<1> DEFINE T == {n \in Nat : n <= m => read[n] \in X}
<1>15. 0 \in T
  BY <1>1, <1>2, <1>14
<1>16. ASSUME NEW n \in Nat, n \in T PROVE n + 1 \in T
  BY <1>1, <1>3, <1>14, <1>16
<1> HIDE DEF T
<1>17. Nat \subseteq T
  BY <1>15, <1>16, NumberInduction
<1>18. \A n \in 0 .. m : read[n] \in X
  BY <1>1, <1>17 DEF T
<1>19. read = [n \in 0 .. m |-> read[n]]
  BY <1>12, <1>14
<1>20. read \in [0 .. m -> X]
  BY <1>18, <1>19
<1>21. read[0] = Blank /\ \A n \in 1 .. m : read[n] = RT!Lists(read[n - 1], files[n])
  BY <1>1, <1>14
<1> QED
  BY <1>4, <1>20, <1>21 DEF Reads, m, X

\* The first n files have been read into acc: its entries are those of them that show, in order.
Shown(files, n) == {i \in Visible(files) : i <= n}

Matches(acc, at, files, n) ==
  /\ acc.seen = {files[i].id : i \in 1 .. n}
  /\ acc.entries \in Seq({files[i] : i \in DOMAIN files})
  /\ at \in [DOMAIN acc.entries -> Shown(files, n)]
  /\ \A k1 \in DOMAIN acc.entries : acc.entries[k1] = files[at[k1]]
  /\ \A k1, k2 \in DOMAIN acc.entries : k1 < k2 => at[k1] < at[k2]
  /\ \A i \in Shown(files, n) : \E k1 \in DOMAIN acc.entries : at[k1] = i

\* The next file: known already, not to be shown, or the next entry.
LEMMA MatchesNext ==
  ASSUME NEW files, files \in Seq({files[i] : i \in DOMAIN files}),
         NEW n \in Nat, n + 1 <= Len(files), NEW acc, NEW at, Matches(acc, at, files, n)
  PROVE  \E to : Matches(RT!Lists(acc, files[n + 1]), to, files, n + 1)
<1> DEFINE f == files[n + 1]
           e == acc.entries
           F == {files[i] : i \in DOMAIN files}
           m == Len(e)
<1>1. /\ DOMAIN files = 1 .. Len(files) /\ Len(files) \in Nat /\ n + 1 \in DOMAIN files
      /\ Visible(files) \subseteq 1 .. Len(files)
  BY DEF Visible
<1>2. n + 1 \in Visible(files) <=> f.keys = "ok" /\ \A j \in 1 .. n : files[j].id # f.id
  <2>1. 1 .. (n + 1) - 1 = 1 .. n
    OBVIOUS
  <2> QED
    BY <1>1, <2>1 DEF Visible
<1>3. /\ acc.seen = {files[i].id : i \in 1 .. n} /\ e \in Seq(F)
      /\ at \in [DOMAIN e -> Shown(files, n)]
      /\ \A k1 \in DOMAIN e : e[k1] = files[at[k1]]
      /\ \A k1, k2 \in DOMAIN e : k1 < k2 => at[k1] < at[k2]
      /\ \A i \in Shown(files, n) : \E k1 \in DOMAIN e : at[k1] = i
  BY DEF Matches
<1>4. f \in F
  BY <1>1
<1>5. {files[i].id : i \in 1 .. n + 1} = acc.seen \cup {f.id}
  <2>1. 1 .. n + 1 = (1 .. n) \cup {n + 1}
    OBVIOUS
  <2> QED
    BY <1>3, <2>1
<1>6. f.id \in acc.seen <=> \E j \in 1 .. n : files[j].id = f.id
  BY <1>3
<1>7. /\ n + 1 \in Visible(files) => Shown(files, n + 1) = Shown(files, n) \cup {n + 1}
      /\ n + 1 \notin Visible(files) => Shown(files, n + 1) = Shown(files, n)
  BY <1>1 DEF Shown
<1> HIDE DEF f, F
<1>8. CASE f.id \in acc.seen
  <2>1. RT!Lists(acc, f) = acc
    BY <1>8 DEF RT!Lists
  <2>2. Shown(files, n + 1) = Shown(files, n) /\ {files[i].id : i \in 1 .. n + 1} = acc.seen
    BY <1>2, <1>5, <1>6, <1>7, <1>8
  <2>3. Matches(acc, at, files, n + 1)
    BY <1>3, <2>2 DEF Matches, F
  <2> QED
    BY <2>1, <2>3 DEF f
<1>9. CASE f.id \notin acc.seen /\ f.keys # "ok"
  <2> DEFINE b == RT!Lists(acc, f)
  <2>1. b.seen = acc.seen \cup {f.id} /\ b.entries = e
    BY <1>9 DEF RT!Lists
  <2>2. Shown(files, n + 1) = Shown(files, n)
    BY <1>2, <1>7, <1>9
  <2> HIDE DEF b, e
  <2>3. Matches(b, at, files, n + 1)
    BY <1>3, <1>5, <2>1, <2>2 DEF Matches, F
  <2> QED
    BY <2>3 DEF f, b
<1>10. CASE f.id \notin acc.seen /\ f.keys = "ok"
  <2> DEFINE b == RT!Lists(acc, f)
             c == b.entries
             to == [k1 \in DOMAIN c |-> IF k1 = m + 1 THEN n + 1 ELSE at[k1]]
  <2>1. b.seen = acc.seen \cup {f.id} /\ c = Append(e, f)
    BY <1>10 DEF RT!Lists
  <2>2. Shown(files, n + 1) = Shown(files, n) \cup {n + 1}
    BY <1>2, <1>6, <1>7, <1>10
  <2>3. \A i \in Shown(files, n) : i <= n /\ i \in Nat
    BY <1>1 DEF Shown
  <2> HIDE DEF b, c, e
  <2>4. /\ m \in Nat /\ DOMAIN e = 1 .. m /\ DOMAIN c = 1 .. m + 1 /\ c \in Seq(F)
        /\ c[m + 1] = f /\ \A k1 \in 1 .. m : c[k1] = e[k1]
    BY <1>3, <1>4, <2>1
  <2>5. to[m + 1] = n + 1 /\ \A k1 \in 1 .. m : to[k1] = at[k1]
    BY <2>4
  <2>6. to \in [DOMAIN c -> Shown(files, n + 1)]
    BY <1>3, <2>2, <2>4
  <2> HIDE DEF to, m
  <2>7. \A k1 \in DOMAIN c : c[k1] = files[to[k1]]
    <3> TAKE k1 \in DOMAIN c
    <3>1. k1 \in 1 .. m \/ k1 = m + 1
      BY <2>4
    <3> QED
      BY <1>3, <2>4, <2>5, <3>1 DEF f
  <2>8. \A k1, k2 \in DOMAIN c : k1 < k2 => to[k1] < to[k2]
    <3> TAKE k1, k2 \in DOMAIN c
    <3>1. (k1 \in 1 .. m \/ k1 = m + 1) /\ (k2 \in 1 .. m \/ k2 = m + 1)
      BY <2>4
    <3>2. \A i \in 1 .. m : at[i] \in Shown(files, n)
      BY <1>3, <2>4
    <3>3. ASSUME k1 < k2, k2 = m + 1 PROVE to[k1] < to[k2]
      <4>1. k1 \in 1 .. m /\ to[k1] = at[k1] /\ to[k2] = n + 1
        BY <2>4, <2>5, <3>1, <3>3
      <4>2. at[k1] <= n /\ at[k1] \in Nat
        BY <2>3, <3>2, <4>1
      <4> QED
        BY <4>1, <4>2
    <3>4. ASSUME k1 < k2, k2 \in 1 .. m PROVE to[k1] < to[k2]
      <4>1. k1 \in 1 .. m
        BY <2>4, <3>1, <3>4
      <4> QED
        BY <1>3, <2>4, <2>5, <3>4, <4>1
    <3> QED
      BY <3>1, <3>3, <3>4
  <2>9. \A i \in Shown(files, n + 1) : \E k1 \in DOMAIN c : to[k1] = i
    <3> TAKE i \in Shown(files, n + 1)
    <3>1. CASE i = n + 1
      BY <2>4, <2>5, <3>1
    <3>2. CASE i \in Shown(files, n)
      <4>1. PICK k1 \in DOMAIN e : at[k1] = i
        BY <1>3, <3>2
      <4> QED
        BY <2>4, <2>5, <4>1
    <3> QED
      BY <2>2, <3>1, <3>2
  <2>10. Matches(b, to, files, n + 1)
    BY <1>5, <2>1, <2>4, <2>6, <2>7, <2>8, <2>9 DEF Matches, F, c
  <2> QED
    BY <2>10 DEF f, b
<1> QED
  BY <1>8, <1>9, <1>10

\* desktop_entries lists the files that show, in the order they are read.
LEMMA EntriesShown ==
  ASSUME NEW files, files \in Seq({files[i] : i \in DOMAIN files})
  PROVE  LET entries == RT!DesktopEntries(files)
         IN  \E at : /\ DOMAIN entries = 1 .. Len(entries) /\ Len(entries) \in Nat
                     /\ at \in [DOMAIN entries -> Visible(files)]
                     /\ \A n \in DOMAIN entries : entries[n] = files[at[n]]
                     /\ \A n, h \in DOMAIN entries : n < h => at[n] < at[h]
                     /\ \A i \in Visible(files) : \E n \in DOMAIN entries : at[n] = i
<1> DEFINE m == Len(files)
<1>1. PICK read : Reads(files, read)
  BY ReadingExists
<1>2. /\ read[0] = Blank /\ \A n \in 1 .. m : read[n] = RT!Lists(read[n - 1], files[n])
      /\ RT!DesktopEntries(files) = read[m].entries
  BY <1>1 DEF Reads
<1>3. m \in Nat /\ DOMAIN files = 1 .. m
  OBVIOUS
<1> HIDE DEF m
<1> DEFINE S == {n \in Nat : n <= m => \E at : Matches(read[n], at, files, n)}
<1>4. 0 \in S
  <2> DEFINE at == [i \in {} |-> i]
  <2>1. Blank.seen = {} /\ Blank.entries = <<>>
    BY DEF Blank
  <2>2. Shown(files, 0) = {}
    BY <1>3 DEF Shown, Visible
  <2>3. DOMAIN <<>> = {} /\ \A Y : <<>> \in Seq(Y)
    OBVIOUS
  <2>4. at \in [{} -> {}]
    OBVIOUS
  <2>5. {files[i].id : i \in 1 .. 0} = {}
    OBVIOUS
  <2> HIDE DEF at
  <2>6. Matches(Blank, at, files, 0)
    BY <2>1, <2>2, <2>3, <2>4, <2>5 DEF Matches
  <2> QED
    BY <1>2, <2>6
<1>5. ASSUME NEW n \in Nat, n \in S PROVE n + 1 \in S
  <2> SUFFICES ASSUME n + 1 <= m PROVE \E at : Matches(read[n + 1], at, files, n + 1)
    OBVIOUS
  <2>1. PICK at : Matches(read[n], at, files, n)
    BY <1>3, <1>5
  <2>2. read[n + 1] = RT!Lists(read[n], files[n + 1])
    BY <1>2, <1>3
  <2> QED
    BY <2>1, <2>2, MatchesNext DEF m
<1> HIDE DEF S
<1>6. m \in S
  BY <1>3, <1>4, <1>5, NumberInduction
<1>7. PICK at : Matches(read[m], at, files, m)
  BY <1>3, <1>6 DEF S
<1>8. Shown(files, m) = Visible(files)
  BY <1>3 DEF Shown, Visible
<1> DEFINE entries == read[m].entries
<1>9. /\ entries \in Seq({files[i] : i \in DOMAIN files})
      /\ at \in [DOMAIN entries -> Visible(files)]
      /\ \A n \in DOMAIN entries : entries[n] = files[at[n]]
      /\ \A n, h \in DOMAIN entries : n < h => at[n] < at[h]
      /\ \A i \in Visible(files) : \E n \in DOMAIN entries : at[n] = i
  BY <1>7, <1>8 DEF Matches
<1> HIDE DEF entries
<1>10. DOMAIN entries = 1 .. Len(entries) /\ Len(entries) \in Nat
  BY <1>9
<1>11. RT!DesktopEntries(files) = entries
  BY <1>2 DEF entries
<1> QED
  BY <1>9, <1>10, <1>11

\* Without a route of the user's: the entry that fits best, for a single instance.
LEMMA OwnRouteFits ==
  ASSUME NEW files \in EntryLists, NEW argv \in Commands, NEW app \in App, NEW single \in BOOLEAN,
         NEW r, r = RT!OwnRoute(app, argv, single, RT!DesktopEntries(files))
  PROVE  ByOwnRoute(r, app, argv, single, files)
<1> DEFINE entries == RT!DesktopEntries(files)
           picked == RT!EntryFor(app, IF argv = <<>> THEN RT!None ELSE Head(argv), entries)
           V == Visible(files)
           W == Fitting(files, app, argv)
           fit(f) == Fit(f, app, argv)
<1>1. files \in Seq({files[i] : i \in DOMAIN files}) /\ (argv = <<>> \/ Head(argv) # RT!None)
      /\ app # RT!None
  BY RoutingAssumption
<1>2. PICK at : /\ DOMAIN entries = 1 .. Len(entries) /\ Len(entries) \in Nat
                /\ at \in [DOMAIN entries -> V]
                /\ \A n \in DOMAIN entries : entries[n] = files[at[n]]
                /\ \A n, h \in DOMAIN entries : n < h => at[n] < at[h]
                /\ \A i \in V : \E n \in DOMAIN entries : at[n] = i
  BY <1>1, EntriesShown
<1>3. r = IF single /\ picked # 0 THEN RT!ByEntry(entries[picked])
          ELSE IF argv # <<>> THEN RT!By("argv", RT!WithoutUrls(argv)) ELSE RT!By("no-route", <<>>)
  BY DEF RT!OwnRoute
<1> HIDE DEF entries
<1>4. DOMAIN entries \subseteq Nat \ {0}
  BY <1>2
<1>5. /\ picked = 0 <=> \A i \in DOMAIN entries : ~(Fit(entries[i], app, argv) < 4)
      /\ picked # 0 =>
           /\ picked \in DOMAIN entries /\ Fit(entries[picked], app, argv) < 4
           /\ \A j \in DOMAIN entries : Fit(entries[j], app, argv) < 4 =>
                \/ Fit(entries[picked], app, argv) < Fit(entries[j], app, argv)
                \/ Fit(entries[picked], app, argv) = Fit(entries[j], app, argv) /\ picked <= j
  BY <1>1, <1>4, SearchIs
<1>6. /\ \A i : i \in W <=> i \in V /\ fit(files[i]) < 4
      /\ V \subseteq DOMAIN files
  BY DEF Fitting, Visible
<1>7. \A n \in DOMAIN entries : at[n] \in V /\ at[n] \in Nat
  <2>1. V \subseteq Nat
    BY <1>1, <1>6
  <2> QED
    BY <1>2, <2>1
<1> HIDE DEF picked, V, W, fit
<1>8. picked = 0 <=> W = {}
  <2>1. \A n \in DOMAIN entries : fit(entries[n]) < 4 <=> at[n] \in W
    BY <1>2, <1>6, <1>7
  <2>2. \A i \in W : \E n \in DOMAIN entries : at[n] = i
    BY <1>2, <1>6
  <2>3. picked = 0 <=> \A i \in DOMAIN entries : ~(fit(entries[i]) < 4)
    BY <1>5 DEF fit
  <2> QED
    BY <2>1, <2>2, <2>3
<1>9. ASSUME picked # 0
      PROVE  /\ at[picked] \in DOMAIN files /\ entries[picked] = files[at[picked]]
             /\ FitsBest(at[picked], files, app, argv)
  <2>1. picked \in DOMAIN entries /\ fit(entries[picked]) < 4
    BY <1>5, <1>9 DEF fit
  <2>2. at[picked] \in W /\ at[picked] \in DOMAIN files /\ entries[picked] = files[at[picked]]
    BY <1>2, <1>6, <1>7, <2>1
  <2>3. ASSUME NEW j \in W
        PROVE  \/ fit(files[at[picked]]) < fit(files[j])
               \/ fit(files[at[picked]]) = fit(files[j]) /\ at[picked] <= j
    <3>1. PICK n \in DOMAIN entries : at[n] = j
      BY <1>2, <1>6
    <3>2. fit(entries[n]) < 4 /\ entries[n] = files[j]
      BY <1>2, <1>6, <3>1
    <3>3. fit(entries[picked]) < fit(entries[n]) \/ (fit(entries[picked]) = fit(entries[n]) /\ picked <= n)
      BY <1>5, <1>9, <3>2 DEF fit
    <3>4. picked <= n => at[picked] <= at[n]
      BY <1>2, <1>4, <1>7, <2>1
    <3> QED
      BY <2>2, <3>1, <3>2, <3>3, <3>4
  <2> QED
    BY <2>2, <2>3 DEF FitsBest, W, fit
<1>10. /\ RT!ByEntry(entries[picked]).by = "desktop" /\ RT!ByEntry(entries[picked]).file = entries[picked]
       /\ RT!By("argv", RT!WithoutUrls(argv)).by = "argv" /\ RT!By("no-route", <<>>).by = "no-route"
  BY DEF RT!ByEntry, RT!By
<1>11. r.by = "desktop" <=> single /\ W # {}
  BY <1>3, <1>8, <1>10
<1>12. r.by = "desktop" => \E i \in DOMAIN files : r.file = files[i] /\ FitsBest(i, files, app, argv)
  BY <1>3, <1>9, <1>10
<1>13. r.by # "desktop" => r.by = (IF argv # <<>> THEN "argv" ELSE "no-route")
  BY <1>3, <1>10
<1> QED
  BY <1>11, <1>12, <1>13 DEF ByOwnRoute, W

\* With one: the user's command, the entry the user names if it shows, or a refusal.
LEMMA UserRouteNamed ==
  ASSUME NEW files \in EntryLists, NEW user,
         NEW r, r = RT!UserRoute(user, RT!DesktopEntries(files))
  PROVE  ByUserRoute(r, user, files)
<1> DEFINE entries == RT!DesktopEntries(files)
           S == {i \in DOMAIN entries : entries[i].id = user.desktop}
           named == RT!FirstOf(S)
           V == Visible(files)
<1>1. files \in Seq({files[i] : i \in DOMAIN files})
  BY RoutingAssumption
<1>2. PICK at : /\ DOMAIN entries = 1 .. Len(entries) /\ Len(entries) \in Nat
                /\ at \in [DOMAIN entries -> V]
                /\ \A n \in DOMAIN entries : entries[n] = files[at[n]]
                /\ \A n, h \in DOMAIN entries : n < h => at[n] < at[h]
                /\ \A i \in V : \E n \in DOMAIN entries : at[n] = i
  BY <1>1, EntriesShown
<1>3. r = IF user.argv # <<>> THEN RT!By("user", user.argv)
          ELSE IF named # 0 THEN RT!ByEntry(entries[named]) ELSE RT!By("refused", <<>>)
  BY DEF RT!UserRoute
<1> HIDE DEF entries
<1>4. S \in SUBSET (Nat \ {0}) /\ \A n : n \in S <=> n \in DOMAIN entries /\ entries[n].id = user.desktop
  BY <1>2
<1> HIDE DEF S, V
<1>5. (named = 0 <=> S = {}) /\ (S # {} => named \in S)
  BY <1>4, FirstIs
<1> HIDE DEF named
<1>6. S # {} <=> \E i \in V : files[i].id = user.desktop
  BY <1>2, <1>4
<1>7. named # 0 => \E i \in V : entries[named] = files[i] /\ files[i].id = user.desktop
  BY <1>2, <1>4, <1>5
<1>8. /\ RT!ByEntry(entries[named]).by = "desktop" /\ RT!ByEntry(entries[named]).file = entries[named]
      /\ RT!By("user", user.argv).by = "user" /\ RT!By("refused", <<>>).by = "refused"
  BY DEF RT!ByEntry, RT!By
<1>9. /\ r.by = "user" <=> user.argv # <<>>
      /\ r.by = "desktop" <=> user.argv = <<>> /\ \E i \in V : files[i].id = user.desktop
      /\ r.by \in {"user", "desktop", "refused"}
  BY <1>3, <1>5, <1>6, <1>8
<1>10. r.by = "desktop" => \E i \in V : r.file = files[i] /\ files[i].id = user.desktop
  BY <1>3, <1>7, <1>8
<1> QED
  BY <1>9, <1>10 DEF ByUserRoute, V

\* routes.route: whatever entries are installed and whatever the user has set, an application
\* comes back by the user's route or not at all, else by the entry that fits it best of those
\* that a menu shows, else by what it ran.
THEOREM AppsAreRouted == Spec => []AppsUseTheirRoute
<1>1. ASSUME NEW files \in EntryLists, NEW argv \in Commands, NEW single \in BOOLEAN,
             NEW users \in UserTables, NEW app \in App,
             NEW r, r = RT!RouteOf(app, argv, single, files, users)
      PROVE  IF ~RT!Valid(users) THEN r.by = "refused"
             ELSE IF app \in DOMAIN users THEN ByUserRoute(r, users[app], files)
             ELSE ByOwnRoute(r, app, argv, single, files)
  <2>1. CASE ~RT!Valid(users)
    BY <1>1, <2>1 DEF RT!RouteOf, RT!By
  <2>2. CASE RT!Valid(users) /\ app \in DOMAIN users
    <3>1. r = RT!UserRoute(users[app], RT!DesktopEntries(files))
      BY <1>1, <2>2 DEF RT!RouteOf
    <3> QED
      BY <2>2, <3>1, UserRouteNamed
  <2>3. CASE RT!Valid(users) /\ app \notin DOMAIN users
    <3>1. r = RT!OwnRoute(app, argv, single, RT!DesktopEntries(files))
      BY <1>1, <2>3 DEF RT!RouteOf
    <3> QED
      BY <2>3, <3>1, OwnRouteFits
  <2> QED
    BY <2>1, <2>2, <2>3
<1>2. AppsUseTheirRoute
  BY <1>1 DEF AppsUseTheirRoute
<1> QED
  BY <1>2, PTL
-----------------------------------------------------------------------------
(* How an Exec value is read.                                              *)

\* The characters of the arguments, and those that an Exec value treats on their own.
Characters ==
  (UNION {{arg[i] : i \in DOMAIN arg} : arg \in Arguments})
    \cup {"quote", "space", "backslash", "dollar", "percent", "f", "s"}

Text == Seq(Characters)

\* Induction over sequences, with a set for the predicate.
LEMMA AppendInduction ==
  ASSUME NEW C, NEW S, <<>> \in S, \A s \in Seq(C), c \in C : s \in S => Append(s, c) \in S
  PROVE  Seq(C) \subseteq S
<1> DEFINE T == {n \in Nat : \A s \in Seq(C) : Len(s) = n => s \in S}
<1>1. 0 \in T
  <2>1. \A s \in Seq(C) : Len(s) = 0 => s = <<>>
    BY EmptySeq
  <2> QED
    BY <2>1
<1>2. ASSUME NEW n \in Nat, n \in T PROVE n + 1 \in T
  <2> SUFFICES ASSUME NEW s \in Seq(C), Len(s) = n + 1 PROVE s \in S
    OBVIOUS
  <2>1. s # <<>>
    BY <1>2
  <2>2. PICK text \in Seq(C), c \in C : s = Append(text, c)
    BY <2>1, SequenceEmptyOrAppend
  <2>3. Len(text) = n
    BY <2>2
  <2> QED
    BY <1>2, <2>2, <2>3
<1> HIDE DEF T
<1>3. Nat \subseteq T
  BY <1>1, <1>2, NumberInduction
<1> QED
  BY <1>3 DEF T

\* What a loop over a text comes to, for a step that is a function on the states X.
Scans(X, C, step, start, text, end) ==
  \E f \in [0 .. Len(text) -> X] :
    /\ f[0] = start /\ end = f[Len(text)]
    /\ \A n \in 1 .. Len(text) : f[n] = step[<<f[n - 1], text[n]>>]

\* The end of a loop is one of its states; with no text it is the start, and one more
\* character is one more step.
LEMMA ScanGrows ==
  ASSUME NEW X, NEW C, NEW step \in [X \X C -> X], NEW start \in X
  PROVE  /\ \A text \in Seq(C) : \A end : Scans(X, C, step, start, text, end) => end \in X
         /\ \A end : Scans(X, C, step, start, <<>>, end) => end = start
         /\ \A text \in Seq(C), c \in C : \A before, after :
              /\ Scans(X, C, step, start, text, before)
              /\ Scans(X, C, step, start, Append(text, c), after)
              => after = step[<<before, c>>]
<1>1. ASSUME NEW text \in Seq(C), NEW end, Scans(X, C, step, start, text, end) PROVE end \in X
  BY <1>1 DEF Scans
<1>2. ASSUME NEW end, Scans(X, C, step, start, <<>>, end) PROVE end = start
  BY <1>2 DEF Scans
<1>3. ASSUME NEW text \in Seq(C), NEW c \in C, NEW before, NEW after,
             Scans(X, C, step, start, text, before),
             Scans(X, C, step, start, Append(text, c), after)
      PROVE  after = step[<<before, c>>]
  <2> DEFINE m == Len(text)
             more == Append(text, c)
  <2>1. m \in Nat /\ Len(more) = m + 1 /\ more[m + 1] = c /\ \A n \in 1 .. m : more[n] = text[n]
    BY AppendProperties
  <2>2. PICK f \in [0 .. m -> X] :
          /\ f[0] = start /\ before = f[m]
          /\ \A n \in 1 .. m : f[n] = step[<<f[n - 1], text[n]>>]
    BY <1>3 DEF Scans
  <2>3. PICK h \in [0 .. m + 1 -> X] :
          /\ h[0] = start /\ after = h[m + 1]
          /\ \A n \in 1 .. m + 1 : h[n] = step[<<h[n - 1], more[n]>>]
    <3>1. PICK h \in [0 .. Len(more) -> X] :
            /\ h[0] = start /\ after = h[Len(more)]
            /\ \A n \in 1 .. Len(more) : h[n] = step[<<h[n - 1], more[n]>>]
      BY <1>3 DEF Scans
    <3> HIDE DEF m, more
    <3> QED
      BY <2>1, <3>1
  <2> HIDE DEF m, more
  <2> DEFINE T == {n \in Nat : n <= m => h[n] = f[n]}
  <2>4. 0 \in T
    BY <2>1, <2>2, <2>3
  <2>5. ASSUME NEW n \in Nat, n \in T PROVE n + 1 \in T
    <3> SUFFICES ASSUME n + 1 <= m PROVE h[n + 1] = f[n + 1]
      OBVIOUS
    <3>1. n + 1 \in 1 .. m /\ n + 1 \in 1 .. m + 1 /\ (n + 1) - 1 = n /\ h[n] = f[n]
      BY <2>1, <2>5
    <3>2. h[n + 1] = step[<<h[n], more[n + 1]>>] /\ f[n + 1] = step[<<f[n], text[n + 1]>>]
      BY <2>2, <2>3, <3>1
    <3> QED
      BY <2>1, <3>1, <3>2
  <2> HIDE DEF T
  <2>6. Nat \subseteq T
    BY <2>4, <2>5, NumberInduction
  <2>7. h[m] = f[m]
    BY <2>1, <2>6 DEF T
  <2>8. h[m + 1] = step[<<h[m], more[m + 1]>>]
    <3>1. m + 1 \in 1 .. m + 1 /\ (m + 1) - 1 = m
      BY <2>1
    <3> QED
      BY <2>3, <3>1
  <2> QED
    BY <2>1, <2>2, <2>3, <2>7, <2>8
<1> QED
  BY <1>1, <1>2, <1>3

\* Every text can be looped over.
LEMMA ScanExists ==
  ASSUME NEW X, NEW C, NEW step \in [X \X C -> X], NEW start \in X, NEW text \in Seq(C)
  PROVE  \E end : Scans(X, C, step, start, text, end)
<1> DEFINE m == Len(text)
           steps == [n \in 1 .. m |-> [x \in X |-> step[<<x, text[n]>>]]]
<1>1. m \in Nat /\ \A n \in 1 .. m : text[n] \in C
  OBVIOUS
<1> HIDE DEF m
<1>2. steps \in [1 .. m -> [X -> X]]
  BY <1>1
<1>3. \A n \in 1 .. m, x \in X : steps[n][x] = step[<<x, text[n]>>]
  OBVIOUS
<1> HIDE DEF steps
<1>4. PICK f : Runs(m, X, start, steps, f)
  BY <1>1, <1>2, Recursion
<1>5. f \in [0 .. m -> X] /\ f[0] = start /\ \A n \in 1 .. m : f[n] = steps[n][f[n - 1]]
  BY <1>4 DEF Runs
<1>6. \A n \in 1 .. m : f[n] = step[<<f[n - 1], text[n]>>]
  <2> TAKE n \in 1 .. m
  <2>1. n - 1 \in 0 .. m
    BY <1>1
  <2>2. f[n - 1] \in X
    BY <1>5, <2>1
  <2> QED
    BY <1>3, <1>5, <2>2
<1>7. Scans(X, C, step, start, text, f[m])
  BY <1>5, <1>6 DEF Scans, m
<1> QED
  BY <1>7

\* A loop that takes these steps as long as it is in X never leaves X.
LEMMA ScanOf ==
  ASSUME NEW X, NEW C, NEW step \in [X \X C -> X], NEW start \in X, NEW text \in Seq(C),
         NEW D, NEW read \in [0 .. Len(text) -> D], read[0] = start,
         \A n \in 1 .. Len(text) :
           read[n - 1] \in X => read[n] = step[<<read[n - 1], text[n]>>]
  PROVE  Scans(X, C, step, start, text, read[Len(text)])
<1> DEFINE m == Len(text)
           T == {n \in Nat : n <= m => read[n] \in X}
<1>1. m \in Nat /\ \A n \in 1 .. m : text[n] \in C
  OBVIOUS
<1> HIDE DEF m
<1>2. 0 \in T
  OBVIOUS
<1>3. ASSUME NEW n \in Nat, n \in T PROVE n + 1 \in T
  <2> SUFFICES ASSUME n + 1 <= m PROVE read[n + 1] \in X
    OBVIOUS
  <2>1. n + 1 \in 1 .. m /\ (n + 1) - 1 = n /\ read[n] \in X
    BY <1>1, <1>3
  <2>2. read[n + 1] = step[<<read[n], text[n + 1]>>]
    BY <2>1 DEF m
  <2>3. <<read[n], text[n + 1]>> \in X \X C
    BY <1>1, <2>1
  <2> QED
    BY <2>2, <2>3
<1> HIDE DEF T
<1>4. Nat \subseteq T
  BY <1>2, <1>3, NumberInduction
<1>5. \A n \in 0 .. m : read[n] \in X
  BY <1>1, <1>4 DEF T
<1>6. read \in [0 .. m -> X]
  BY <1>5 DEF m
<1>7. \A n \in 1 .. m : read[n] = step[<<read[n - 1], text[n]>>]
  <2> TAKE n \in 1 .. m
  <2>1. n - 1 \in 0 .. m
    BY <1>1
  <2> QED
    BY <1>5, <2>1 DEF m
<1> QED
  BY <1>6, <1>7 DEF Scans, m

\* The loop of `unescape`: its states, its start and its step.
Unescapings == [pending : BOOLEAN, out : Text]
Fresh == [pending |-> FALSE, out |-> <<>>]
UnescapeStep == [x \in Unescapings \X Characters |-> EX!Unescaped(x[1], x[2])]

\* A step keeps to the states.
LEMMA UnescapingSteps ==
  Fresh \in Unescapings /\ UnescapeStep \in [Unescapings \X Characters -> Unescapings]
<1>1. Fresh \in Unescapings
  BY DEF Fresh, Unescapings, Text
<1>2. ASSUME NEW x \in Unescapings, NEW c \in Characters PROVE EX!Unescaped(x, c) \in Unescapings
  <2>1. "backslash" \in Characters /\ "space" \in Characters
    BY DEF Characters
  <2>2. /\ Append(x.out, EX!Translated(c)) \in Text /\ Append(x.out, c) \in Text
        /\ x.out \o <<"backslash", c>> \in Text
    BY <2>1 DEF EX!Translated, Text, Unescapings
  <2> QED
    BY <2>2 DEF EX!Unescaped, Unescapings
<1> QED
  BY <1>1, <1>2 DEF UnescapeStep

\* Unescaping(text) is what the loop with these steps comes to.
LEMMA UnescapingScans ==
  ASSUME NEW text \in Text
  PROVE  Scans(Unescapings, Characters, UnescapeStep, Fresh, text, EX!Unescaping(text))
<1> DEFINE m == Len(text)
           read == CHOOSE read : read = [n \in 0 .. m |-> IF n = 0 THEN Fresh
                                                  ELSE EX!Unescaped(read[n - 1], text[n])]
<1>1. EX!Unescaping(text) = read[m]
  BY DEF EX!Unescaping, EX!Scan, Fresh
<1>2. Fresh \in Unescapings /\ UnescapeStep \in [Unescapings \X Characters -> Unescapings]
  BY UnescapingSteps
<1>3. \A x \in Unescapings, c \in Characters : UnescapeStep[<<x, c>>] = EX!Unescaped(x, c)
  BY DEF UnescapeStep
<1>4. m \in Nat /\ \A n \in 1 .. m : text[n] \in Characters
  BY DEF Text
<1>5. PICK f \in [0 .. m -> Unescapings] :
        f[0] = Fresh /\ \A n \in 1 .. m : f[n] = UnescapeStep[<<f[n - 1], text[n]>>]
  <2>1. PICK end : Scans(Unescapings, Characters, UnescapeStep, Fresh, text, end)
    BY <1>2, ScanExists DEF Text
  <2> QED
    BY <2>1 DEF Scans
<1> HIDE DEF m
<1>6. f = [n \in 0 .. m |-> IF n = 0 THEN Fresh ELSE EX!Unescaped(f[n - 1], text[n])]
  <2>1. ASSUME NEW n \in 0 .. m, n # 0 PROVE f[n] = EX!Unescaped(f[n - 1], text[n])
    <3>1. n - 1 \in 0 .. m /\ n \in 1 .. m
      BY <1>4, <2>1
    <3> QED
      BY <1>3, <1>4, <1>5, <3>1
  <2>2. f = [n \in 0 .. m |-> f[n]]
    BY <1>5
  <2> QED
    BY <1>5, <2>1, <2>2
<1>7. read = [n \in 0 .. m |-> IF n = 0 THEN Fresh ELSE EX!Unescaped(read[n - 1], text[n])]
  BY <1>6
<1> HIDE DEF read
<1> DEFINE D == {read[n] : n \in 0 .. m}
<1>8. /\ read \in [0 .. m -> D] /\ read[0] = Fresh
      /\ \A n \in 1 .. m : read[n] = EX!Unescaped(read[n - 1], text[n])
  BY <1>4, <1>7
<1>9. \A n \in 1 .. m :
        read[n - 1] \in Unescapings => read[n] = UnescapeStep[<<read[n - 1], text[n]>>]
  BY <1>3, <1>4, <1>8
<1> HIDE DEF D
<1>10. text \in Seq(Characters)
  BY DEF Text
<1>11. /\ read \in [0 .. Len(text) -> D] /\ read[0] = Fresh
       /\ \A n \in 1 .. Len(text) :
            read[n - 1] \in Unescapings => read[n] = UnescapeStep[<<read[n - 1], text[n]>>]
  BY <1>8, <1>9 DEF m
<1>12. Scans(Unescapings, Characters, UnescapeStep, Fresh, text, read[Len(text)])
  BY <1>2, <1>10, <1>11, ScanOf
<1> QED
  BY <1>1, <1>12 DEF m

\* `unescape`, a character at a time.
LEMMA UnescapingLaws ==
  ASSUME NEW text \in Text, NEW c \in Characters
  PROVE  /\ EX!Unescaping(text) \in Unescapings
         /\ EX!Unescaping(<<>>) = Fresh
         /\ EX!Unescaping(Append(text, c)) = EX!Unescaped(EX!Unescaping(text), c)
<1>1. <<>> \in Text /\ text \in Seq(Characters) /\ Append(text, c) \in Text
  BY DEF Text
<1>2. Fresh \in Unescapings /\ UnescapeStep \in [Unescapings \X Characters -> Unescapings]
  BY UnescapingSteps
<1>3. \A q \in Text : Scans(Unescapings, Characters, UnescapeStep, Fresh, q, EX!Unescaping(q))
  BY UnescapingScans
<1>4. EX!Unescaping(text) \in Unescapings
  BY <1>1, <1>2, <1>3, ScanGrows
<1>5. EX!Unescaping(<<>>) = Fresh
  BY <1>1, <1>2, <1>3, ScanGrows
<1>6. EX!Unescaping(Append(text, c)) = UnescapeStep[<<EX!Unescaping(text), c>>]
  BY <1>1, <1>2, <1>3, ScanGrows
<1> QED
  BY <1>4, <1>5, <1>6 DEF UnescapeStep

\* The loop of `exec_argv` that splits.
Splittings ==
  [args : Seq(Text), current : Text, quoted : BOOLEAN, started : BOOLEAN, pending : BOOLEAN,
   bad : BOOLEAN]
Unsplit ==
  [args |-> <<>>, current |-> <<>>, quoted |-> FALSE, started |-> FALSE, pending |-> FALSE,
   bad |-> FALSE]
SplitStep == [x \in Splittings \X Characters |-> EX!Split(x[1], x[2])]

\* A step keeps to the states.
LEMMA SplittingSteps ==
  Unsplit \in Splittings /\ SplitStep \in [Splittings \X Characters -> Splittings]
<1>1. Unsplit \in Splittings
  BY DEF Unsplit, Splittings, Text
<1>2. ASSUME NEW x \in Splittings, NEW c \in Characters PROVE EX!Split(x, c) \in Splittings
  <2>1. "backslash" \in Characters
    BY DEF Characters
  <2>2. /\ <<>> \in Text /\ Append(x.current, c) \in Text
        /\ x.current \o <<"backslash", c>> \in Text
    BY <2>1 DEF Text, Splittings
  <2>3. EX!Word(x) \in Seq(Text)
    BY DEF EX!Word, Splittings
  <2> HIDE DEF Text
  <2> QED
    BY <2>2, <2>3 DEF EX!Split, Splittings
<1> QED
  BY <1>1, <1>2 DEF SplitStep

\* Splitting(text) is what the loop with these steps comes to.
LEMMA SplittingScans ==
  ASSUME NEW text \in Text
  PROVE  Scans(Splittings, Characters, SplitStep, Unsplit, text, EX!Splitting(text))
<1> DEFINE m == Len(text)
           read == CHOOSE read : read = [n \in 0 .. m |-> IF n = 0 THEN Unsplit
                                                  ELSE EX!Split(read[n - 1], text[n])]
<1>1. EX!Splitting(text) = read[m]
  BY DEF EX!Splitting, EX!Scan, Unsplit
<1>2. Unsplit \in Splittings /\ SplitStep \in [Splittings \X Characters -> Splittings]
  BY SplittingSteps
<1>3. \A x \in Splittings, c \in Characters : SplitStep[<<x, c>>] = EX!Split(x, c)
  BY DEF SplitStep
<1>4. m \in Nat /\ \A n \in 1 .. m : text[n] \in Characters
  BY DEF Text
<1>5. PICK f \in [0 .. m -> Splittings] :
        f[0] = Unsplit /\ \A n \in 1 .. m : f[n] = SplitStep[<<f[n - 1], text[n]>>]
  <2>1. PICK end : Scans(Splittings, Characters, SplitStep, Unsplit, text, end)
    BY <1>2, ScanExists DEF Text
  <2> QED
    BY <2>1 DEF Scans
<1> HIDE DEF m
<1>6. f = [n \in 0 .. m |-> IF n = 0 THEN Unsplit ELSE EX!Split(f[n - 1], text[n])]
  <2>1. ASSUME NEW n \in 0 .. m, n # 0 PROVE f[n] = EX!Split(f[n - 1], text[n])
    <3>1. n - 1 \in 0 .. m /\ n \in 1 .. m
      BY <1>4, <2>1
    <3> QED
      BY <1>3, <1>4, <1>5, <3>1
  <2>2. f = [n \in 0 .. m |-> f[n]]
    BY <1>5
  <2> QED
    BY <1>5, <2>1, <2>2
<1>7. read = [n \in 0 .. m |-> IF n = 0 THEN Unsplit ELSE EX!Split(read[n - 1], text[n])]
  BY <1>6
<1> HIDE DEF read
<1> DEFINE D == {read[n] : n \in 0 .. m}
<1>8. /\ read \in [0 .. m -> D] /\ read[0] = Unsplit
      /\ \A n \in 1 .. m : read[n] = EX!Split(read[n - 1], text[n])
  BY <1>4, <1>7
<1>9. \A n \in 1 .. m : read[n - 1] \in Splittings => read[n] = SplitStep[<<read[n - 1], text[n]>>]
  BY <1>3, <1>4, <1>8
<1> HIDE DEF D
<1>10. text \in Seq(Characters)
  BY DEF Text
<1>11. /\ read \in [0 .. Len(text) -> D] /\ read[0] = Unsplit
       /\ \A n \in 1 .. Len(text) :
            read[n - 1] \in Splittings => read[n] = SplitStep[<<read[n - 1], text[n]>>]
  BY <1>8, <1>9 DEF m
<1>12. Scans(Splittings, Characters, SplitStep, Unsplit, text, read[Len(text)])
  BY <1>2, <1>10, <1>11, ScanOf
<1> QED
  BY <1>1, <1>12 DEF m

\* Splitting, a character at a time.
LEMMA SplittingLaws ==
  ASSUME NEW text \in Text, NEW c \in Characters
  PROVE  /\ EX!Splitting(text) \in Splittings
         /\ EX!Splitting(<<>>) = Unsplit
         /\ EX!Splitting(Append(text, c)) = EX!Split(EX!Splitting(text), c)
<1>1. <<>> \in Text /\ text \in Seq(Characters) /\ Append(text, c) \in Text
  BY DEF Text
<1>2. Unsplit \in Splittings /\ SplitStep \in [Splittings \X Characters -> Splittings]
  BY SplittingSteps
<1>3. \A q \in Text : Scans(Splittings, Characters, SplitStep, Unsplit, q, EX!Splitting(q))
  BY SplittingScans
<1>4. EX!Splitting(text) \in Splittings
  BY <1>1, <1>2, <1>3, ScanGrows
<1>5. EX!Splitting(<<>>) = Unsplit
  BY <1>1, <1>2, <1>3, ScanGrows
<1>6. EX!Splitting(Append(text, c)) = SplitStep[<<EX!Splitting(text), c>>]
  BY <1>1, <1>2, <1>3, ScanGrows
<1> QED
  BY <1>4, <1>5, <1>6 DEF SplitStep

\* The loop over the characters of one argument.
Expandings == [percent : BOOLEAN, bad : BOOLEAN, out : Text]
Unexpanded == [percent |-> FALSE, bad |-> FALSE, out |-> <<>>]
ExpandStep == [x \in Expandings \X Characters |-> EX!Expanded(x[1], x[2])]

\* A step keeps to the states.
LEMMA ExpandingSteps ==
  Unexpanded \in Expandings /\ ExpandStep \in [Expandings \X Characters -> Expandings]
<1>1. Unexpanded \in Expandings
  BY DEF Unexpanded, Expandings, Text
<1>2. ASSUME NEW x \in Expandings, NEW c \in Characters PROVE EX!Expanded(x, c) \in Expandings
  <2>1. Append(x.out, c) \in Text
    BY DEF Text, Expandings
  <2> QED
    BY <2>1 DEF EX!Expanded, Expandings
<1> QED
  BY <1>1, <1>2 DEF ExpandStep

\* Expanding(text) is what the loop with these steps comes to.
LEMMA ExpandingScans ==
  ASSUME NEW text \in Text
  PROVE  Scans(Expandings, Characters, ExpandStep, Unexpanded, text, EX!Expanding(text))
<1> DEFINE m == Len(text)
           read == CHOOSE read : read = [n \in 0 .. m |-> IF n = 0 THEN Unexpanded
                                                  ELSE EX!Expanded(read[n - 1], text[n])]
<1>1. EX!Expanding(text) = read[m]
  BY DEF EX!Expanding, EX!Scan, Unexpanded
<1>2. Unexpanded \in Expandings /\ ExpandStep \in [Expandings \X Characters -> Expandings]
  BY ExpandingSteps
<1>3. \A x \in Expandings, c \in Characters : ExpandStep[<<x, c>>] = EX!Expanded(x, c)
  BY DEF ExpandStep
<1>4. m \in Nat /\ \A n \in 1 .. m : text[n] \in Characters
  BY DEF Text
<1>5. PICK f \in [0 .. m -> Expandings] :
        f[0] = Unexpanded /\ \A n \in 1 .. m : f[n] = ExpandStep[<<f[n - 1], text[n]>>]
  <2>1. PICK end : Scans(Expandings, Characters, ExpandStep, Unexpanded, text, end)
    BY <1>2, ScanExists DEF Text
  <2> QED
    BY <2>1 DEF Scans
<1> HIDE DEF m
<1>6. f = [n \in 0 .. m |-> IF n = 0 THEN Unexpanded ELSE EX!Expanded(f[n - 1], text[n])]
  <2>1. ASSUME NEW n \in 0 .. m, n # 0 PROVE f[n] = EX!Expanded(f[n - 1], text[n])
    <3>1. n - 1 \in 0 .. m /\ n \in 1 .. m
      BY <1>4, <2>1
    <3> QED
      BY <1>3, <1>4, <1>5, <3>1
  <2>2. f = [n \in 0 .. m |-> f[n]]
    BY <1>5
  <2> QED
    BY <1>5, <2>1, <2>2
<1>7. read = [n \in 0 .. m |-> IF n = 0 THEN Unexpanded ELSE EX!Expanded(read[n - 1], text[n])]
  BY <1>6
<1> HIDE DEF read
<1> DEFINE D == {read[n] : n \in 0 .. m}
<1>8. /\ read \in [0 .. m -> D] /\ read[0] = Unexpanded
      /\ \A n \in 1 .. m : read[n] = EX!Expanded(read[n - 1], text[n])
  BY <1>4, <1>7
<1>9. \A n \in 1 .. m : read[n - 1] \in Expandings => read[n] = ExpandStep[<<read[n - 1], text[n]>>]
  BY <1>3, <1>4, <1>8
<1> HIDE DEF D
<1>10. text \in Seq(Characters)
  BY DEF Text
<1>11. /\ read \in [0 .. Len(text) -> D] /\ read[0] = Unexpanded
       /\ \A n \in 1 .. Len(text) :
            read[n - 1] \in Expandings => read[n] = ExpandStep[<<read[n - 1], text[n]>>]
  BY <1>8, <1>9 DEF m
<1>12. Scans(Expandings, Characters, ExpandStep, Unexpanded, text, read[Len(text)])
  BY <1>2, <1>10, <1>11, ScanOf
<1> QED
  BY <1>1, <1>12 DEF m

\* Field codes, a character at a time.
LEMMA ExpandingLaws ==
  ASSUME NEW text \in Text, NEW c \in Characters
  PROVE  /\ EX!Expanding(text) \in Expandings
         /\ EX!Expanding(<<>>) = Unexpanded
         /\ EX!Expanding(Append(text, c)) = EX!Expanded(EX!Expanding(text), c)
<1>1. <<>> \in Text /\ text \in Seq(Characters) /\ Append(text, c) \in Text
  BY DEF Text
<1>2. Unexpanded \in Expandings /\ ExpandStep \in [Expandings \X Characters -> Expandings]
  BY ExpandingSteps
<1>3. \A q \in Text : Scans(Expandings, Characters, ExpandStep, Unexpanded, q, EX!Expanding(q))
  BY ExpandingScans
<1>4. EX!Expanding(text) \in Expandings
  BY <1>1, <1>2, <1>3, ScanGrows
<1>5. EX!Expanding(<<>>) = Unexpanded
  BY <1>1, <1>2, <1>3, ScanGrows
<1>6. EX!Expanding(Append(text, c)) = ExpandStep[<<EX!Expanding(text), c>>]
  BY <1>1, <1>2, <1>3, ScanGrows
<1> QED
  BY <1>4, <1>5, <1>6 DEF ExpandStep

\* The loop over the arguments.
Keepings == [bad : BOOLEAN, words : Seq(Text)]
Unkept == [bad |-> FALSE, words |-> <<>>]
KeepStep == [x \in Keepings \X Text |-> EX!Kept(x[1], x[2])]

\* A step keeps to the states.
LEMMA KeepingSteps ==
  Unkept \in Keepings /\ KeepStep \in [Keepings \X Text -> Keepings]
<1>1. Unkept \in Keepings
  BY DEF Unkept, Keepings, Text
<1>2. ASSUME NEW x \in Keepings, NEW arg \in Text PROVE EX!Kept(x, arg) \in Keepings
  <2>1. EX!Expanding(arg) \in Expandings
    <3>1. "f" \in Characters
      BY DEF Characters
    <3> QED
      BY <3>1, ExpandingLaws
  <2>2. Append(x.words, EX!Expanding(arg).out) \in Seq(Text)
    BY <2>1 DEF Expandings, Keepings
  <2> QED
    BY <2>1, <2>2 DEF EX!Kept, Keepings, Expandings
<1> QED
  BY <1>1, <1>2 DEF KeepStep

\* Keeping(text) is what the loop with these steps comes to.
LEMMA KeepingScans ==
  ASSUME NEW text \in Seq(Text)
  PROVE  Scans(Keepings, Text, KeepStep, Unkept, text, EX!Keeping(text))
<1> DEFINE m == Len(text)
           read == CHOOSE read : read = [n \in 0 .. m |-> IF n = 0 THEN Unkept
                                                  ELSE EX!Kept(read[n - 1], text[n])]
<1>1. EX!Keeping(text) = read[m]
  BY DEF EX!Keeping, EX!Scan, Unkept
<1>2. Unkept \in Keepings /\ KeepStep \in [Keepings \X Text -> Keepings]
  BY KeepingSteps
<1>3. \A x \in Keepings, c \in Text : KeepStep[<<x, c>>] = EX!Kept(x, c)
  BY DEF KeepStep
<1>4. m \in Nat /\ \A n \in 1 .. m : text[n] \in Text
  BY DEF Text
<1>5. PICK f \in [0 .. m -> Keepings] :
        f[0] = Unkept /\ \A n \in 1 .. m : f[n] = KeepStep[<<f[n - 1], text[n]>>]
  <2>1. PICK end : Scans(Keepings, Text, KeepStep, Unkept, text, end)
    BY <1>2, ScanExists DEF Text
  <2> QED
    BY <2>1 DEF Scans
<1> HIDE DEF m
<1>6. f = [n \in 0 .. m |-> IF n = 0 THEN Unkept ELSE EX!Kept(f[n - 1], text[n])]
  <2>1. ASSUME NEW n \in 0 .. m, n # 0 PROVE f[n] = EX!Kept(f[n - 1], text[n])
    <3>1. n - 1 \in 0 .. m /\ n \in 1 .. m
      BY <1>4, <2>1
    <3> QED
      BY <1>3, <1>4, <1>5, <3>1
  <2>2. f = [n \in 0 .. m |-> f[n]]
    BY <1>5
  <2> QED
    BY <1>5, <2>1, <2>2
<1>7. read = [n \in 0 .. m |-> IF n = 0 THEN Unkept ELSE EX!Kept(read[n - 1], text[n])]
  BY <1>6
<1> HIDE DEF read
<1> DEFINE D == {read[n] : n \in 0 .. m}
<1>8. /\ read \in [0 .. m -> D] /\ read[0] = Unkept
      /\ \A n \in 1 .. m : read[n] = EX!Kept(read[n - 1], text[n])
  BY <1>4, <1>7
<1>9. \A n \in 1 .. m : read[n - 1] \in Keepings => read[n] = KeepStep[<<read[n - 1], text[n]>>]
  BY <1>3, <1>4, <1>8
<1> HIDE DEF D
<1>10. text \in Seq(Text)
  BY DEF Text
<1>11. /\ read \in [0 .. Len(text) -> D] /\ read[0] = Unkept
       /\ \A n \in 1 .. Len(text) :
            read[n - 1] \in Keepings => read[n] = KeepStep[<<read[n - 1], text[n]>>]
  BY <1>8, <1>9 DEF m
<1>12. Scans(Keepings, Text, KeepStep, Unkept, text, read[Len(text)])
  BY <1>2, <1>10, <1>11, ScanOf
<1> QED
  BY <1>1, <1>12 DEF m

\* Arguments, one at a time.
LEMMA KeepingLaws ==
  ASSUME NEW text \in Seq(Text), NEW c \in Text
  PROVE  /\ EX!Keeping(text) \in Keepings
         /\ EX!Keeping(<<>>) = Unkept
         /\ EX!Keeping(Append(text, c)) = EX!Kept(EX!Keeping(text), c)
<1>1. <<>> \in Seq(Text) /\ text \in Seq(Text) /\ Append(text, c) \in Seq(Text)
  BY DEF Text
<1>2. Unkept \in Keepings /\ KeepStep \in [Keepings \X Text -> Keepings]
  BY KeepingSteps
<1>3. \A q \in Seq(Text) : Scans(Keepings, Text, KeepStep, Unkept, q, EX!Keeping(q))
  BY KeepingScans
<1>4. EX!Keeping(text) \in Keepings
  BY <1>1, <1>2, <1>3, ScanGrows
<1>5. EX!Keeping(<<>>) = Unkept
  BY <1>1, <1>2, <1>3, ScanGrows
<1>6. EX!Keeping(Append(text, c)) = KeepStep[<<EX!Keeping(text), c>>]
  BY <1>1, <1>2, <1>3, ScanGrows
<1> QED
  BY <1>4, <1>5, <1>6 DEF KeepStep

\* What the Desktop Entry Specification has written for the characters of an argument.
EscapeStep == [x \in Text \X Characters |-> EX!Escaped(x[1], x[2])]

\* A step keeps to the states.
LEMMA WritingSteps == EscapeStep \in [Text \X Characters -> Text]
<1>1. ASSUME NEW x \in Text, NEW c \in Characters PROVE EX!Escaped(x, c) \in Text
  <2>1. "backslash" \in Characters /\ "percent" \in Characters
    BY DEF Characters
  <2> QED
    BY <2>1 DEF EX!Escaped, Text
<1> QED
  BY <1>1 DEF EscapeStep

\* Writing(before, text) is what the loop with these steps comes to.
LEMMA WritingScans ==
  ASSUME NEW before \in Text, NEW text \in Text
  PROVE  Scans(Text, Characters, EscapeStep, before, text, EX!Writing(before, text))
<1> DEFINE m == Len(text)
           read == CHOOSE read : read = [n \in 0 .. m |-> IF n = 0 THEN before
                                                  ELSE EX!Escaped(read[n - 1], text[n])]
<1>1. EX!Writing(before, text) = read[m]
  BY DEF EX!Writing, EX!Scan
<1>2. before \in Text /\ EscapeStep \in [Text \X Characters -> Text]
  BY WritingSteps
<1>3. \A x \in Text, c \in Characters : EscapeStep[<<x, c>>] = EX!Escaped(x, c)
  BY DEF EscapeStep
<1>4. m \in Nat /\ \A n \in 1 .. m : text[n] \in Characters
  BY DEF Text
<1>5. PICK f \in [0 .. m -> Text] :
        f[0] = before /\ \A n \in 1 .. m : f[n] = EscapeStep[<<f[n - 1], text[n]>>]
  <2>1. PICK end : Scans(Text, Characters, EscapeStep, before, text, end)
    BY <1>2, ScanExists DEF Text
  <2> QED
    BY <2>1 DEF Scans
<1> HIDE DEF m
<1>6. f = [n \in 0 .. m |-> IF n = 0 THEN before ELSE EX!Escaped(f[n - 1], text[n])]
  <2>1. ASSUME NEW n \in 0 .. m, n # 0 PROVE f[n] = EX!Escaped(f[n - 1], text[n])
    <3>1. n - 1 \in 0 .. m /\ n \in 1 .. m
      BY <1>4, <2>1
    <3> QED
      BY <1>3, <1>4, <1>5, <3>1
  <2>2. f = [n \in 0 .. m |-> f[n]]
    BY <1>5
  <2> QED
    BY <1>5, <2>1, <2>2
<1>7. read = [n \in 0 .. m |-> IF n = 0 THEN before ELSE EX!Escaped(read[n - 1], text[n])]
  BY <1>6
<1> HIDE DEF read
<1> DEFINE D == {read[n] : n \in 0 .. m}
<1>8. /\ read \in [0 .. m -> D] /\ read[0] = before
      /\ \A n \in 1 .. m : read[n] = EX!Escaped(read[n - 1], text[n])
  BY <1>4, <1>7
<1>9. \A n \in 1 .. m : read[n - 1] \in Text => read[n] = EscapeStep[<<read[n - 1], text[n]>>]
  BY <1>3, <1>4, <1>8
<1> HIDE DEF D
<1>10. text \in Seq(Characters)
  BY DEF Text
<1>11. /\ read \in [0 .. Len(text) -> D] /\ read[0] = before
       /\ \A n \in 1 .. Len(text) :
            read[n - 1] \in Text => read[n] = EscapeStep[<<read[n - 1], text[n]>>]
  BY <1>8, <1>9 DEF m
<1>12. Scans(Text, Characters, EscapeStep, before, text, read[Len(text)])
  BY <1>2, <1>10, <1>11, ScanOf
<1> QED
  BY <1>1, <1>12 DEF m

\* Writing, a character at a time.
LEMMA WritingLaws ==
  ASSUME NEW before \in Text, NEW text \in Text, NEW c \in Characters
  PROVE  /\ EX!Writing(before, text) \in Text
         /\ EX!Writing(before, <<>>) = before
         /\ EX!Writing(before, Append(text, c)) = EX!Escaped(EX!Writing(before, text), c)
<1>1. <<>> \in Text /\ text \in Seq(Characters) /\ Append(text, c) \in Text
  BY DEF Text
<1>2. before \in Text /\ EscapeStep \in [Text \X Characters -> Text]
  BY WritingSteps
<1>3. \A q \in Text : Scans(Text, Characters, EscapeStep, before, q, EX!Writing(before, q))
  BY WritingScans
<1>4. EX!Writing(before, text) \in Text
  BY <1>1, <1>2, <1>3, ScanGrows
<1>5. EX!Writing(before, <<>>) = before
  BY <1>1, <1>2, <1>3, ScanGrows
<1>6. EX!Writing(before, Append(text, c)) = EscapeStep[<<EX!Writing(before, text), c>>]
  BY <1>1, <1>2, <1>3, ScanGrows
<1> QED
  BY <1>4, <1>5, <1>6 DEF EscapeStep

\* What one character of an argument has become when its escapes are read, and when its
\* quotes are.
Quoted ==
  [c \in Characters |-> CASE c = "percent"   -> <<"percent", "percent">>
                          [] c = "backslash" -> <<"backslash", "backslash">>
                          [] c \in {"quote", "dollar"} -> <<"backslash", c>>
                          [] OTHER           -> <<c>>]
Doubled == [c \in Characters |-> IF c = "percent" THEN <<c, c>> ELSE <<c>>]

\* The pieces of an argument's characters, put after what is there.
LayStep(pieces) == [x \in Text \X Characters |-> x[1] \o pieces[x[2]]]
Laid(pieces, before, arg) ==
  CHOOSE end : Scans(Text, Characters, LayStep(pieces), before, arg, end)

\* A piece is a text.
LEMMA PiecesTyped == Quoted \in [Characters -> Text] /\ Doubled \in [Characters -> Text]
<1>1. "percent" \in Characters /\ "backslash" \in Characters
  BY DEF Characters
<1>2. ASSUME NEW c \in Characters
      PROVE  /\ <<"percent", "percent">> \in Text /\ <<"backslash", "backslash">> \in Text
             /\ <<"backslash", c>> \in Text /\ <<c>> \in Text /\ <<c, c>> \in Text
  BY <1>1 DEF Text
<1>3. Quoted \in [Characters -> Text]
  BY <1>2 DEF Quoted
<1>4. Doubled \in [Characters -> Text]
  BY <1>2 DEF Doubled
<1> QED
  BY <1>3, <1>4

\* Pieces, laid one at a time.
LEMMA LaidLaws ==
  ASSUME NEW pieces \in [Characters -> Text], NEW before \in Text,
         NEW arg \in Text, NEW c \in Characters
  PROVE  /\ Laid(pieces, before, arg) \in Text
         /\ Laid(pieces, before, <<>>) = before
         /\ Laid(pieces, before, Append(arg, c)) = Laid(pieces, before, arg) \o pieces[c]
<1>1. <<>> \in Text /\ arg \in Seq(Characters) /\ Append(arg, c) \in Text
  BY DEF Text
<1>2. LayStep(pieces) \in [Text \X Characters -> Text]
  <2>1. \A x \in Text, d \in Characters : x \o pieces[d] \in Text
    BY DEF Text
  <2> QED
    BY <2>1 DEF LayStep
<1>3. \A q \in Text : Scans(Text, Characters, LayStep(pieces), before, q, Laid(pieces, before, q))
  <2> TAKE q \in Text
  <2>1. \E end : Scans(Text, Characters, LayStep(pieces), before, q, end)
    BY <1>2, ScanExists DEF Text
  <2> QED
    BY <2>1 DEF Laid
<1>4. Laid(pieces, before, arg) \in Text
  BY <1>1, <1>2, <1>3, ScanGrows
<1>5. Laid(pieces, before, <<>>) = before
  BY <1>1, <1>2, <1>3, ScanGrows
<1>6. Laid(pieces, before, Append(arg, c)) = LayStep(pieces)[<<Laid(pieces, before, arg), c>>]
  BY <1>1, <1>2, <1>3, ScanGrows
<1> QED
  BY <1>4, <1>5, <1>6 DEF LayStep

\* A piece is put there character by character.
LEMMA Pieces ==
  ASSUME NEW s \in Text, NEW a \in Characters, NEW b \in Characters, NEW c \in Characters,
         NEW d \in Characters
  PROVE  /\ s \o <<a>> = Append(s, a)
         /\ s \o <<a, b>> = Append(Append(s, a), b)
         /\ s \o <<a, b, c>> = Append(Append(Append(s, a), b), c)
         /\ s \o <<a, b, c, d>> = Append(Append(Append(Append(s, a), b), c), d)
<1>1. s \o <<a>> = Append(s, a)
  BY DEF Text
<1>2. s \o <<a, b>> = Append(Append(s, a), b)
  BY DEF Text
<1>3. s \o <<a, b, c>> = Append(Append(Append(s, a), b), c)
  BY DEF Text
<1>4. s \o <<a, b, c, d>> = Append(Append(Append(Append(s, a), b), c), d)
  BY DEF Text
<1> QED
  BY <1>1, <1>2, <1>3, <1>4

\* The next character: plain, a backslash, or the one after a backslash.
LEMMA UnescapesNext ==
  ASSUME NEW text \in Text, NEW o, NEW c \in Characters
  PROVE  /\ Append(text, c) \in Text
         /\ EX!Unescaping(text) = [pending |-> FALSE, out |-> o] =>
              EX!Unescaping(Append(text, c))
                = IF c = "backslash" THEN [pending |-> TRUE, out |-> o]
                  ELSE [pending |-> FALSE, out |-> Append(o, c)]
         /\ EX!Unescaping(text) = [pending |-> TRUE, out |-> o] /\ c = "backslash" =>
              EX!Unescaping(Append(text, c)) = [pending |-> FALSE, out |-> Append(o, c)]
<1>1. Append(text, c) \in Text
  BY DEF Text
<1>2. EX!Unescaping(Append(text, c)) = EX!Unescaped(EX!Unescaping(text), c)
  BY UnescapingLaws
<1>3. EX!Unescaped([pending |-> FALSE, out |-> o], c)
        = IF c = "backslash" THEN [pending |-> TRUE, out |-> o]
          ELSE [pending |-> FALSE, out |-> Append(o, c)]
  BY DEF EX!Unescaped
<1>4. c = "backslash" => EX!Unescaped([pending |-> TRUE, out |-> o], c)
                           = [pending |-> FALSE, out |-> Append(o, c)]
  BY DEF EX!Unescaped, EX!Translated
<1> QED
  BY <1>1, <1>2, <1>3, <1>4

\* A character that starts no escape stays.
LEMMA UnescapesPlain ==
  ASSUME NEW text \in Text, NEW o, EX!Unescaping(text) = [pending |-> FALSE, out |-> o],
         NEW c \in Characters, c # "backslash"
  PROVE  /\ Append(text, c) \in Text
         /\ EX!Unescaping(Append(text, c)) = [pending |-> FALSE, out |-> Append(o, c)]
BY UnescapesNext

\* Reading the escapes of a written argument leaves it quoted.
LEMMA UnescapesWritten ==
  ASSUME NEW before \in Text, NEW o \in Text,
         EX!Unescaping(before) = [pending |-> FALSE, out |-> o], NEW arg \in Text
  PROVE  EX!Unescaping(EX!Writing(before, arg)) = [pending |-> FALSE, out |-> Laid(Quoted, o, arg)]
<1> DEFINE S == {a \in Text : EX!Unescaping(EX!Writing(before, a))
                               = [pending |-> FALSE, out |-> Laid(Quoted, o, a)]}
<1>0. "f" \in Characters /\ "percent" \in Characters /\ "backslash" \in Characters
  BY DEF Characters
<1>1. <<>> \in S
  <2>1. <<>> \in Text
    BY DEF Text
  <2>2. EX!Writing(before, <<>>) = before /\ Laid(Quoted, o, <<>>) = o
    BY <1>0, <2>1, WritingLaws, LaidLaws, PiecesTyped
  <2> QED
    BY <2>1, <2>2
<1>2. ASSUME NEW a \in Text, NEW c \in Characters, a \in S PROVE Append(a, c) \in S
  <2> DEFINE w == EX!Writing(before, a)
             q == Laid(Quoted, o, a)
             more == EX!Writing(before, Append(a, c))
  <2>1. w \in Text /\ more = EX!Escaped(w, c)
    BY WritingLaws
  <2>2. q \in Text /\ Laid(Quoted, o, Append(a, c)) = q \o Quoted[c]
    BY LaidLaws, PiecesTyped
  <2>3. Append(a, c) \in Text
    BY DEF Text
  <2>4. EX!Unescaping(w) = [pending |-> FALSE, out |-> q]
    BY <1>2
  <2> HIDE DEF w, q, more
  <2>5. EX!Unescaping(more) = [pending |-> FALSE, out |-> q \o Quoted[c]]
    <3>1. CASE c = "percent"
      <4>1. more = Append(Append(w, c), c)
        BY <2>1, <3>1, Pieces DEF EX!Escaped
      <4>2. q \o Quoted[c] = Append(Append(q, c), c)
        BY <2>2, <3>1, Pieces DEF Quoted
      <4>3. /\ Append(w, c) \in Text
            /\ EX!Unescaping(Append(w, c)) = [pending |-> FALSE, out |-> Append(q, c)]
        BY <2>1, <2>4, <3>1, UnescapesNext
      <4>4. EX!Unescaping(Append(Append(w, c), c))
              = [pending |-> FALSE, out |-> Append(Append(q, c), c)]
        <5>1. c # "backslash"
          BY <3>1
        <5> QED
          BY <4>3, <5>1, UnescapesNext
      <4> QED
        BY <4>1, <4>2, <4>4
    <3>2. CASE c = "backslash"
      <4>1. more = Append(Append(Append(Append(w, c), c), c), c)
        BY <2>1, <3>2, Pieces DEF EX!Escaped
      <4>2. q \o Quoted[c] = Append(Append(q, c), c)
        BY <2>2, <3>2, Pieces DEF Quoted
      <4>3. /\ Append(w, c) \in Text
            /\ EX!Unescaping(Append(w, c)) = [pending |-> TRUE, out |-> q]
        BY <2>1, <2>4, <3>2, UnescapesNext
      <4>4. /\ Append(Append(w, c), c) \in Text
            /\ EX!Unescaping(Append(Append(w, c), c)) = [pending |-> FALSE, out |-> Append(q, c)]
        BY <3>2, <4>3, UnescapesNext
      <4>5. /\ Append(Append(Append(w, c), c), c) \in Text
            /\ EX!Unescaping(Append(Append(Append(w, c), c), c))
                 = [pending |-> TRUE, out |-> Append(q, c)]
        BY <3>2, <4>4, UnescapesNext
      <4>6. EX!Unescaping(more) = [pending |-> FALSE, out |-> Append(Append(q, c), c)]
        BY <3>2, <4>1, <4>5, UnescapesNext
      <4> QED
        BY <4>2, <4>6
    <3>3. CASE c \in {"quote", "dollar"}
      <4> DEFINE b == "backslash"
      <4>1. more = Append(Append(Append(w, b), b), c)
        <5>1. EX!Escaped(w, c) = w \o <<b, b, c>>
          BY <3>3 DEF EX!Escaped
        <5> QED
          BY <1>0, <2>1, <5>1, Pieces
      <4>2. q \o Quoted[c] = Append(Append(q, b), c)
        <5>1. Quoted[c] = <<b, c>>
          BY <3>3 DEF Quoted
        <5> QED
          BY <1>0, <2>2, <5>1, Pieces
      <4>3. /\ Append(w, b) \in Text
            /\ EX!Unescaping(Append(w, b)) = [pending |-> TRUE, out |-> q]
        BY <1>0, <2>1, <2>4, UnescapesNext
      <4>4. /\ Append(Append(w, b), b) \in Text
            /\ EX!Unescaping(Append(Append(w, b), b)) = [pending |-> FALSE, out |-> Append(q, b)]
        BY <1>0, <4>3, UnescapesNext
      <4>5. EX!Unescaping(more) = [pending |-> FALSE, out |-> Append(Append(q, b), c)]
        BY <3>3, <4>1, <4>4, UnescapesNext
      <4> QED
        BY <4>2, <4>5
    <3>4. CASE c \notin {"percent", "backslash", "quote", "dollar"}
      <4>1. more = Append(w, c)
        BY <2>1, <3>4, Pieces DEF EX!Escaped
      <4>2. q \o Quoted[c] = Append(q, c)
        BY <2>2, <3>4, Pieces DEF Quoted
      <4>3. EX!Unescaping(more) = [pending |-> FALSE, out |-> Append(q, c)]
        BY <2>1, <2>4, <3>4, <4>1, UnescapesNext
      <4> QED
        BY <4>2, <4>3
    <3> QED
      BY <3>1, <3>2, <3>3, <3>4
  <2> QED
    BY <2>2, <2>3, <2>5 DEF more
<1> HIDE DEF S
<1>3. Seq(Characters) \subseteq S
  BY <1>1, <1>2, AppendInduction DEF Text
<1> QED
  BY <1>3 DEF S, Text

\* Inside quotes, reading the quotes of an argument leaves its percent signs doubled.
LEMMA SplitsQuoted ==
  ASSUME NEW before \in Text, NEW x, x = EX!Splitting(before), x.quoted = TRUE, x.pending = FALSE,
         NEW arg \in Text
  PROVE  EX!Splitting(Laid(Quoted, before, arg))
           = [x EXCEPT !.current = Laid(Doubled, x.current, arg)]
<1> DEFINE S == {a \in Text : EX!Splitting(Laid(Quoted, before, a))
                               = [x EXCEPT !.current = Laid(Doubled, x.current, a)]}
<1>0. "f" \in Characters /\ "backslash" \in Characters
  BY DEF Characters
<1>1. x \in Splittings /\ x.current \in Text
  BY <1>0, SplittingLaws DEF Splittings
<1>2. <<>> \in S
  <2>1. <<>> \in Text
    BY DEF Text
  <2>2. Laid(Quoted, before, <<>>) = before /\ Laid(Doubled, x.current, <<>>) = x.current
    BY <1>0, <1>1, <2>1, LaidLaws, PiecesTyped
  <2>3. x = [x EXCEPT !.current = x.current]
    BY <1>1 DEF Splittings
  <2> QED
    BY <2>1, <2>2, <2>3
<1>3. ASSUME NEW a \in Text, NEW c \in Characters, a \in S PROVE Append(a, c) \in S
  <2> DEFINE w == Laid(Quoted, before, a)
             q == Laid(Doubled, x.current, a)
             y(v) == [x EXCEPT !.current = v]
  <2>1. w \in Text /\ Laid(Quoted, before, Append(a, c)) = w \o Quoted[c]
    BY LaidLaws, PiecesTyped
  <2>2. q \in Text /\ Laid(Doubled, x.current, Append(a, c)) = q \o Doubled[c]
    <3>1. \A v \in Text : /\ Laid(Doubled, v, a) \in Text
                          /\ Laid(Doubled, v, Append(a, c)) = Laid(Doubled, v, a) \o Doubled[c]
      BY LaidLaws, PiecesTyped
    <3> QED
      BY <1>1, <3>1
  <2>3. Append(a, c) \in Text
    BY DEF Text
  <2>4. EX!Splitting(w) = y(q)
    BY <1>3
  <2> HIDE DEF w, q
  <2>5. \A text \in Text, d \in Characters :
          /\ EX!Splitting(Append(text, d)) = EX!Split(EX!Splitting(text), d)
          /\ Append(text, d) \in Text
    BY SplittingLaws DEF Text
  <2>6. \A v, d : d \notin {"quote", "backslash"} => EX!Split(y(v), d) = y(Append(v, d))
    <3> TAKE v, d
    <3>1. HAVE d \notin {"quote", "backslash"}
    <3>2. EX!Split(y(v), d) = [y(v) EXCEPT !.current = Append(v, d)]
      BY <1>1, <3>1 DEF EX!Split, Splittings
    <3>3. [y(v) EXCEPT !.current = Append(v, d)] = y(Append(v, d))
      BY <1>1 DEF Splittings
    <3> QED
      BY <3>2, <3>3
  <2>7. \A v, d : d \in {"quote", "dollar", "backslash"} =>
          EX!Split(EX!Split(y(v), "backslash"), d) = y(Append(v, d))
    <3> TAKE v, d
    <3>1. EX!Split(y(v), "backslash") = [y(v) EXCEPT !.pending = TRUE]
      BY <1>1 DEF EX!Split, Splittings
    <3>2. HAVE d \in {"quote", "dollar", "backslash"}
    <3>3. EX!Split([y(v) EXCEPT !.pending = TRUE], d)
            = [[y(v) EXCEPT !.pending = TRUE] EXCEPT !.pending = FALSE, !.current = Append(v, d)]
      BY <1>1, <3>2 DEF EX!Split, Splittings
    <3>4. [[y(v) EXCEPT !.pending = TRUE] EXCEPT !.pending = FALSE, !.current = Append(v, d)]
            = y(Append(v, d))
      BY <1>1 DEF Splittings
    <3> QED
      BY <3>1, <3>3, <3>4
  <2> HIDE DEF y
  <2>8. EX!Splitting(w \o Quoted[c]) = y(q \o Doubled[c])
    <3>1. CASE c = "percent"
      <4>1. w \o Quoted[c] = Append(Append(w, c), c) /\ q \o Doubled[c] = Append(Append(q, c), c)
        <5>1. Quoted[c] = <<c, c>> /\ Doubled[c] = <<c, c>>
          BY <3>1 DEF Quoted, Doubled
        <5> QED
          BY <2>1, <2>2, <5>1, Pieces
      <4>2. EX!Splitting(Append(w, c)) = y(Append(q, c))
        BY <2>1, <2>4, <2>5, <2>6, <3>1
      <4> QED
        BY <2>1, <2>5, <2>6, <3>1, <4>1, <4>2
    <3>2. CASE c \in {"backslash", "quote", "dollar"}
      <4>1. w \o Quoted[c] = Append(Append(w, "backslash"), c) /\ q \o Doubled[c] = Append(q, c)
        <5>1. Quoted[c] = <<"backslash", c>> /\ Doubled[c] = <<c>>
          BY <3>2 DEF Quoted, Doubled
        <5> QED
          BY <1>0, <2>1, <2>2, <5>1, Pieces
      <4>2. EX!Splitting(w \o Quoted[c]) = EX!Split(EX!Split(EX!Splitting(w), "backslash"), c)
        BY <1>0, <2>1, <2>5, <4>1
      <4> QED
        BY <2>4, <2>7, <3>2, <4>1, <4>2
    <3>3. CASE c \notin {"percent", "backslash", "quote", "dollar"}
      <4>1. w \o Quoted[c] = Append(w, c) /\ q \o Doubled[c] = Append(q, c)
        <5>1. Quoted[c] = <<c>> /\ Doubled[c] = <<c>>
          BY <3>3 DEF Quoted, Doubled
        <5> QED
          BY <2>1, <2>2, <5>1, Pieces
      <4> QED
        BY <2>1, <2>4, <2>5, <2>6, <3>3, <4>1
    <3> QED
      BY <3>1, <3>2, <3>3
  <2> QED
    BY <2>1, <2>2, <2>3, <2>8 DEF y
<1> HIDE DEF S
<1>4. Seq(Characters) \subseteq S
  BY <1>2, <1>3, AppendInduction DEF Text
<1> QED
  BY <1>4 DEF S, Text

\* Reading the percent signs of an argument leaves the argument.
LEMMA ExpandsDoubled ==
  ASSUME NEW arg \in Text
  PROVE  EX!Expanding(Laid(Doubled, <<>>, arg)) = [percent |-> FALSE, bad |-> FALSE, out |-> arg]
<1> DEFINE read(a) == [percent |-> FALSE, bad |-> FALSE, out |-> a]
           S == {a \in Text : EX!Expanding(Laid(Doubled, <<>>, a)) = read(a)}
<1>0. "f" \in Characters /\ <<>> \in Text
  BY DEF Characters, Text
<1>1. <<>> \in S
  <2>1. Laid(Doubled, <<>>, <<>>) = <<>>
    BY <1>0, LaidLaws, PiecesTyped
  <2>2. EX!Expanding(<<>>) = Unexpanded
    BY <1>0, ExpandingLaws
  <2> QED
    BY <1>0, <2>1, <2>2 DEF Unexpanded
<1>2. ASSUME NEW a \in Text, NEW c \in Characters, a \in S PROVE Append(a, c) \in S
  <2> DEFINE w == Laid(Doubled, <<>>, a)
  <2>1. w \in Text /\ Laid(Doubled, <<>>, Append(a, c)) = w \o Doubled[c]
    BY <1>0, LaidLaws, PiecesTyped
  <2>2. Append(a, c) \in Text /\ EX!Expanding(w) = read(a)
    BY <1>2 DEF Text
  <2> HIDE DEF w
  <2>3. \A text \in Text, d \in Characters :
          /\ EX!Expanding(Append(text, d)) = EX!Expanded(EX!Expanding(text), d)
          /\ Append(text, d) \in Text
    BY ExpandingLaws DEF Text
  <2>4. EX!Expanding(w \o Doubled[c]) = read(Append(a, c))
    <3>1. CASE c = "percent"
      <4>1. w \o Doubled[c] = Append(Append(w, c), c)
        BY <2>1, <3>1, Pieces DEF Doubled
      <4>2. EX!Expanding(Append(w, c)) = [percent |-> TRUE, bad |-> FALSE, out |-> a]
        BY <2>1, <2>2, <2>3, <3>1 DEF EX!Expanded
      <4>3. EX!Expanding(w \o Doubled[c])
              = EX!Expanded([percent |-> TRUE, bad |-> FALSE, out |-> a], c)
        BY <2>1, <2>3, <4>1, <4>2
      <4>4. EX!Expanded([percent |-> TRUE, bad |-> FALSE, out |-> a], c) = read(Append(a, c))
        <5>1. (FALSE \/ c \notin EX!FieldCodes \cup {"percent"}) = FALSE
          BY <3>1
        <5> QED
          BY <3>1, <5>1 DEF EX!Expanded
      <4> QED
        BY <4>3, <4>4
    <3>2. CASE c # "percent"
      <4>1. w \o Doubled[c] = Append(w, c)
        BY <2>1, <3>2, Pieces DEF Doubled
      <4> QED
        BY <2>1, <2>2, <2>3, <3>2, <4>1 DEF EX!Expanded
    <3> QED
      BY <3>1, <3>2
  <2> QED
    BY <2>1, <2>2, <2>4
<1> HIDE DEF S
<1>3. Seq(Characters) \subseteq S
  BY <1>1, <1>2, AppendInduction DEF Text
<1> QED
  BY <1>3 DEF S, Text

\* No argument is taken for a field code, so the loop over the arguments keeps each as it was.
LEMMA KeepsDoubled ==
  ASSUME NEW arg \in Text, NEW words
  PROVE  EX!Kept([bad |-> FALSE, words |-> words], Laid(Doubled, <<>>, arg))
           = [bad |-> FALSE, words |-> Append(words, arg)]
<1> DEFINE w == Laid(Doubled, <<>>, arg)
<1>0. "f" \in Characters /\ "percent" \in Characters /\ <<>> \in Text
  BY DEF Characters, Text
<1>1. w \in Text /\ EX!Expanding(w) = [percent |-> FALSE, bad |-> FALSE, out |-> arg]
  BY <1>0, LaidLaws, PiecesTyped, ExpandsDoubled
<1>2. ASSUME EX!IsFieldCode(w) PROVE FALSE
  <2> HIDE DEF w
  <2>1. w = Append(Append(<<>>, "percent"), "f")
    <3>1. Len(w) = 2 /\ w[1] = "percent" /\ w[2] = "f"
      BY <1>2 DEF EX!IsFieldCode, EX!FieldCodes
    <3>2. w = <<"percent", "f">>
      BY <1>1, <3>1 DEF Text
    <3> QED
      BY <3>2
  <2>2. Append(<<>>, "percent") \in Text
    BY <1>0 DEF Text
  <2>3. EX!Expanding(w) = EX!Expanded(EX!Expanded(Unexpanded, "percent"), "f")
    BY <1>0, <2>1, <2>2, ExpandingLaws
  <2>4. EX!Expanding(w).out = <<>>
    BY <2>3 DEF Unexpanded, EX!Expanded
  <2>5. arg = <<>>
    BY <1>1, <2>4
  <2>6. w = <<>>
    BY <1>0, <2>5, LaidLaws, PiecesTyped DEF w
  <2> QED
    BY <1>2, <2>6 DEF EX!IsFieldCode
<1>3. EX!Kept([bad |-> FALSE, words |-> words], w)
        = [bad |-> FALSE \/ FALSE \/ FALSE, words |-> Append(words, arg)]
  <2> HIDE DEF w
  <2>1. EX!Expanding(w).bad = FALSE /\ EX!Expanding(w).percent = FALSE /\ EX!Expanding(w).out = arg
    BY <1>1
  <2> QED
    BY <1>2, <2>1 DEF EX!Kept
<1> QED
  BY <1>3

\* Lists of one and two, put together.
LEMMA ListsOf ==
  ASSUME NEW C, NEW a \in C, NEW b \in C
  PROVE  Append(<<>>, a) = <<a>> /\ Append(Append(<<>>, a), b) = <<a, b>>
<1>1. Append(<<>>, a) = <<a>>
  OBVIOUS
<1>2. <<a>> \in Seq(C) /\ <<a, b>> \in Seq(C) /\ Append(<<a>>, b) \in Seq(C)
  OBVIOUS
<1>3. Len(Append(<<a>>, b)) = 2 /\ Len(<<a, b>>) = 2
  OBVIOUS
<1>4. \A i \in 1 .. 2 : Append(<<a>>, b)[i] = <<a, b>>[i]
  OBVIOUS
<1>5. Append(<<a>>, b) = <<a, b>>
  BY <1>2, <1>3, <1>4, SeqEqual
<1> QED
  BY <1>1, <1>5

\* An argument between its quotes, once its escapes are read.
InQuotes(before, arg) == Append(Laid(Quoted, Append(before, "quote"), arg), "quote")

\* What the specification writes for an argument, with its escapes read.
LEMMA WrittenIsQuoted ==
  ASSUME NEW before \in Text, NEW o \in Text,
         EX!Unescaping(before) = [pending |-> FALSE, out |-> o], NEW arg \in Text
  PROVE  /\ EX!Written(before, arg) \in Text /\ InQuotes(o, arg) \in Text
         /\ EX!Unescaping(EX!Written(before, arg)) = [pending |-> FALSE, out |-> InQuotes(o, arg)]
<1> DEFINE w == EX!Writing(Append(before, "quote"), arg)
           q == Laid(Quoted, Append(o, "quote"), arg)
<1>1. "quote" \in Characters
  BY DEF Characters
<1>2. /\ Append(before, "quote") \in Text /\ Append(o, "quote") \in Text
      /\ EX!Unescaping(Append(before, "quote")) = [pending |-> FALSE, out |-> Append(o, "quote")]
  BY <1>1, UnescapesNext DEF Text
<1>3. w \in Text /\ q \in Text
  BY <1>1, <1>2, WritingLaws, LaidLaws, PiecesTyped
<1>4. EX!Unescaping(w) = [pending |-> FALSE, out |-> q]
  <2> DEFINE b == Append(before, "quote")
             p == Append(o, "quote")
  <2>1. /\ b \in Text /\ p \in Text /\ EX!Unescaping(b) = [pending |-> FALSE, out |-> p]
        /\ w = EX!Writing(b, arg) /\ q = Laid(Quoted, p, arg)
    BY <1>2
  <2> HIDE DEF w, q, b, p
  <2> QED
    BY <2>1, UnescapesWritten
<1> HIDE DEF w, q
<1>5. /\ Append(w, "quote") \in Text /\ Append(q, "quote") \in Text
      /\ EX!Unescaping(Append(w, "quote")) = [pending |-> FALSE, out |-> Append(q, "quote")]
  BY <1>1, <1>3, <1>4, UnescapesNext DEF Text
<1> QED
  BY <1>5 DEF EX!Written, InQuotes, w, q

\* Between two arguments nothing is open; after one, its percent signs doubled are current.
Between(x, args) ==
  /\ x \in Splittings /\ x.args = args /\ x.current = <<>>
  /\ x.quoted = FALSE /\ x.started = FALSE /\ x.pending = FALSE /\ x.bad = FALSE
After(x, args, arg) ==
  /\ x \in Splittings /\ x.args = args /\ x.current = Laid(Doubled, <<>>, arg)
  /\ x.quoted = FALSE /\ x.started = TRUE /\ x.pending = FALSE /\ x.bad = FALSE

\* Splitting takes one argument from what is in quotes.
LEMMA SplitsArgument ==
  ASSUME NEW before \in Text, NEW args, Between(EX!Splitting(before), args), NEW arg \in Text
  PROVE  After(EX!Splitting(InQuotes(before, arg)), args, arg)
<1> DEFINE x == EX!Splitting(before)
           y == EX!Splitting(Append(before, "quote"))
           q == Laid(Quoted, Append(before, "quote"), arg)
           z == EX!Splitting(q)
<1>1. "quote" \in Characters /\ Append(before, "quote") \in Text
  BY DEF Characters, Text
<1>2. y = EX!Split(x, "quote") /\ y \in Splittings
  BY <1>1, SplittingLaws
<1>3. /\ y.args = args /\ y.current = <<>> /\ y.quoted = TRUE /\ y.started = TRUE
      /\ y.pending = FALSE /\ y.bad = FALSE
  <2> HIDE DEF x, y
  <2>1. Between(x, args)
    BY DEF x
  <2>2. y = [x EXCEPT !.quoted = TRUE, !.started = TRUE]
    BY <1>2, <2>1 DEF EX!Split, Between
  <2> QED
    BY <2>1, <2>2 DEF Between, Splittings
<1>4. q \in Text
  BY <1>1, LaidLaws, PiecesTyped
<1>5. z = [y EXCEPT !.current = Laid(Doubled, y.current, arg)]
  <2> DEFINE b == Append(before, "quote")
  <2>1. b \in Text /\ y = EX!Splitting(b) /\ z = EX!Splitting(Laid(Quoted, b, arg))
    BY <1>1
  <2> HIDE DEF y, z, b
  <2> QED
    BY <1>3, <2>1, SplitsQuoted
<1>6. EX!Splitting(Append(q, "quote")) = EX!Split(z, "quote")
      /\ EX!Splitting(Append(q, "quote")) \in Splittings
  <2>1. Append(q, "quote") \in Text
    BY <1>1, <1>4 DEF Text
  <2> QED
    BY <1>1, <1>4, <2>1, SplittingLaws
<1> HIDE DEF y, z, q
<1>7. EX!Split(z, "quote") = [z EXCEPT !.quoted = FALSE]
  BY <1>2, <1>3, <1>5 DEF EX!Split, Splittings
<1>8. /\ z.args = args /\ z.current = Laid(Doubled, <<>>, arg) /\ z.started = TRUE
      /\ z.pending = FALSE /\ z.bad = FALSE
  BY <1>2, <1>3, <1>5 DEF Splittings
<1>9. After(EX!Splitting(Append(q, "quote")), args, arg)
  <2> DEFINE e == EX!Splitting(Append(q, "quote"))
  <2>1. e = [z EXCEPT !.quoted = FALSE] /\ e \in Splittings
    BY <1>6, <1>7
  <2> HIDE DEF e
  <2>2. z = [y EXCEPT !.current = z.current] /\ DOMAIN z = DOMAIN y
    BY <1>2, <1>5, <1>8 DEF Splittings
  <2>3. /\ e.args = args /\ e.current = Laid(Doubled, <<>>, arg) /\ e.quoted = FALSE
        /\ e.started = TRUE /\ e.pending = FALSE /\ e.bad = FALSE
    BY <1>2, <1>8, <2>1, <2>2 DEF Splittings
  <2> QED
    BY <2>1, <2>3 DEF After, e
<1> QED
  BY <1>9 DEF InQuotes, q

\* A space after an argument ends it.
LEMMA SplitsSpace ==
  ASSUME NEW before \in Text, NEW args \in Seq(Text), NEW arg \in Text,
         After(EX!Splitting(before), args, arg)
  PROVE  /\ Append(before, "space") \in Text
         /\ Between(EX!Splitting(Append(before, "space")), Append(args, Laid(Doubled, <<>>, arg)))
<1> DEFINE x == EX!Splitting(before)
           y == EX!Splitting(Append(before, "space"))
<1>1. "space" \in Characters /\ Append(before, "space") \in Text
  BY DEF Characters, Text
<1>2. y = EX!Split(x, "space") /\ y \in Splittings
  BY <1>1, SplittingLaws
<1> HIDE DEF x, y
<1>3. After(x, args, arg)
  BY DEF x
<1>4. EX!Word(x) = Append(args, Laid(Doubled, <<>>, arg))
  BY <1>3 DEF After, EX!Word
<1>5. y = [x EXCEPT !.args = EX!Word(x), !.current = <<>>, !.started = FALSE]
  BY <1>2, <1>3 DEF EX!Split, After
<1>6. Between(y, Append(args, Laid(Doubled, <<>>, arg)))
  BY <1>2, <1>3, <1>4, <1>5 DEF Between, After, Splittings
<1> QED
  BY <1>1, <1>6 DEF y

\* The first argument and the space after it.
LEMMA ReadsFirst ==
  ASSUME NEW first \in Text
  PROVE  LET value == Append(EX!Written(<<>>, first), "space")
             o == Append(InQuotes(<<>>, first), "space")
         IN  /\ value \in Text /\ o \in Text
             /\ EX!Unescaping(value) = [pending |-> FALSE, out |-> o]
             /\ Between(EX!Splitting(o), <<Laid(Doubled, <<>>, first)>>)
<1> DEFINE w == EX!Written(<<>>, first)
           q == InQuotes(<<>>, first)
           d == Laid(Doubled, <<>>, first)
<1>1. <<>> \in Text /\ "space" \in Characters /\ <<>> \in Seq(Text)
  BY DEF Text, Characters
<1>2. EX!Unescaping(<<>>) = [pending |-> FALSE, out |-> <<>>]
  BY <1>1, UnescapingLaws DEF Fresh
<1>3. w \in Text /\ q \in Text /\ EX!Unescaping(w) = [pending |-> FALSE, out |-> q]
  BY <1>1, <1>2, WrittenIsQuoted
<1>4. Between(EX!Splitting(<<>>), <<>>)
  BY <1>1, SplittingLaws DEF Unsplit, Between
<1>5. After(EX!Splitting(q), <<>>, first)
  BY <1>1, <1>4, SplitsArgument
<1> HIDE DEF w, q
<1>6. /\ Append(q, "space") \in Text
      /\ Between(EX!Splitting(Append(q, "space")), Append(<<>>, d))
  BY <1>1, <1>3, <1>5, SplitsSpace
<1>7. /\ Append(w, "space") \in Text
      /\ EX!Unescaping(Append(w, "space")) = [pending |-> FALSE, out |-> Append(q, "space")]
  BY <1>1, <1>3, UnescapesNext
<1>8. Append(<<>>, d) = <<d>>
  OBVIOUS
<1> QED
  BY <1>6, <1>7, <1>8 DEF w, q

\* Two arguments are run as two.
LEMMA RunsBoth ==
  ASSUME NEW first \in Text, NEW second \in Text
  PROVE  EX!ExecArgv(EX!Written(Append(EX!Written(<<>>, first), "space"), second))
           = <<first, second>>
<1> DEFINE value == Append(EX!Written(<<>>, first), "space")
           o == Append(InQuotes(<<>>, first), "space")
           d1 == Laid(Doubled, <<>>, first)
           d2 == Laid(Doubled, <<>>, second)
           w == EX!Written(value, second)
           q == InQuotes(o, second)
           x == EX!Splitting(q)
<1>1. /\ value \in Text /\ o \in Text /\ EX!Unescaping(value) = [pending |-> FALSE, out |-> o]
      /\ Between(EX!Splitting(o), <<d1>>)
  BY ReadsFirst
<1> HIDE DEF value, o
<1>2. EX!Unescaping(w) = [pending |-> FALSE, out |-> q]
  BY <1>1, WrittenIsQuoted
<1>3. EX!Unescape(w) = q
  BY <1>2 DEF EX!Unescape
<1>4. After(x, <<d1>>, second)
  BY <1>1, SplitsArgument
<1>5. "f" \in Characters /\ <<>> \in Text
  BY DEF Characters, Text
<1>6. d1 \in Text /\ d2 \in Text
  BY <1>5, LaidLaws, PiecesTyped
<1> HIDE DEF x, q, w
<1>7. EX!Word(x) = Append(<<d1>>, d2)
  BY <1>4 DEF After, EX!Word
<1>8. EX!Keeping(EX!Word(x)) = [bad |-> FALSE, words |-> <<first, second>>]
  <2> HIDE DEF d1, d2
  <2>1. <<>> \in Seq(Text) /\ <<d1>> \in Seq(Text) /\ <<d1>> = Append(<<>>, d1)
    BY <1>6
  <2>2. EX!Keeping(<<>>) = [bad |-> FALSE, words |-> <<>>]
    BY <1>6, <2>1, KeepingLaws DEF Unkept
  <2>3. EX!Keeping(<<d1>>) = [bad |-> FALSE, words |-> Append(<<>>, first)]
    <3>1. EX!Keeping(<<d1>>) = EX!Kept(EX!Keeping(<<>>), d1)
      BY <1>6, <2>1, KeepingLaws
    <3> QED
      BY <2>2, <3>1, KeepsDoubled DEF d1
  <2>4. EX!Keeping(Append(<<d1>>, d2))
          = [bad |-> FALSE, words |-> Append(Append(<<>>, first), second)]
    <3>1. EX!Keeping(Append(<<d1>>, d2)) = EX!Kept(EX!Keeping(<<d1>>), d2)
      BY <1>6, <2>1, KeepingLaws
    <3> QED
      BY <2>3, <3>1, KeepsDoubled DEF d2
  <2>5. Append(Append(<<>>, first), second) = <<first, second>>
    BY ListsOf
  <2> QED
    BY <1>7, <2>4, <2>5
<1>9. EX!ExecArgv(w) = <<first, second>>
  BY <1>3, <1>4, <1>8 DEF EX!ExecArgv, After, x
<1> QED
  BY <1>9 DEF w, value

\* A field code after an argument is no argument.
LEMMA RunsFirst ==
  ASSUME NEW first \in Text
  PROVE  EX!ExecArgv(Append(EX!Written(<<>>, first), "space") \o <<"percent", "f">>) = <<first>>
<1> DEFINE value == Append(EX!Written(<<>>, first), "space")
           o == Append(InQuotes(<<>>, first), "space")
           d == Laid(Doubled, <<>>, first)
           w == Append(Append(value, "percent"), "f")
           q == Append(Append(o, "percent"), "f")
           x == EX!Splitting(o)
           y == EX!Splitting(Append(o, "percent"))
           z == EX!Splitting(q)
<1>1. /\ value \in Text /\ o \in Text /\ EX!Unescaping(value) = [pending |-> FALSE, out |-> o]
      /\ Between(x, <<d>>)
  BY ReadsFirst
<1>2. "percent" \in Characters /\ "f" \in Characters /\ <<>> \in Text
  BY DEF Characters, Text
<1> HIDE DEF value, o
<1>3. value \o <<"percent", "f">> = w
  BY <1>1, <1>2, Pieces
<1>4. /\ Append(value, "percent") \in Text
      /\ EX!Unescaping(Append(value, "percent")) = [pending |-> FALSE, out |-> Append(o, "percent")]
  <2>1. "percent" # "backslash"
    OBVIOUS
  <2> QED
    BY <1>1, <1>2, <2>1, UnescapesPlain
<1>5. EX!Unescaping(w) = [pending |-> FALSE, out |-> q]
  <2> DEFINE v == Append(value, "percent")
             p == Append(o, "percent")
  <2>1. v \in Text /\ EX!Unescaping(v) = [pending |-> FALSE, out |-> p] /\ "f" # "backslash"
    BY <1>4
  <2> HIDE DEF v, p
  <2>2. EX!Unescaping(Append(v, "f")) = [pending |-> FALSE, out |-> Append(p, "f")]
    BY <1>2, <2>1, UnescapesPlain
  <2> QED
    BY <2>2 DEF v, p
<1>6. EX!Unescape(w) = q
  BY <1>5 DEF EX!Unescape
<1>7. Append(o, "percent") \in Text /\ q \in Text
  BY <1>1, <1>2 DEF Text
<1>8. /\ y = EX!Split(x, "percent") /\ z = EX!Split(y, "f")
      /\ y \in Splittings /\ z \in Splittings
  BY <1>1, <1>2, <1>7, SplittingLaws
<1> HIDE DEF x, y, z, q, w
<1>9. y = [x EXCEPT !.current = Append(<<>>, "percent")]
  BY <1>1, <1>8 DEF EX!Split, Between
<1>10. z = [y EXCEPT !.current = Append(Append(<<>>, "percent"), "f")]
  BY <1>1, <1>8, <1>9 DEF EX!Split, Between, Splittings
<1>11. z.current = Append(Append(<<>>, "percent"), "f") /\ z.args = <<d>>
       /\ z.quoted = FALSE /\ z.bad = FALSE
  BY <1>1, <1>8, <1>9, <1>10 DEF Between, Splittings
<1> DEFINE code == <<"percent", "f">>
<1>12. Append(Append(<<>>, "percent"), "f") = code
  BY <1>2, ListsOf
<1>13. EX!Word(z) = Append(<<d>>, code)
  BY <1>11, <1>12 DEF EX!Word
<1>14. d \in Text /\ code \in Text /\ EX!IsFieldCode(code)
  <2>1. d \in Text
    BY <1>2, LaidLaws, PiecesTyped
  <2>2. code \in Text
    BY <1>2 DEF Text
  <2> QED
    BY <2>1, <2>2 DEF EX!IsFieldCode, EX!FieldCodes
<1>15. EX!Keeping(EX!Word(z)) = [bad |-> FALSE, words |-> <<first>>]
  <2> HIDE DEF d, code
  <2>1. <<>> \in Seq(Text) /\ <<d>> \in Seq(Text) /\ <<d>> = Append(<<>>, d)
    BY <1>14
  <2>2. EX!Keeping(<<>>) = [bad |-> FALSE, words |-> <<>>]
    BY <1>14, <2>1, KeepingLaws DEF Unkept
  <2>3. EX!Keeping(<<d>>) = [bad |-> FALSE, words |-> Append(<<>>, first)]
    <3>1. EX!Keeping(<<d>>) = EX!Kept(EX!Keeping(<<>>), d)
      BY <1>14, <2>1, KeepingLaws
    <3> QED
      BY <2>2, <3>1, KeepsDoubled DEF d
  <2>4. EX!Keeping(Append(<<d>>, code)) = EX!Kept(EX!Keeping(<<d>>), code)
    BY <1>14, <2>1, KeepingLaws
  <2>5. EX!Keeping(Append(<<d>>, code)) = EX!Keeping(<<d>>)
    BY <1>14, <2>4 DEF EX!Kept
  <2>6. Append(<<>>, first) = <<first>>
    OBVIOUS
  <2> QED
    BY <1>13, <2>3, <2>5, <2>6
<1>16. EX!ExecArgv(w) = <<first>>
  BY <1>6, <1>11, <1>15 DEF EX!ExecArgv, z
<1> QED
  BY <1>3, <1>16 DEF value

\* routes.exec_argv: an Exec value that quotes and escapes its arguments as the Desktop Entry
\* Specification says is run with those arguments, however long and whatever they hold, and a
\* field code beside them adds none.
THEOREM ExecReadsAsWritten == Spec => []ExecRoundTrips
<1>1. ASSUME NEW arg \in Arguments PROVE arg \in Text
  <2>1. arg \in Seq({arg[i] : i \in DOMAIN arg})
    BY ExecAssumption
  <2>2. {arg[i] : i \in DOMAIN arg} \subseteq Characters
    BY DEF Characters
  <2> QED
    BY <2>1, <2>2, SeqMonotonic DEF Text
<1>2. ExecRoundTrips
  BY <1>1, RunsBoth, RunsFirst DEF ExecRoundTrips
<1> QED
  BY <1>2, PTL
=============================================================================
