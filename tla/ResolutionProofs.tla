-------------------------- MODULE ResolutionProofs --------------------------
(***************************************************************************)
(* For any attempts, resolutions, profiles, boots and sessions: one        *)
(* transaction's markers at most are on a ledger, what is abandoned is     *)
(* over, one attempt at most beside it is unaccounted for, and no final    *)
(* marker is ahead of the profile that survives a power loss.              *)
(*                                                                         *)
(* The markers of a transaction form a chain of which only the last can be *)
(* torn or without a sync (Chained); while a command applies a resolution, *)
(* its place tells exactly which are on file (AtPlace).  A final marker    *)
(* therefore rests on four that no power loss takes (Finished), which is   *)
(* why no other resolution is ever applied after it.                       *)
(***************************************************************************)
EXTENDS Resolution, TLAPS

First == Kinds \ {"final"}
Applying == First \cup {"stage", "check", "replace", "sync", "final"}
Places == Applying \cup {"idle", "start", "call", "admit", "plan"}
Stages == {"none", "candidate", "anchored", "admitted", "planned", "approved"}

Typed ==
  /\ boot \in Nat /\ session \in Nat
  /\ prepared \subseteq Attempt /\ madeIn \in [Attempt -> Nat \X Nat]
  /\ journal \in [Attempt -> {"none", "launched", "other"}]
  /\ terminal \in [Attempt -> {"none", "verified", "partial", "indeterminate"}]
  /\ worker \in [Attempt -> {"none", "live", "over"}]
  /\ stage \in [Resolution -> Stages]
  /\ target \in [Resolution -> [attempt : Attempt \cup {Nobody}, to : Profile \cup {Nobody}]]
  /\ marks \in [Kinds -> SUBSET Resolution] /\ finals \subseteq Resolution
  /\ torn \subseteq Kinds \X Resolution /\ loose \subseteq Kinds \X Resolution
  /\ pc \in Places
  /\ pc \in {"start", "call"} => cur \in Attempt
  /\ pc \in Applying \cup {"admit", "plan"} => cur \in Resolution

\* A worker lives in the boot its attempt was prepared in.
Lived ==
  /\ \A a \in prepared : madeIn[a][1] <= boot
  /\ \A a \in Attempt : worker[a] = "live" => madeIn[a][1] = boot
  /\ \A a \in Attempt \ prepared : worker[a] = "none" /\ terminal[a] = "none"
  /\ pc \in {"start", "call"} => cur \in prepared /\ terminal[cur] = "none"
  /\ pc = "start" => madeIn[cur][1] = boot

\* A resolution is taken forward, and keeps its target from the first stage on.
Staged ==
  /\ \A r \in Resolution : stage[r] # "none" => target[r].attempt \in prepared
  /\ pc = "admit" => stage[cur] = "anchored"
  /\ pc = "plan" => stage[cur] = "admitted"

Follows(k, l) == \/ k = "prepared" /\ l = "used"
                 \/ k = "used" /\ l = "ready"
                 \/ k = "ready" /\ l = "pending"
                 \/ k = "pending" /\ l = "final"

\* Only the last marker on file can be torn or lost.
Chained ==
  /\ \A k, l \in Kinds : \A r \in OnFile(k), s \in OnFile(l) : r = s
  /\ \A k, l \in Kinds : Follows(k, l) => OnFile(l) \subseteq marks[k]
  /\ \A k \in Kinds, r \in Resolution :
       /\ <<k, r>> \in loose => r \in OnFile(k)
       /\ <<k, r>> \in torn \cup loose => \A l \in Kinds : Follows(k, l) => OnFile(l) = {}

Settled(a) ==
  /\ terminal[a] = "indeterminate" /\ worker[a] # "live"
  /\ journal[a] = "none" \/ madeIn[a][1] < boot

Before(k) == IF k = "prepared" THEN {}
             ELSE IF k = "used" THEN {"prepared"}
             ELSE IF k = "ready" THEN {"prepared", "used"}
             ELSE IF k = "pending" THEN {"prepared", "used", "ready"}
             ELSE First

Written == IF pc = "stage" THEN {} ELSE IF pc \in Kinds THEN Before(pc) ELSE First

AtPlace ==
  pc \in Applying =>
    /\ torn = {} /\ loose = {} /\ finals = {}
    /\ \A k \in Kinds : marks[k] = IF k \in Written THEN {cur} ELSE {}
    /\ stage[cur] = "approved" /\ Settled(target[cur].attempt)
    /\ pc = "sync" => profile = target[cur].to
    /\ pc = "final" => profile = target[cur].to /\ disk = target[cur].to

\* What a final marker rests on is there for good.
Finished ==
  /\ marks["final"] \subseteq finals
  /\ \A r \in finals :
       /\ stage[r] = "approved" /\ Settled(target[r].attempt)
       /\ \A k \in First : marks[k] = {r} /\ <<k, r>> \notin loose

IInv == Typed /\ Lived /\ Staged /\ Chained /\ AtPlace /\ Finished /\ OneUnaccounted
-----------------------------------------------------------------------------
(* The types. *)

LEMMA InitTyped == Init => Typed
  BY DEF Init, Typed, Places, Stages, Applying, First, Kinds, None

\* An attempt's own steps write its record, and the ledger.
LEMMA AttemptsTyped == ASSUME Typed, Attempts PROVE Typed'
<1>0. UNCHANGED <<boot, session, owner, transaction>>
  BY DEF Attempts, Begin, Start, Effect, Finish, WorkerExits, host, owner, transaction
<1>1. prepared' \subseteq Attempt /\ madeIn' \in [Attempt -> Nat \X Nat]
  BY DEF Attempts, Begin, Start, Effect, Finish, WorkerExits, Typed
<1>2. journal' \in [Attempt -> {"none", "launched", "other"}]
  BY DEF Attempts, Begin, Start, Effect, Finish, WorkerExits, Typed
<1>3. terminal' \in [Attempt -> {"none", "verified", "partial", "indeterminate"}]
  BY DEF Attempts, Begin, Start, Effect, Finish, WorkerExits, Typed
<1>4. worker' \in [Attempt -> {"none", "live", "over"}]
  <2>1. CASE Start
    BY <2>1 DEF Start, Typed
  <2>2. ASSUME NEW a \in Attempt, WorkerExits(a) PROVE <1>4!:
    BY <2>2 DEF WorkerExits, Typed
  <2>3. \/ worker' = worker \/ Start \/ \E a \in Attempt : WorkerExits(a)
    BY DEF Attempts, Begin, Effect, Finish
  <2> QED
    BY <2>1, <2>2, <2>3 DEF Typed
<1>5. \/ pc' \in {"start", "call"} /\ cur' \in Attempt
      \/ pc' = "idle"
      \/ pc' = pc /\ cur' = cur
  BY DEF Attempts, Begin, Start, Effect, Finish, WorkerExits, Typed, Over
<1> QED
  BY <1>0, <1>1, <1>2, <1>3, <1>4, <1>5
     DEF Typed, Places, Applying, First, Kinds, owner, transaction

\* Up to the approval a resolution changes only its own record.
LEMMA PreparesTyped == ASSUME Typed, Prepares PROVE Typed'
<1>0. UNCHANGED <<boot, session, attempts, transaction>>
  BY DEF Prepares, AdmitCandidate, PlanResolution, AnchorCandidate, Observe, ApproveResolution,
         PlanCandidate, Elsewhere, host
<1>1. ASSUME NEW r \in Resolution, NEW a \in Attempt, NEW p \in Profile, PlanCandidate(r, a, p)
      PROVE Typed'
  <2>1. stage' \in [Resolution -> Stages]
    BY <1>1 DEF PlanCandidate, SetStage, Stages, Typed
  <2>2. target' \in [Resolution -> [attempt : Attempt \cup {Nobody}, to : Profile \cup {Nobody}]]
    BY <1>1 DEF PlanCandidate, Typed
  <2> QED
    BY <1>0, <1>1, <2>1, <2>2 DEF PlanCandidate, Typed, attempts, transaction
<1>2. ASSUME NEW r \in Resolution, AnchorCandidate(r) \/ Observe(r) \/ ApproveResolution(r)
      PROVE Typed'
  <2>1. stage' \in [Resolution -> Stages] /\ target' = target
    BY <1>2 DEF AnchorCandidate, Observe, ApproveResolution, SetStage, Stages, Typed
  <2>2. \/ pc' \in {"admit", "plan"} /\ cur' \in Resolution
        \/ pc' = pc /\ cur' = cur
    BY <1>2 DEF AnchorCandidate, Observe, ApproveResolution
  <2> QED
    BY <1>0, <2>1, <2>2
       DEF Typed, Places, Applying, First, Kinds, attempts, transaction
<1>3. CASE AdmitCandidate \/ PlanResolution
  <2>1. stage' \in [Resolution -> Stages] /\ target' = target /\ pc' = "idle"
    BY <1>3 DEF AdmitCandidate, PlanResolution, SetStage, Over, Stages, Typed
  <2> QED
    BY <1>0, <2>1 DEF Typed, Places, Applying, First, Kinds, attempts, transaction
<1> QED
  BY <1>1, <1>2, <1>3 DEF Prepares

\* An apply writes the active profile and the transaction.
LEMMA AppliesTyped == ASSUME Typed, Applies PROVE Typed'
<1>0. UNCHANGED <<boot, session, attempts, owner, torn, loose>>
  BY DEF Applies, Apply, Stage, Mark, Check, Replace, SyncDirectory, MarkFinal, Step,
         host, transaction
<1>1. marks' \in [Kinds -> SUBSET Resolution] /\ finals' \subseteq Resolution
  <2>1. CASE MarkFinal
    BY <2>1 DEF MarkFinal, Marked, Typed, Applying, Kinds
  <2>2. ASSUME NEW k \in DOMAIN After, Mark(k) PROVE <1>1!:
    BY <2>2 DEF Mark, Marked, Step, After, Typed, Applying, First, Kinds
  <2> QED
    BY <2>1, <2>2 DEF Applies, Apply, Stage, Check, Replace, SyncDirectory, transaction, Typed
<1>2. (pc' \in Applying /\ cur' \in Resolution) \/ pc' = "idle"
  <2>1. ASSUME NEW k \in DOMAIN After, Mark(k) PROVE <1>2!:
    BY <2>1 DEF Mark, Step, After, Typed, Applying, First, Kinds
  <2>2. ASSUME NEW r \in Resolution, Apply(r) PROVE <1>2!:
    BY <2>2 DEF Apply, Applying
  <2> QED
    BY <2>1, <2>2
       DEF Applies, Stage, Check, Replace, SyncDirectory, MarkFinal, Step, Over, Typed,
           Applying, First, Kinds
<1> QED
  BY <1>0, <1>1, <1>2
     DEF Typed, Places, Applying, First, Kinds, attempts, owner

\* What a power loss can take or add is the marker under way, or what was left unsynced.
Open == loose \cup IF pc \in Kinds /\ Unnamed(pc, cur) THEN {<<pc, cur>>} ELSE {}

LEMMA PowerMarks ==
  ASSUME Typed, PowerFails
  PROVE  /\ marks' \in [Kinds -> SUBSET Resolution]
         /\ torn' \subseteq torn \cup Open
         /\ \A k \in Kinds, r \in Resolution :
              /\ r \in marks'[k] => r \in marks[k] \/ <<k, r>> \in Open \ torn
              /\ r \in marks[k] /\ <<k, r>> \notin Open => r \in marks'[k]
         /\ Open \subseteq Kinds \X Resolution
<1>1. Open \subseteq Kinds \X Resolution
  BY DEF Open, Typed, Applying, First
<1>2. PICK gone \in SUBSET Open : \E half \in SUBSET (Open \ gone) :
        /\ torn' = (torn \ gone) \cup half
        /\ marks' = [k \in Kinds |->
             (marks[k] \cup {o[2] : o \in {x \in Open : x[1] = k /\ x \notin torn}})
               \ {o[2] : o \in {x \in gone \cup half : x[1] = k}}]
  BY DEF PowerFails, Open
<1>3. PICK half \in SUBSET (Open \ gone) :
        /\ torn' = (torn \ gone) \cup half
        /\ marks' = [k \in Kinds |->
             (marks[k] \cup {o[2] : o \in {x \in Open : x[1] = k /\ x \notin torn}})
               \ {o[2] : o \in {x \in gone \cup half : x[1] = k}}]
  BY <1>2
<1>4. ASSUME NEW k \in Kinds
      PROVE  /\ {o[2] : o \in {x \in Open : x[1] = k /\ x \notin torn}}
                  = {r \in Resolution : <<k, r>> \in Open \ torn}
             /\ {o[2] : o \in {x \in gone \cup half : x[1] = k}}
                  = {r \in Resolution : <<k, r>> \in gone \cup half}
  BY <1>1
<1>5. marks' = [k \in Kinds |->
        (marks[k] \cup {r \in Resolution : <<k, r>> \in Open \ torn})
          \ {r \in Resolution : <<k, r>> \in gone \cup half}]
  BY <1>3, <1>4
<1>6. marks' \in [Kinds -> SUBSET Resolution]
  BY <1>5 DEF Typed
<1>7. torn' \subseteq torn \cup Open
  BY <1>3
<1>8. ASSUME NEW k \in Kinds, NEW r \in Resolution
      PROVE  /\ r \in marks'[k] => r \in marks[k] \/ <<k, r>> \in Open \ torn
             /\ r \in marks[k] /\ <<k, r>> \notin Open => r \in marks'[k]
  BY <1>5
<1> QED
  BY <1>1, <1>6, <1>7, <1>8

LEMMA OutsideTyped == ASSUME Typed, Outside PROVE Typed'
<1>1. CASE Dies
  <2>1. /\ marks' \in [Kinds -> SUBSET Resolution] /\ finals' \subseteq Resolution
        /\ torn' \subseteq Kinds \X Resolution /\ loose' \subseteq Kinds \X Resolution
    <3>1. CASE UNCHANGED <<marks, torn, loose, finals>>
      BY <3>1 DEF Typed
    <3>2. CASE pc \in Kinds
      <4>1. cur \in Resolution
        BY <3>2 DEF Typed, Applying, First, Kinds
      <4>2. torn' \subseteq Kinds \X Resolution /\ loose' \subseteq Kinds \X Resolution
        BY <1>1, <3>2, <4>1 DEF Dies, Typed
      <4>3. marks' \in [Kinds -> SUBSET Resolution]
        BY <1>1, <3>2, <4>1 DEF Dies, Marked, Typed
      <4>4. finals' \subseteq Resolution
        BY <1>1, <3>2, <4>1 DEF Dies, Typed
      <4> QED
        BY <4>2, <4>3, <4>4
    <3> QED
      BY <1>1, <3>1, <3>2 DEF Dies
  <2> QED
    BY <1>1, <2>1
       DEF Dies, Over, host, attempts, owner, Typed, Places, Applying, First, Kinds
<1>2. CASE PowerFails
  <2>1. torn' \subseteq Kinds \X Resolution /\ marks' \in [Kinds -> SUBSET Resolution]
    BY <1>2, PowerMarks DEF Typed
  <2>2. finals' \subseteq Resolution /\ loose' \subseteq Kinds \X Resolution
    BY <1>2, <2>1 DEF PowerFails, Typed, Kinds
  <2>3. worker' \in [Attempt -> {"none", "live", "over"}]
    BY <1>2 DEF PowerFails, Typed
  <2>4. boot' \in Nat /\ session' \in Nat /\ pc' = "idle"
        /\ UNCHANGED <<prepared, madeIn, journal, terminal, stage, target>>
    BY <1>2 DEF PowerFails, Over, owner, Typed
  <2> QED
    BY <2>1, <2>2, <2>3, <2>4 DEF Typed, Places, Applying, First, Kinds
<1>3. CASE CompositorRestarts \/ (\E p \in Profile : OwnerEdits(p)) \/ (\E r \in Resolution : Expire(r))
  <2>1. UNCHANGED <<boot, attempts, stage, target, transaction, pc, cur>> /\ session' \in Nat
    BY <1>3 DEF CompositorRestarts, OwnerEdits, Expire, host, owner, Typed
  <2> QED
    BY <2>1 DEF Typed, attempts, transaction
<1> QED
  BY <1>1, <1>2, <1>3 DEF Outside

LEMMA TypedStep == ASSUME Typed, [Next]_vars PROVE Typed'
<1>1. CASE UNCHANGED vars
  BY <1>1 DEF Typed, vars, host, attempts, owner, transaction
<1> QED
  BY <1>1, AttemptsTyped, PreparesTyped, AppliesTyped, OutsideTyped DEF Next
-----------------------------------------------------------------------------
(* Workers and records. *)

\* Outside an attempt's own steps, nothing but a power loss ends a worker.
LEMMA LivedStep == ASSUME Typed, Lived, [Next]_vars PROVE Lived'
<1>1. ASSUME NEW a \in Attempt, Begin(a) PROVE Lived'
  <2>1. /\ prepared' = prepared \cup {a} /\ pc' = "start" /\ cur' = a
        /\ madeIn' = [madeIn EXCEPT ![a] = <<boot, session>>] /\ a \notin prepared
        /\ UNCHANGED <<boot, terminal, worker>>
    BY <1>1 DEF Begin, host
  <2>2. worker[a] = "none" /\ terminal[a] = "none"
    BY <2>1 DEF Lived
  <2>3. madeIn'[a][1] = boot /\ \A b \in Attempt \ {a} : madeIn'[b] = madeIn[b]
    BY <2>1 DEF Typed
  <2> QED
    BY <2>1, <2>2, <2>3 DEF Lived, Typed
<1>2. CASE Start
  <2>1. /\ pc = "start" /\ pc' = "call" /\ cur' = cur /\ cur \in prepared /\ cur \in Attempt
        /\ worker' = [worker EXCEPT ![cur] = "live"] /\ UNCHANGED <<boot, prepared, madeIn, terminal>>
    BY <1>2 DEF Start, host, Lived, Typed
  <2> QED
    BY <2>1 DEF Lived, Typed
<1>3. CASE Finish
  <2>1. cur \in Attempt /\ pc' = "idle" /\ cur \in prepared
    BY <1>3 DEF Finish, Over, Typed, Lived
  <2>2. /\ UNCHANGED <<boot, prepared, madeIn, worker>>
        /\ \A a \in Attempt \ {cur} : terminal'[a] = terminal[a]
    BY <1>3 DEF Finish, host, Typed
  <2> QED
    BY <2>1, <2>2 DEF Lived
<1>4. ASSUME NEW a \in Attempt, WorkerExits(a) PROVE Lived'
  <2>1. /\ worker' = [worker EXCEPT ![a] = "over"] /\ worker[a] = "live"
        /\ UNCHANGED <<boot, prepared, madeIn, terminal, pc, cur>>
    BY <1>4 DEF WorkerExits, host
  <2> QED
    BY <2>1 DEF Lived, Typed
<1>5. CASE Effect
  BY <1>5 DEF Effect, host, Lived
<1>6. CASE Prepares
  <2>1. UNCHANGED <<boot, attempts>>
    BY <1>6 DEF Prepares, AdmitCandidate, PlanResolution, AnchorCandidate, Observe, ApproveResolution,
           PlanCandidate, Elsewhere, host
  <2>2. pc' \notin {"start", "call"}
    BY <1>6 DEF Prepares, AdmitCandidate, PlanResolution, AnchorCandidate, Observe, ApproveResolution,
           PlanCandidate, Over, Idle
  <2> QED
    BY <2>1, <2>2 DEF Lived, attempts
<1>7. CASE Applies
  <2>1. UNCHANGED <<boot, attempts>>
    BY <1>7 DEF Applies, Apply, Stage, Mark, Check, Replace, SyncDirectory, MarkFinal, Step, host
  <2>2. pc' \notin {"start", "call"}
    BY <1>7 DEF Applies, Apply, Stage, Mark, Check, Replace, SyncDirectory, MarkFinal, Step, Over, After
  <2> QED
    BY <2>1, <2>2 DEF Lived, attempts
<1>8. CASE PowerFails
  <2>1. /\ boot' = boot + 1 /\ pc' = "idle" /\ \A a \in Attempt : worker'[a] # "live"
        /\ \A a \in Attempt : worker[a] = "none" => worker'[a] = "none"
        /\ UNCHANGED <<prepared, madeIn, terminal>>
    BY <1>8 DEF PowerFails, Over, Typed
  <2> QED
    BY <2>1 DEF Lived, Typed
<1>9. CASE Outside /\ ~PowerFails
  <2>1. UNCHANGED <<boot, attempts>> /\ (pc' = "idle" \/ UNCHANGED <<pc, cur>>)
    BY <1>9 DEF Outside, Dies, CompositorRestarts, OwnerEdits, Expire, host, Over
  <2> QED
    BY <2>1 DEF Lived, attempts
<1>10. CASE UNCHANGED vars
  BY <1>10 DEF Lived, vars, host, attempts
<1> QED
  BY <1>1, <1>2, <1>3, <1>4, <1>5, <1>6, <1>7, <1>8, <1>9, <1>10 DEF Next, Attempts

\* A stage is only ever reached from the one before it.
LEMMA StagedStep == ASSUME Typed, Staged, [Next]_vars PROVE Staged'
<1>1. ASSUME NEW r \in Resolution, NEW a \in Attempt, NEW p \in Profile, PlanCandidate(r, a, p)
      PROVE Staged'
  <2>1. prepared = {a} /\ prepared' = prepared /\ pc = "idle" /\ pc' = pc
    BY <1>1 DEF PlanCandidate, Initial, Unchanged, Idle, Elsewhere, attempts
  <2>2. target'[r].attempt = a /\ \A q \in Resolution \ {r} : target'[q] = target[q]
    BY <1>1 DEF PlanCandidate, Typed
  <2>3. \A q \in Resolution \ {r} : stage'[q] = stage[q]
    BY <1>1 DEF PlanCandidate, SetStage, Typed
  <2> QED
    BY <2>1, <2>2, <2>3 DEF Staged
<1>2. ASSUME NEW r \in Resolution, AnchorCandidate(r) \/ Observe(r) \/ ApproveResolution(r)
      PROVE Staged'
  <2>1. UNCHANGED <<target, prepared>> /\ stage[r] # "none"
    BY <1>2 DEF AnchorCandidate, Observe, ApproveResolution, Elsewhere, attempts
  <2>2. \A q \in Resolution \ {r} : stage'[q] = stage[q]
    BY <1>2 DEF AnchorCandidate, Observe, ApproveResolution, SetStage, Typed
  <2>3. /\ pc' = "admit" => cur' = r /\ stage'[r] = "anchored"
        /\ pc' = "plan" => cur' = r /\ stage'[r] = "admitted"
    BY <1>2 DEF AnchorCandidate, Observe, ApproveResolution, SetStage, Typed, Idle
  <2> QED
    BY <2>1, <2>2, <2>3 DEF Staged
<1>3. CASE AdmitCandidate \/ PlanResolution
  <2>1. UNCHANGED <<target, prepared>> /\ stage[cur] # "none" /\ pc' = "idle" /\ cur \in Resolution
    BY <1>3 DEF AdmitCandidate, PlanResolution, Elsewhere, attempts, Over, Staged, Typed
  <2>2. \A q \in Resolution \ {cur} : stage'[q] = stage[q]
    BY <1>3 DEF AdmitCandidate, PlanResolution, SetStage, Typed
  <2> QED
    BY <2>1, <2>2 DEF Staged
<1>4. CASE ~Prepares
  <2>1. UNCHANGED <<stage, target>> /\ prepared \subseteq prepared'
    <3>1. CASE Attempts
      BY <3>1 DEF Attempts, Begin, Start, Effect, Finish, WorkerExits, owner
    <3>2. CASE Applies
      BY <3>2 DEF Applies, Apply, Stage, Mark, Check, Replace, SyncDirectory, MarkFinal, Step,
                  owner, attempts
    <3>3. CASE Outside
      BY <3>3 DEF Outside, Dies, PowerFails, CompositorRestarts, OwnerEdits, Expire, owner, attempts
    <3>4. CASE UNCHANGED vars
      BY <3>4 DEF vars, owner, attempts
    <3> QED
      BY <1>4, <3>1, <3>2, <3>3, <3>4 DEF Next
  <2>2. pc' \notin {"admit", "plan"} \/ UNCHANGED <<pc, cur>>
    <3>1. CASE Attempts
      BY <3>1 DEF Attempts, Begin, Start, Effect, Finish, WorkerExits, Over
    <3>2. CASE Applies
      BY <3>2 DEF Applies, Apply, Stage, Mark, Check, Replace, SyncDirectory, MarkFinal, Step,
                  Over, After
    <3>3. CASE Outside
      BY <3>3 DEF Outside, Dies, PowerFails, CompositorRestarts, OwnerEdits, Expire, Over
    <3>4. CASE UNCHANGED vars
      BY <3>4 DEF vars
    <3> QED
      BY <1>4, <3>1, <3>2, <3>3, <3>4 DEF Next
  <2> QED
    BY <2>1, <2>2 DEF Staged
<1> QED
  BY <1>1, <1>2, <1>3, <1>4 DEF Prepares
-----------------------------------------------------------------------------
(* What every step keeps. *)

\* The markers change where one is written, or a command dies, or power fails.
LEMMA MarkersKept ==
  ASSUME [Next]_vars
  PROVE  \/ UNCHANGED <<marks, torn, loose, finals>>
         \/ (\E k \in DOMAIN After : Mark(k)) \/ MarkFinal \/ Dies \/ PowerFails
<1>1. CASE Attempts
  BY <1>1 DEF Attempts, Begin, Start, Effect, Finish, WorkerExits, transaction
<1>2. CASE Prepares
  BY <1>2 DEF Prepares, AdmitCandidate, PlanResolution, AnchorCandidate, Observe, ApproveResolution,
              PlanCandidate, Elsewhere, transaction
<1>3. CASE Applies
  BY <1>3 DEF Applies, Apply, Stage, Check, Replace, SyncDirectory, transaction
<1>4. CASE Outside
  BY <1>4 DEF Outside, CompositorRestarts, OwnerEdits, Expire, transaction
<1> QED
  BY <1>1, <1>2, <1>3, <1>4 DEF Next, vars, transaction

\* A candidate's target is never changed, and an approval is never taken back.
LEMMA ApprovalKept ==
  ASSUME Typed, Staged, [Next]_vars, NEW r \in Resolution, stage[r] # "none"
  PROVE  target'[r] = target[r] /\ (stage[r] = "approved" => stage'[r] = "approved")
<1>1. ASSUME NEW q \in Resolution, NEW a \in Attempt, NEW p \in Profile, PlanCandidate(q, a, p)
      PROVE target'[r] = target[r] /\ stage'[r] = stage[r]
  BY <1>1 DEF PlanCandidate, SetStage, Typed
<1>2. ASSUME NEW q \in Resolution, AnchorCandidate(q) \/ Observe(q) \/ ApproveResolution(q)
      PROVE target' = target /\ (stage'[r] = stage[r] \/ stage[r] # "approved")
  BY <1>2 DEF AnchorCandidate, Observe, ApproveResolution, SetStage, Typed
<1>3. CASE AdmitCandidate \/ PlanResolution
  <2>1. target' = target /\ stage[cur] \in {"anchored", "admitted"} /\ cur \in Resolution
    BY <1>3 DEF AdmitCandidate, PlanResolution, Typed, Staged
  <2>2. r # cur => stage'[r] = stage[r]
    BY <1>3 DEF AdmitCandidate, PlanResolution, SetStage, Typed
  <2> QED
    BY <2>1, <2>2
<1>4. CASE Attempts
  BY <1>4 DEF Attempts, Begin, Start, Effect, Finish, WorkerExits, owner
<1>5. CASE Applies
  BY <1>5 DEF Applies, Apply, Stage, Mark, Check, Replace, SyncDirectory, MarkFinal, Step, owner
<1>6. CASE Outside
  BY <1>6 DEF Outside, Dies, PowerFails, CompositorRestarts, OwnerEdits, Expire, owner
<1> QED
  BY <1>1, <1>2, <1>3, <1>4, <1>5, <1>6 DEF Next, Prepares, vars, owner

\* What is over stays over: its attempt is never started again and its boot never comes back.
LEMMA SettledStays ==
  ASSUME Typed, Lived, [Next]_vars, NEW a \in Attempt, Settled(a)
  PROVE  Settled(a)'
<1>0. a \in prepared
  BY DEF Lived, Settled
<1>1. ASSUME NEW b \in Attempt, Begin(b) PROVE Settled(a)'
  <2>1. a # b /\ madeIn'[a] = madeIn[a]
    BY <1>0, <1>1 DEF Begin, Typed
  <2> QED
    BY <1>1, <2>1 DEF Begin, host, Settled
<1>2. CASE Start \/ Finish
  <2>1. cur \in Attempt /\ cur # a
    BY <1>2 DEF Start, Finish, Typed, Lived, Settled
  <2>2. worker'[a] = worker[a] /\ terminal'[a] = terminal[a] /\ UNCHANGED <<boot, madeIn, journal>>
    BY <1>2, <2>1 DEF Start, Finish, host, Typed
  <2> QED
    BY <2>2 DEF Settled
<1>3. CASE Effect
  <2>1. cur # a /\ journal'[a] = journal[a] /\ UNCHANGED <<boot, madeIn, terminal, worker>>
    BY <1>3 DEF Effect, host, Typed, Settled
  <2> QED
    BY <2>1 DEF Settled
<1>4. ASSUME NEW b \in Attempt, WorkerExits(b) PROVE Settled(a)'
  BY <1>4 DEF WorkerExits, host, Typed, Settled
<1>5. CASE PowerFails
  BY <1>5 DEF PowerFails, Typed, Settled
<1>6. CASE UNCHANGED <<boot, attempts>>
  BY <1>6 DEF attempts, Settled
<1>7. CASE Prepares
  BY <1>6, <1>7 DEF Prepares, AdmitCandidate, PlanResolution, AnchorCandidate, Observe,
                    ApproveResolution, PlanCandidate, Elsewhere, host
<1>8. CASE Applies
  BY <1>6, <1>8 DEF Applies, Apply, Stage, Mark, Check, Replace, SyncDirectory, MarkFinal, Step, host
<1>9. CASE Outside
  BY <1>5, <1>6, <1>9 DEF Outside, Dies, CompositorRestarts, OwnerEdits, Expire, host
<1> QED
  BY <1>1, <1>2, <1>3, <1>4, <1>6, <1>7, <1>8, <1>9 DEF Next, Attempts, vars, host
-----------------------------------------------------------------------------
(* The chain of markers. *)

\* Whole markers up to one of kind k, which may be missing, torn or unsynced, are a chain.
LEMMA OverPrefix ==
  ASSUME NEW k \in Kinds, NEW c \in Resolution,
         torn' \subseteq {<<k, c>>}, loose' \subseteq {<<k, c>>},
         loose' # {} => c \in OnFile(k)',
         \A l \in Kinds : /\ marks'[l] \subseteq {c}
                          /\ l \in Before(k) => marks'[l] = {c}
                          /\ l \notin Before(k) \cup {k} => marks'[l] = {}
  PROVE  Chained'
<1>1. \A l \in Kinds : /\ OnFile(l)' \subseteq {c}
                       /\ l \notin Before(k) \cup {k} => OnFile(l)' = {}
  BY DEF OnFile
<1>2. \A l, m \in Kinds : Follows(l, m) =>
        /\ m \in Before(k) \cup {k} => l \in Before(k)
        /\ l = k => m \notin Before(k) \cup {k}
  BY DEF Follows, Before, First, Kinds
<1> QED
  BY <1>1, <1>2 DEF Chained

\* Where the next marker goes, the ones before it are on file whole, and nothing else.
LEMMA ExactPrefix ==
  ASSUME Typed, AtPlace, pc \in Kinds
  PROVE  /\ cur \in Resolution /\ torn = {} /\ loose = {} /\ finals = {}
         /\ \A l \in Kinds : marks[l] = IF l \in Before(pc) THEN {cur} ELSE {}
         /\ pc \notin Before(pc)
  BY DEF Typed, AtPlace, Written, Applying, First, Kinds, Before

\* A command that dies over an exact prefix leaves it, or one more marker.
LEMMA DiesInPrefix ==
  ASSUME Typed, AtPlace, Dies, NEW k \in Kinds, pc = k, NEW c \in Resolution, cur = c
  PROVE  /\ torn' \subseteq {<<k, c>>} /\ loose' \subseteq {<<k, c>>}
         /\ loose' # {} => c \in OnFile(k)'
         /\ \A l \in Kinds \ {k} : marks'[l] = marks[l]
         /\ marks'[k] \subseteq {c} /\ finals' = marks'["final"]
<1>0. marks \in [Kinds -> SUBSET Resolution]
  BY DEF Typed
<1>1. CASE UNCHANGED <<marks, torn, loose, finals>>
  BY <1>0, <1>1, ExactPrefix DEF Kinds, Before, First
<1>2. CASE Marked(k) /\ UNCHANGED torn /\ loose' = loose \cup {<<k, c>>}
           /\ finals' = IF k = "final" THEN finals \cup {c} ELSE finals
  <2>1. marks'[k] = {c} /\ \A l \in Kinds \ {k} : marks'[l] = marks[l]
    BY <1>0, <1>2, ExactPrefix DEF Marked
  <2>2. c \in OnFile(k)'
    BY <2>1 DEF OnFile
  <2>3. k # "final" => marks["final"] = {}
    BY ExactPrefix DEF Before, First, Kinds
  <2> QED
    BY <1>2, <2>1, <2>2, <2>3, ExactPrefix DEF Kinds
<1>3. CASE torn' = torn \cup {<<k, c>>} /\ UNCHANGED <<marks, finals>>
           /\ loose' = loose \cup {<<k, c>>}
  <2>1. c \in OnFile(k)'
    BY <1>3, ExactPrefix DEF OnFile
  <2>2. marks["final"] = {} /\ marks[k] = {}
    BY ExactPrefix DEF Before, First, Kinds
  <2> QED
    BY <1>3, <2>1, <2>2, ExactPrefix
<1> QED
  BY <1>1, <1>2, <1>3 DEF Dies

\* So does a power loss.
LEMMA PowerInPrefix ==
  ASSUME Typed, AtPlace, PowerFails, NEW k \in Kinds, pc = k, NEW c \in Resolution, cur = c
  PROVE  /\ torn' \subseteq {<<k, c>>} /\ loose' = {}
         /\ \A l \in Kinds \ {k} : marks'[l] = marks[l]
         /\ marks'[k] \subseteq {c} /\ finals' = marks'["final"]
<1>1. Open \subseteq {<<k, c>>} /\ loose' = {} /\ finals' = marks'["final"]
  BY ExactPrefix DEF Open, PowerFails
<1>2. torn' \subseteq {<<k, c>>}
  BY <1>1, PowerMarks, ExactPrefix
<1>3. ASSUME NEW l \in Kinds \ {k} PROVE marks'[l] = marks[l]
  <2>1. \A r \in Resolution : <<l, r>> \notin Open
    BY <1>1
  <2>2. \A r \in Resolution : r \in marks'[l] <=> r \in marks[l]
    BY <2>1, PowerMarks
  <2>3. marks[l] \subseteq Resolution /\ marks'[l] \subseteq Resolution
    BY PowerMarks DEF Typed
  <2> QED
    BY <2>2, <2>3
<1>4. marks'[k] \subseteq {c}
  <2>1. marks[k] = {} /\ marks'[k] \subseteq Resolution
    BY PowerMarks, ExactPrefix
  <2>2. \A r \in marks'[k] : <<k, r>> \in Open
    BY <2>1, PowerMarks
  <2> QED
    BY <1>1, <2>2
<1> QED
  BY <1>1, <1>2, <1>3, <1>4

\* Elsewhere a power loss takes, or tears, only markers that a killed command left unsynced.
LEMMA PowerElsewhere ==
  ASSUME Typed, Chained, PowerFails, pc \notin Kinds
  PROVE  /\ loose' = {}
         /\ \A k \in Kinds : OnFile(k)' \subseteq OnFile(k)
         /\ \A k \in Kinds, r \in Resolution :
              /\ r \in marks[k] /\ <<k, r>> \notin loose => r \in marks'[k]
              /\ r \in marks'[k] => r \in marks[k]
              /\ <<k, r>> \in torn' => <<k, r>> \in torn \cup loose
<1>1. Open = loose /\ loose' = {}
  BY DEF Open, PowerFails
<1>2. ASSUME NEW k \in Kinds, NEW r \in Resolution
      PROVE  /\ r \in marks[k] /\ <<k, r>> \notin loose => r \in marks'[k]
             /\ r \in marks'[k] => r \in marks[k]
             /\ <<k, r>> \in torn' => <<k, r>> \in torn \cup loose
             /\ <<k, r>> \in loose => r \in OnFile(k)
  <2>1. /\ r \in marks'[k] => r \in marks[k] \/ <<k, r>> \in loose \ torn
        /\ r \in marks[k] /\ <<k, r>> \notin loose => r \in marks'[k]
        /\ <<k, r>> \in torn' => <<k, r>> \in torn \cup loose
    BY <1>1, PowerMarks
  <2>2. <<k, r>> \in loose => r \in OnFile(k)
    BY DEF Chained
  <2>3. <<k, r>> \in loose \ torn => r \in marks[k]
    BY <2>2 DEF OnFile
  <2> QED
    BY <2>1, <2>2, <2>3
<1>3. ASSUME NEW k \in Kinds PROVE OnFile(k)' \subseteq OnFile(k)
  <2>1. marks'[k] \subseteq Resolution
    BY PowerMarks
  <2> QED
    BY <1>2, <2>1 DEF OnFile
<1> QED
  BY <1>1, <1>2, <1>3

\* Mark(k), for any k, writes the next marker over an exact prefix.
LEMMA MarkExtends ==
  ASSUME Typed, AtPlace, NEW k \in DOMAIN After, Mark(k)
  PROVE  /\ k \in Kinds /\ pc = k /\ pc' = After[k] /\ cur' = cur
         /\ UNCHANGED <<torn, loose, finals>>
         /\ \A l \in Kinds : marks'[l] = IF l \in Before(k) \cup {k} THEN {cur} ELSE {}
<1>1. /\ k \in Kinds /\ pc = k /\ pc' = After[k] /\ cur' = cur /\ UNCHANGED <<torn, loose, finals>>
  BY DEF Mark, Step, After, Kinds
<1>2. \A l \in Kinds : marks'[l] = IF l \in Before(k) \cup {k} THEN {cur} ELSE {}
  BY <1>1, ExactPrefix DEF Mark, Marked, Typed
<1> QED
  BY <1>1, <1>2

LEMMA ChainedStep == ASSUME Typed, Chained, AtPlace, [Next]_vars PROVE Chained'
<1>1. ASSUME NEW k \in DOMAIN After, Mark(k) PROVE Chained'
  <2>1. PICK c \in Resolution : cur = c
    BY <1>1, MarkExtends, ExactPrefix
  <2>2. /\ k \in Kinds /\ torn' = {} /\ loose' = {}
        /\ \A l \in Kinds : marks'[l] = IF l \in Before(k) \cup {k} THEN {c} ELSE {}
    BY <1>1, <2>1, MarkExtends, ExactPrefix
  <2> QED
    BY <2>2, OverPrefix
<1>2. CASE MarkFinal
  <2>1. PICK c \in Resolution : cur = c
    BY <1>2, ExactPrefix DEF MarkFinal, Kinds
  <2>2. /\ torn' = {} /\ loose' = {}
        /\ \A l \in Kinds : marks'[l] = IF l \in Before("final") \cup {"final"} THEN {c} ELSE {}
    BY <1>2, <2>1, ExactPrefix DEF MarkFinal, Marked, Typed, Kinds
  <2>3. "final" \in Kinds
    BY DEF Kinds
  <2> QED
    BY <2>2, <2>3, OverPrefix
<1>3. CASE (Dies \/ PowerFails) /\ pc \in Kinds
  <2>1. PICK k \in Kinds : pc = k
    BY <1>3
  <2>2. PICK c \in Resolution : cur = c
    BY <1>3, ExactPrefix
  <2>3. /\ torn' \subseteq {<<k, c>>} /\ loose' \subseteq {<<k, c>>}
        /\ loose' # {} => c \in OnFile(k)'
        /\ \A l \in Kinds \ {k} : marks'[l] = marks[l]
        /\ marks'[k] \subseteq {c}
    BY <1>3, <2>1, <2>2, DiesInPrefix, PowerInPrefix
  <2>4. \A l \in Kinds : /\ marks'[l] \subseteq {c}
                         /\ l \in Before(k) => marks'[l] = {c}
                         /\ l \notin Before(k) \cup {k} => marks'[l] = {}
    BY <2>1, <2>2, <2>3, ExactPrefix
  <2> QED
    BY <2>3, <2>4, OverPrefix
<1>4. CASE Dies /\ pc \notin Kinds
  BY <1>4 DEF Dies, Chained, OnFile
<1>5. CASE PowerFails /\ pc \notin Kinds
  <2>1. \A k, l \in Kinds : \A r \in OnFile(k)', s \in OnFile(l)' : r = s
    BY <1>5, PowerElsewhere DEF Chained
  <2>2. ASSUME NEW k \in Kinds, NEW l \in Kinds, Follows(k, l), NEW r \in OnFile(l)'
        PROVE  r \in marks'[k]
    <3>1. r \in OnFile(l)
      BY <1>5, <2>2, PowerElsewhere
    <3>2. r \in marks[k] /\ r \in Resolution /\ <<k, r>> \notin loose
      BY <2>2, <3>1 DEF Chained, Typed
    <3> QED
      BY <1>5, <3>2, PowerElsewhere
  <2>3. ASSUME NEW k \in Kinds, NEW r \in Resolution, <<k, r>> \in torn'
        PROVE  \A l \in Kinds : Follows(k, l) => OnFile(l)' = {}
    BY <1>5, <2>3, PowerElsewhere DEF Chained
  <2> QED
    BY <1>5, <2>1, <2>2, <2>3, PowerElsewhere DEF Chained
<1>6. CASE UNCHANGED <<marks, torn, loose, finals>>
  BY <1>6 DEF Chained, OnFile
<1> QED
  BY <1>1, <1>2, <1>3, <1>4, <1>5, <1>6, MarkersKept
-----------------------------------------------------------------------------
(* A command's place in a transaction. *)

\* An approved resolution whose evidence is as it was settles its attempt for good.
LEMMA ApplySettles ==
  ASSUME Typed, Lived, NEW r \in Resolution, Apply(r)
  PROVE  Settled(target[r].attempt)
<1> DEFINE a == target[r].attempt
<1>1. a \in prepared /\ a \in Attempt /\ terminal[a] = "indeterminate"
  BY DEF Apply, Initial, Unchanged, Historical, Typed
<1>2. madeIn[a] \in Nat \X Nat /\ madeIn[a][1] <= boot
  BY <1>1 DEF Typed, Lived
<1>3. seen[r] = <<boot, session>> /\ Guarded(r, seen[r]) /\ Settles(r, seen[r])
  BY DEF Apply, Observed
<1>4. worker[a] # "live"
  <2>1. SUFFICES ASSUME worker[a] = "live" PROVE FALSE
    OBVIOUS
  <2>2. madeIn[a][1] = boot /\ Alive(madeIn[a])
    BY <1>1, <2>1 DEF Lived, Alive
  <2> QED
    BY <1>3, <2>2 DEF Guarded
<1>5. journal[a] = "none" \/ madeIn[a][1] < boot
  <2>1. seen[r][1] = boot /\ boot \in Nat /\ madeIn[a][1] \in Nat
    BY <1>2, <1>3 DEF Typed
  <2>2. journal[a] = "none" \/ seen[r][1] # madeIn[a][1]
    BY <1>3 DEF Settles
  <2> QED
    BY <1>2, <2>1, <2>2
<1> QED
  BY <1>1, <1>4, <1>5 DEF Settled

\* No marker on file: none unsynced, and no transaction was ever finished.
LEMMA NothingOnFile ==
  ASSUME Typed, Chained, Finished, NoMarks
  PROVE  loose = {} /\ finals = {}
<1>1. \A k \in Kinds : OnFile(k) = {}
  BY DEF NoMarks, OnFile
<1>2. loose = {}
  BY <1>1 DEF Chained, Typed
<1>3. finals = {}
  <2>1. "prepared" \in First /\ marks["prepared"] = {}
    BY DEF NoMarks, First, Kinds
  <2> QED
    BY <2>1 DEF Finished
<1> QED
  BY <1>2, <1>3

\* A command that is applying a resolution leaves its place only by its own next step.
LEMMA AtPlaceStep ==
  ASSUME Typed, Lived, Staged, Chained, AtPlace, Finished, [Next]_vars
  PROVE  AtPlace'
<1>1. ASSUME NEW r \in Resolution, Apply(r) PROVE AtPlace'
  <2>1. torn = {} /\ loose = {} /\ finals = {} /\ \A k \in Kinds : marks[k] = {}
    BY <1>1, NothingOnFile DEF Apply, Initial, NoMarks
  <2>2. Settled(target[r].attempt) /\ stage[r] = "approved"
    BY <1>1, ApplySettles DEF Apply
  <2>3. pc' = "stage" /\ cur' = r /\ UNCHANGED <<boot, attempts, owner, transaction>>
    BY <1>1 DEF Apply, host
  <2> QED
    BY <2>1, <2>2, <2>3
       DEF AtPlace, Applying, First, Kinds, Written, Settled, attempts, owner, transaction
<1>2. ASSUME pc \in Applying, cur' = cur, UNCHANGED <<torn, loose, finals>>,
             UNCHANGED <<attempts, owner, boot>>
      PROVE  /\ cur \in Resolution /\ torn' = {} /\ loose' = {} /\ finals' = {}
             /\ stage'[cur'] = "approved" /\ Settled(target[cur].attempt)'
  BY <1>2 DEF AtPlace, Typed, Settled, attempts, owner
<1>3. ASSUME NEW k \in DOMAIN After, Mark(k) PROVE AtPlace'
  <2>1. /\ k \in Kinds /\ pc = k /\ pc' = After[k] /\ cur' = cur
        /\ UNCHANGED <<torn, loose, finals>>
        /\ \A l \in Kinds : marks'[l] = IF l \in Before(k) \cup {k} THEN {cur} ELSE {}
    BY <1>3, MarkExtends
  <2>2. \A l \in Kinds : l \in Written' <=> l \in Before(k) \cup {k}
    BY <2>1 DEF Written, Before, After, First, Kinds
  <2>3. UNCHANGED <<attempts, owner, boot>>
    BY <1>3 DEF Mark, Step, host
  <2>4. pc \in Applying /\ pc' \notin {"sync", "final"}
    BY <2>1 DEF Applying, After, First, Kinds
  <2> QED
    BY <1>2, <2>1, <2>2, <2>3, <2>4 DEF AtPlace, owner
<1>4. CASE Stage \/ Check \/ Replace \/ SyncDirectory
  <2>1. /\ pc \in Applying /\ pc' \in Applying /\ cur' = cur
        /\ UNCHANGED <<marks, torn, loose, finals>> /\ UNCHANGED <<attempts, owner, boot>>
    BY <1>4 DEF Stage, Check, Replace, SyncDirectory, Step, Applying, First, Kinds, transaction, host
  <2>2. Written' = Written
    BY <1>4 DEF Stage, Check, Replace, SyncDirectory, Step, Written, Before, First, Kinds
  <2>3. /\ pc' = "sync" => profile' = target'[cur'].to
        /\ pc' = "final" => profile' = target'[cur'].to /\ disk' = target'[cur'].to
    BY <1>4, <2>1 DEF Stage, Check, Replace, SyncDirectory, Step, AtPlace, owner
  <2> QED
    BY <1>2, <2>1, <2>2, <2>3 DEF AtPlace, owner
<1>5. ASSUME pc \in Applying, UNCHANGED <<active, marks, torn, loose, finals, pc, cur>>
      PROVE  AtPlace'
  <2>1. cur \in Resolution /\ stage[cur] = "approved" /\ Settled(target[cur].attempt)
    BY <1>5 DEF AtPlace, Typed
  <2>2. target'[cur] = target[cur] /\ stage'[cur] = "approved" /\ target[cur].attempt \in Attempt
    <3>1. PICK c \in Resolution : c = cur
      BY <2>1
    <3>2. target'[c] = target[c] /\ stage'[c] = "approved"
      BY <2>1, <3>1, ApprovalKept
    <3>3. target[c].attempt \in prepared
      BY <2>1, <3>1 DEF Staged
    <3> QED
      BY <3>1, <3>2, <3>3 DEF Typed
  <2>3. Settled(target[cur].attempt)'
    <3>1. PICK a \in Attempt : a = target[cur].attempt
      BY <2>2
    <3>2. Settled(a)'
      BY <2>1, <3>1, SettledStays
    <3> QED
      BY <1>5, <2>2, <3>1, <3>2
  <2>4. Written' = Written
    BY <1>5 DEF Written
  <2> QED
    BY <1>5, <2>1, <2>2, <2>3, <2>4 DEF AtPlace, active
<1>6. CASE pc' \notin Applying
  BY <1>6 DEF AtPlace
<1>7. \/ pc' \notin Applying
      \/ pc \in Applying /\ UNCHANGED <<active, marks, torn, loose, finals, pc, cur>>
      \/ Stage \/ Check \/ Replace \/ SyncDirectory \/ (\E r \in Resolution : Apply(r))
      \/ (\E k \in DOMAIN After : Mark(k))
  <2>1. CASE Attempts
    BY <2>1 DEF Attempts, Begin, Start, Effect, Finish, WorkerExits, Over, transaction,
                Applying, First, Kinds
  <2>2. CASE Prepares
    BY <2>2 DEF Prepares, AdmitCandidate, PlanResolution, AnchorCandidate, Observe, ApproveResolution,
                PlanCandidate, Over, Idle, Applying, First, Kinds
  <2>3. CASE Applies
    BY <2>3 DEF Applies, MarkFinal, Over, Applying, First, Kinds
  <2>4. CASE Outside
    BY <2>4 DEF Outside, Dies, PowerFails, CompositorRestarts, OwnerEdits, Expire, Over, Idle,
                transaction, Applying, First, Kinds
  <2> QED
    BY <2>1, <2>2, <2>3, <2>4 DEF Next, vars, transaction
<1> QED
  BY <1>1, <1>3, <1>4, <1>5, <1>6, <1>7
-----------------------------------------------------------------------------
(* Final markers. *)

\* A final marker appears at one place only, over four that are there for good.
LEMMA FinalsStep ==
  ASSUME Typed, Chained, AtPlace, Finished, [Next]_vars, finals' # finals
  PROVE  /\ pc = "final" /\ finals' = {cur} /\ finals' = marks'["final"] /\ cur \in Resolution
         /\ finals = {} /\ cur \in Resolution /\ disk' = target[cur].to
         /\ \A k \in First : marks'[k] = {cur} /\ <<k, cur>> \notin loose'
<1>0. "final" \in Kinds /\ First = Before("final") /\ First \subseteq Kinds
  BY DEF Kinds, First, Before
<1>1. CASE MarkFinal
  <2>1. pc = "final" /\ finals' = {cur} /\ finals = {} /\ cur \in Resolution /\ loose' = {}
    BY <1>0, <1>1, ExactPrefix DEF MarkFinal
  <2>2. \A k \in Kinds : marks'[k] = {cur}
    BY <1>1, <2>1, ExactPrefix, <1>0 DEF MarkFinal, Marked, Typed, First
  <2>3. disk' = target[cur].to
    BY <1>1, <2>1 DEF AtPlace, MarkFinal, active, Applying
  <2> QED
    BY <1>0, <2>1, <2>2, <2>3
<1>2. CASE (Dies \/ PowerFails) /\ pc \in Kinds
  <2>1. PICK k \in Kinds : pc = k
    BY <1>2
  <2>2. PICK c \in Resolution : cur = c
    BY <1>2, ExactPrefix
  <2>3. /\ loose' \subseteq {<<k, c>>}
        /\ \A l \in Kinds \ {k} : marks'[l] = marks[l]
        /\ marks'[k] \subseteq {c} /\ finals' = marks'["final"]
    BY <1>2, <2>1, <2>2, DiesInPrefix, PowerInPrefix
  <2>4. finals = {} /\ \A l \in Kinds : marks[l] = IF l \in Before(k) THEN {c} ELSE {}
    BY <2>1, <2>2, ExactPrefix
  <2>5. k = "final"
    BY <1>0, <2>3, <2>4 DEF Before, First, Kinds
  <2>6. finals' = {c}
    BY <2>3, <2>4, <2>5
  <2>7. disk' = target[c].to
    BY <1>2, <2>1, <2>2, <2>5 DEF AtPlace, Dies, PowerFails, active, Applying
  <2> QED
    BY <1>0, <2>1, <2>2, <2>3, <2>4, <2>5, <2>6, <2>7 DEF First
<1>3. CASE PowerFails /\ pc \notin Kinds
  <2>1. marks'["final"] \subseteq marks["final"]
    BY <1>0, <1>3, PowerElsewhere, PowerMarks
  <2> QED
    BY <1>3, <2>1 DEF PowerFails, Finished
<1>4. CASE Dies /\ pc \notin Kinds
  BY <1>4 DEF Dies
<1>5. CASE \E k \in DOMAIN After : Mark(k)
  BY <1>5 DEF Mark
<1> QED
  BY <1>1, <1>2, <1>3, <1>4, <1>5, MarkersKept

\* The four stay: no command writes over them, and no power loss takes what was synced.
LEMMA FinishedStep ==
  ASSUME Typed, Lived, Staged, Chained, AtPlace, Finished, [Next]_vars
  PROVE  Finished'
<1>0. "final" \in Kinds /\ First \subseteq Kinds
  BY DEF Kinds, First
<1>1. CASE finals' # finals
  <2>1. PICK c \in Resolution : c = cur /\ finals' = {c} /\ finals' = marks'["final"] /\ pc = "final"
                                /\ \A k \in First : marks'[k] = {c} /\ <<k, c>> \notin loose'
    BY <1>1, FinalsStep
  <2>2. stage[c] = "approved" /\ Settled(target[c].attempt)
    BY <2>1 DEF AtPlace, Applying
  <2>3. target[c].attempt \in Attempt /\ target'[c] = target[c] /\ stage'[c] = "approved"
    BY <2>2, ApprovalKept DEF Staged, Typed
  <2>4. PICK a \in Attempt : a = target[c].attempt
    BY <2>3
  <2>5. Settled(a)'
    BY <2>2, <2>4, SettledStays
  <2>6. Settled(target[c].attempt)'
    BY <2>3, <2>4, <2>5
  <2> QED
    BY <2>1, <2>3, <2>6 DEF Finished
<1>2. CASE finals' = finals
  <2>1. ASSUME NEW r \in finals
        PROVE  stage'[r] = "approved" /\ Settled(target[r].attempt)'
    <3>1. r \in Resolution /\ stage[r] = "approved" /\ Settled(target[r].attempt)
      BY <2>1 DEF Typed, Finished
    <3>2. target[r].attempt \in Attempt /\ target'[r] = target[r] /\ stage'[r] = "approved"
      BY <3>1, ApprovalKept DEF Staged, Typed
    <3>3. PICK a \in Attempt : a = target[r].attempt
      BY <3>2
    <3>4. Settled(a)'
      BY <3>1, <3>3, SettledStays
    <3> QED
      BY <3>2, <3>3, <3>4
  <2>2. ASSUME NEW r \in finals, NEW k \in First
        PROVE  marks'[k] = {r} /\ <<k, r>> \notin loose'
    <3>0. finals # {} /\ k \in Kinds /\ r \in Resolution /\ marks[k] = {r} /\ <<k, r>> \notin loose
      BY <1>0, <2>2 DEF Typed, Finished
    <3>1. pc \notin Kinds
      BY <3>0, ExactPrefix
    <3>2. CASE UNCHANGED <<marks, loose>>
      BY <3>0, <3>2
    <3>3. CASE \/ MarkFinal \/ \E l \in DOMAIN After : Mark(l)
      BY <1>0, <3>1, <3>3 DEF MarkFinal, Mark, Step, After, Kinds
    <3>4. CASE Dies
      BY <3>1, <3>2, <3>4 DEF Dies
    <3>5. CASE PowerFails
      <4>1. marks'[k] \subseteq Resolution
        BY <3>0, <3>5, PowerMarks
      <4> QED
        BY <3>0, <3>1, <3>5, <4>1, PowerElsewhere
    <3> QED
      BY <3>2, <3>3, <3>4, <3>5, MarkersKept
  <2>3. marks'["final"] \subseteq finals'
    <3>1. CASE (Dies \/ PowerFails) /\ pc \in Kinds
      <4>1. PICK k \in Kinds : pc = k
        BY <3>1
      <4>2. PICK c \in Resolution : cur = c
        BY <3>1, ExactPrefix
      <4> QED
        BY <3>1, <4>1, <4>2, DiesInPrefix, PowerInPrefix
    <3>2. CASE PowerFails
      BY <3>2 DEF PowerFails
    <3>3. CASE Dies /\ pc \notin Kinds
      BY <3>3, <1>2 DEF Dies, Finished
    <3>4. CASE MarkFinal
      BY <1>0, <3>4 DEF MarkFinal, Marked, Typed, Finished
    <3>5. ASSUME NEW k \in DOMAIN After, Mark(k) PROVE marks'["final"] = marks["final"]
      BY <1>0, <3>5 DEF Mark, Marked, After, Typed
    <3> QED
      BY <1>2, <3>1, <3>2, <3>3, <3>4, <3>5, MarkersKept DEF Finished
  <2> QED
    BY <1>2, <2>1, <2>2, <2>3 DEF Finished
<1> QED
  BY <1>1, <1>2

\* What was abandoned stays abandoned.
LEMMA AbandonedGrows ==
  ASSUME Typed, Staged, Chained, AtPlace, Finished, [Next]_vars
  PROVE  Abandoned \subseteq Abandoned'
<1>1. finals \subseteq finals'
  BY FinalsStep
<1>2. \A r \in finals : target'[r] = target[r]
  BY ApprovalKept DEF Typed, Finished
<1> QED
  BY <1>1, <1>2 DEF Abandoned

\* An attempt is admitted only where no other is unaccounted for.
LEMMA UnaccountedStep ==
  ASSUME Typed, Lived, Staged, Chained, AtPlace, Finished, OneUnaccounted, [Next]_vars
  PROVE  OneUnaccounted'
<1>1. ASSUME NEW a \in Attempt, Begin(a) PROVE OneUnaccounted'
  <2>1. prepared' = prepared \cup {a} /\ UNCHANGED <<terminal, finals, target>>
    BY <1>1 DEF Begin, owner, transaction
  <2>2. \A b \in prepared \ Abandoned : terminal[b] = "verified"
    <3>1. CASE NoMarks /\ \A b \in prepared : Succeeded(b)
      BY <3>1 DEF Succeeded
    <3>2. ASSUME NEW r \in Resolution, EdgeHolds(r),
                 \A b \in prepared \ {target[r].attempt} : Succeeded(b)
          PROVE  <2>2!:
      <4>1. r \in finals
        BY <3>2 DEF EdgeHolds, Finished, Kinds
      <4>2. target[r].attempt \in Abandoned
        BY <4>1 DEF Abandoned
      <4> QED
        BY <3>2, <4>2 DEF Succeeded
    <3> QED
      BY <1>1, <3>1, <3>2 DEF Begin, Available
  <2>3. Abandoned' = Abandoned
    BY <2>1 DEF Abandoned
  <2> QED
    BY <2>1, <2>2, <2>3 DEF OneUnaccounted
<1>2. CASE Finish
  <2>1. UNCHANGED <<prepared, finals, target>> /\ cur \in Attempt /\ terminal[cur] = "none"
    BY <1>2 DEF Finish, owner, transaction, Typed, Lived
  <2>2. \A b \in Attempt : terminal'[b] # "verified" => terminal[b] # "verified"
    BY <1>2, <2>1 DEF Finish, Typed
  <2>3. Abandoned' = Abandoned
    BY <2>1 DEF Abandoned
  <2> QED
    BY <2>1, <2>2, <2>3 DEF OneUnaccounted, Typed
<1>3. CASE UNCHANGED <<prepared, terminal>>
  BY <1>3, AbandonedGrows DEF OneUnaccounted
<1>4. \/ (\E a \in Attempt : Begin(a)) \/ Finish \/ UNCHANGED <<prepared, terminal>>
  <2>1. CASE Attempts
    BY <2>1 DEF Attempts, Start, Effect, WorkerExits
  <2>2. CASE Prepares
    BY <2>2 DEF Prepares, AdmitCandidate, PlanResolution, AnchorCandidate, Observe, ApproveResolution,
                PlanCandidate, Elsewhere, attempts
  <2>3. CASE Applies
    BY <2>3 DEF Applies, Apply, Stage, Mark, Check, Replace, SyncDirectory, MarkFinal, Step, attempts
  <2>4. CASE Outside
    BY <2>4 DEF Outside, Dies, PowerFails, CompositorRestarts, OwnerEdits, Expire, attempts
  <2> QED
    BY <2>1, <2>2, <2>3, <2>4 DEF Next, vars, attempts
<1> QED
  BY <1>1, <1>2, <1>3, <1>4
-----------------------------------------------------------------------------
(* The theorems. *)

LEMMA InitIInv == Init => IInv
<1> SUFFICES ASSUME Init PROVE IInv
  OBVIOUS
<1>1. Typed
  BY InitTyped
<1>2. Lived /\ Staged
  BY DEF Init, Lived, Staged
<1>3. Chained
  BY DEF Init, Chained, OnFile, Kinds
<1>4. AtPlace /\ Finished
  BY DEF Init, AtPlace, Finished, Applying, First, Kinds
<1>5. OneUnaccounted
  BY DEF Init, OneUnaccounted
<1> QED
  BY <1>1, <1>2, <1>3, <1>4, <1>5 DEF IInv

LEMMA IInvStep == IInv /\ [Next]_vars => IInv'
  BY TypedStep, LivedStep, StagedStep, ChainedStep, AtPlaceStep, FinishedStep, UnaccountedStep DEF IInv

THEOREM Invariance == Spec => []IInv
<1>1. Init => IInv
  BY InitIInv
<1>2. IInv /\ [Next]_vars => IInv'
  BY IInvStep
<1> QED
  BY <1>1, <1>2, PTL DEF Spec

\* Beside the attempt that a resolution abandoned, one at most is not a proved success: whatever
\* was killed, lost with the power or typed again, the ledger is never taken forward twice.
THEOREM NothingElseUnaccounted == Spec => []OneUnaccounted
  BY Invariance, PTL DEF IInv

\* What a final marker abandons can have no effect any more: no worker of it runs, and it never
\* had a permit or the boot it acted in is over.
THEOREM AbandonedIsOver == Spec => []AbandonedIsSettled
<1>1. IInv => AbandonedIsSettled
  BY DEF IInv, Finished, Settled, AbandonedIsSettled, Abandoned
<1> QED
  BY <1>1, Invariance, PTL

\* The markers on a ledger are of one resolution, and each has the ones before it whole beside it.
THEOREM OneTransactionAtATime == Spec => []OneTransaction
<1>1. IInv => OneTransaction
  <2> SUFFICES ASSUME IInv PROVE \A k \in DOMAIN After : OnFile(After[k]) \subseteq marks[k]
    BY DEF OneTransaction, IInv, Chained
  <2> TAKE k \in DOMAIN After
  <2>1. CASE k = "pending"
    BY <2>1 DEF After, OnFile, Kinds
  <2>2. CASE k # "pending"
    <3>1. k \in Kinds /\ After[k] \in Kinds /\ Follows(k, After[k])
      BY <2>2 DEF After, Kinds, Follows
    <3> QED
      BY <3>1 DEF IInv, Chained
  <2> QED
    BY <2>1, <2>2
<1> QED
  BY <1>1, Invariance, PTL

\* A final marker is written over a profile that the disk already holds: no power loss leaves a
\* complete set of markers beside the old one.
THEOREM FinalAfterProfile == Spec => FinalNeverAhead
<1>1. IInv /\ [Next]_vars => [finals' # finals => disk' \in {target[r].to : r \in finals'}]_vars
  <2> SUFFICES ASSUME IInv, [Next]_vars, finals' # finals
               PROVE  disk' \in {target[r].to : r \in finals'}
    OBVIOUS
  <2> QED
    BY FinalsStep DEF IInv
<1> QED
  BY <1>1, Invariance, PTL DEF Spec, FinalNeverAhead
=============================================================================
