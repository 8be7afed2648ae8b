------------------------------ MODULE Resolution ------------------------------
(***************************************************************************)
(* A reconstruction attempt that ended indeterminate blocks the account's  *)
(* ledger for ever.  The owner can abandon it: admit a candidate profile,  *)
(* plan, approve and apply a resolution, which writes five markers and     *)
(* replaces the profile between the fourth and the fifth.  From then on    *)
(* attempts are admitted under the new profile, over the old attempt.      *)
(*                                                                         *)
(* Power may fail, commands may be killed and the owner may put another    *)
(* profile in place; every program that does so holds the owner mutex, so  *)
(* there is one command at a time.  An attempt is module Recovery, reduced *)
(* to what a resolution reads of it.  A resolution stands for its          *)
(* candidate, its plan and its approval, one of each; records stay as they *)
(* were written, and pins that fail to match are a refusal.                *)
(***************************************************************************)
EXTENDS Integers

CONSTANTS
  Attempt, Resolution, Profile,
  MaxBoot, MaxSession   \* BOUND: boots, and compositor sessions over all of them

ASSUME ResolutionAssumption == MaxBoot \in Nat /\ MaxSession \in Nat

VARIABLES
  boot, session,   \* the host's boot and the compositor session that is up
  profile, disk,   \* digest of the active profile, and what a power loss leaves of it
  prepared,        \* attempts with a ledger marker
  madeBy, madeIn,  \* profile and <<boot, session>> an attempt was prepared in
  journal,         \* its canonical events: none, one launch with its result, anything else
  terminal,        \* status in its terminal marker
  worker,          \* its worker
  stage,           \* how far the owner took a resolution
  target,          \* [attempt, to] of its candidate
  seen,            \* <<boot, session>> its evidence was observed in
  expired,         \* resolutions whose records are past their lifetime
  staged,          \* resolutions with a staged profile file
  marks,           \* whole markers of each kind
  torn, loose,     \* torn ones, and those a killed command left without a sync
  pc, cur,         \* where the command is, and the resolution or attempt it is about
  finals           \* history: resolutions whose final marker was ever written

host == <<boot, session>>
attempts == <<prepared, madeBy, madeIn, journal, terminal, worker>>
owner == <<stage, target, seen, expired>>
transaction == <<staged, marks, torn, loose, finals>>
active == <<profile, disk>>
vars == <<host, active, attempts, owner, transaction, pc, cur>>

Kinds == {"prepared", "used", "ready", "pending", "final"}
Nobody == "nobody"
None == [attempt |-> Nobody, to |-> Nobody]

Init ==
  /\ boot = 1 /\ session = 1 /\ profile \in Profile /\ disk = profile
  /\ prepared = {} /\ madeBy = [a \in Attempt |-> Nobody]
  /\ madeIn = [a \in Attempt |-> <<0, 0>>]
  /\ journal = [a \in Attempt |-> "none"] /\ terminal = [a \in Attempt |-> "none"]
  /\ worker = [a \in Attempt |-> "none"]
  /\ stage = [r \in Resolution |-> "none"] /\ target = [r \in Resolution |-> None]
  /\ seen = [r \in Resolution |-> <<0, 0>>] /\ expired = {}
  /\ staged = {} /\ marks = [k \in Kinds |-> {}] /\ torn = {} /\ loose = {} /\ finals = {}
  /\ pc = "idle" /\ cur = Nobody
-----------------------------------------------------------------------------
(* recovery_resolution.durable_view and the admission of an attempt. *)

NoMarks == torn = {} /\ \A k \in Kinds : marks[k] = {}

\* All five markers, of one resolution, with the profile it brought.
EdgeWithoutFinal(r) ==                                                     \* mutant
  /\ torn = {} /\ \A k \in Kinds \ {"final"} : marks[k] = {r}
  /\ profile = target[r].to
EdgeHolds(r) == /\ torn = {} /\ \A k \in Kinds : marks[k] = {r}
                /\ profile = target[r].to

\* Ledger.attempt_status: an attempt that the active profile did not make is an error.
Succeeded(a) == madeBy[a] = profile /\ terminal[a] = "verified"

\* Ledger.available, over durable_view: no marker at all, or one complete edge.
Available ==
  \/ NoMarks /\ \A a \in prepared : Succeeded(a)
  \/ \E r \in Resolution :
       EdgeHolds(r) /\ \A a \in prepared \ {target[r].attempt} : Succeeded(a)

Alive(s) == \E a \in Attempt : worker[a] = "live" /\ madeIn[a] = s
-----------------------------------------------------------------------------
(* A reconstruction attempt. *)

Idle == pc = "idle"
Over == pc' = "idle" /\ cur' = Nobody

\* recovery.execute up to its markers: the worker is not started yet.
Begin(a) ==
  /\ Idle /\ Available /\ a \notin prepared /\ ~Alive(<<boot, session>>)
  /\ prepared' = prepared \cup {a}
  /\ madeBy' = [madeBy EXCEPT ![a] = profile]
  /\ madeIn' = [madeIn EXCEPT ![a] = <<boot, session>>]
  /\ pc' = "start" /\ cur' = a
  /\ UNCHANGED <<host, active, owner, transaction, journal, terminal, worker>>

Start ==
  /\ pc = "start" /\ pc' = "call" /\ worker' = [worker EXCEPT ![cur] = "live"]
  /\ UNCHANGED <<host, active, owner, transaction, cur,
                 prepared, madeBy, madeIn, journal, terminal>>

\* An intent is journalled before its permit: no effect without a trace here.
Effect ==
  /\ pc = "call" /\ worker[cur] = "live"
  /\ journal' = [journal EXCEPT ![cur] = IF @ = "none" THEN "launched" ELSE "other"]
  /\ UNCHANGED <<host, active, owner, transaction, pc, cur,
                 prepared, madeBy, madeIn, terminal, worker>>

\* The worker was waited for, or could not be started.
Finish ==
  /\ pc \in {"start", "call"} /\ worker[cur] # "live"
  /\ \E s \in IF pc = "start" THEN {"indeterminate"} ELSE {"verified", "partial", "indeterminate"} :
       terminal' = [terminal EXCEPT ![cur] = s]
  /\ Over
  /\ UNCHANGED <<host, active, owner, transaction, prepared, madeBy, madeIn, journal, worker>>

WorkerExits(a) ==
  /\ worker[a] = "live" /\ worker' = [worker EXCEPT ![a] = "over"]
  /\ UNCHANGED <<host, active, owner, transaction, pc, cur,
                 prepared, madeBy, madeIn, journal, terminal>>

Attempts == \/ Start \/ Effect \/ Finish
            \/ \E a \in Attempt : Begin(a) \/ WorkerExits(a)
-----------------------------------------------------------------------------
(* resolution_graph: one attempt, indeterminate, whose worker left its record. *)

Historical(t) == terminal[t.attempt] = "indeterminate" /\ worker[t.attempt] # "none"

\* The two histories that can be settled: no permit at all, or one launch, acknowledged.
Prefix(t) == journal[t.attempt] \in {"none", "launched"}

\* `unchanged`: an attempt that ended keeps its records, so its graph is the planned one.
Unchanged(t) == prepared = {t.attempt} /\ Historical(t) /\ Prefix(t)

\* `initial`: nothing of any transaction on file; "never repair a previous apply".
InitialOverPrefix(t) == Unchanged(t)                                       \* mutant
Initial(t) == NoMarks /\ Unchanged(t)

Fresh(r) == r \notin expired

\* resolution_candidate.validate: the active profile is the old one, and the candidate another.
Validated(t) == profile = madeBy[t.attempt] /\ profile # t.to

Admitted(r) == /\ stage[r] \in {"admitted", "planned", "approved"}
               /\ Fresh(r) /\ Validated(target[r])

\* resolution_observer.observe: the compositor that the observer found.
Observed == <<boot, session>>

\* resolution_evidence.validate: without a permit the boot must be the attempt's own, after
\* a launch it must be another.  What else the observer finds may only refuse.
SettlesInSession(r, s) ==                                                  \* mutant
  LET a == target[r].attempt
  IN  IF journal[a] = "none" THEN s[1] = madeIn[a][1] ELSE s # madeIn[a]
Settles(r, s) ==
  LET a == target[r].attempt
  IN  IF journal[a] = "none" THEN s[1] = madeIn[a][1] ELSE s[1] # madeIn[a][1]

\* compositor_guards: the observed compositor's lock, and in the same boot the attempt's.
Guarded(r, s) ==
  LET own == madeIn[target[r].attempt]
  IN  ~Alive(s) /\ (own[1] = s[1] => ~Alive(own))

SetStage(r, s) == stage' = [stage EXCEPT ![r] = s]
Elsewhere == UNCHANGED <<host, active, attempts, transaction>>

\* resolution_candidate.plan
PlanCandidate(r, a, p) ==
  /\ Idle /\ stage[r] = "none" /\ SetStage(r, "candidate")
  /\ Validated([attempt |-> a, to |-> p]) /\ Initial([attempt |-> a, to |-> p])
  /\ target' = [target EXCEPT ![r] = [attempt |-> a, to |-> p]]
  /\ UNCHANGED <<seen, expired, pc, cur>> /\ Elsewhere

\* resolution_candidate.approve: two files, and the first is never repaired.
AnchorCandidate(r) ==
  /\ Idle /\ stage[r] = "candidate" /\ Fresh(r)
  /\ Validated(target[r]) /\ Initial(target[r])
  /\ SetStage(r, "anchored") /\ pc' = "admit" /\ cur' = r
  /\ UNCHANGED <<seen, expired, target>> /\ Elsewhere

AdmitCandidate ==
  /\ pc = "admit" /\ SetStage(cur, "admitted") /\ Over
  /\ UNCHANGED <<seen, expired, target>> /\ Elsewhere

\* recovery_transition.plan: observed without a lock, recorded under those of what was seen.
\* A plan that does not settle is stored as blocked and never approved.
Observe(r) ==
  /\ Idle /\ stage[r] = "admitted" /\ Admitted(r) /\ Initial(target[r])
  /\ seen' = [seen EXCEPT ![r] = Observed] /\ pc' = "plan" /\ cur' = r
  /\ UNCHANGED <<stage, expired, target>> /\ Elsewhere

PlanResolution ==
  /\ pc = "plan" /\ Guarded(cur, seen[cur]) /\ Admitted(cur) /\ Unchanged(target[cur])
  /\ Settles(cur, seen[cur])
  /\ SetStage(cur, "planned") /\ Over
  /\ UNCHANGED <<seen, expired, target>> /\ Elsewhere

ApproveResolution(r) ==
  /\ Idle /\ stage[r] = "planned" /\ Admitted(r) /\ Initial(target[r]) /\ SetStage(r, "approved")
  /\ UNCHANGED <<seen, expired, target, pc, cur>> /\ Elsewhere

Prepares == \/ AdmitCandidate \/ PlanResolution
            \/ \E r \in Resolution : AnchorCandidate(r) \/ Observe(r) \/ ApproveResolution(r)
            \/ \E r \in Resolution, a \in Attempt, p \in Profile : PlanCandidate(r, a, p)
-----------------------------------------------------------------------------
(* recovery_transition.apply *)

Step(from, to) == pc = from /\ pc' = to /\ UNCHANGED <<cur, host, attempts, owner>>

\* A fresh observation has the approved fingerprint, compositor identity included.
Apply(r) ==
  /\ Idle /\ stage[r] = "approved" /\ Admitted(r) /\ Initial(target[r])
  /\ Guarded(r, seen[r]) /\ seen[r] = Observed /\ Settles(r, seen[r])
  /\ pc' = "stage" /\ cur' = r
  /\ UNCHANGED <<host, active, attempts, owner, transaction>>

Stage ==
  /\ Step("stage", "prepared") /\ cur \notin staged /\ staged' = staged \cup {cur}
  /\ UNCHANGED <<active, marks, torn, loose, finals>>

\* Objects.marker: exclusive; the pending marker is named by the attempt, the rest by approval.
Named(k, r) == {s \in Resolution : IF k = "pending" THEN target[s].attempt = target[r].attempt
                                                    ELSE s = r}
Unnamed(k, r) == /\ marks[k] \cap Named(k, r) = {}
                 /\ \A s \in Named(k, r) : <<k, s>> \notin torn
Marked(k) == marks' = [marks EXCEPT ![k] = @ \cup {cur}]

After == [prepared |-> "used", used |-> "ready", ready |-> "pending", pending |-> "check"]

Mark(k) ==
  /\ Step(k, After[k]) /\ Unnamed(k, cur) /\ Marked(k)
  /\ UNCHANGED <<active, staged, torn, loose, finals>>

\* Exactly these four markers, and everything once more.
Check ==
  /\ Step("check", "replace")
  /\ torn = {} /\ \A k \in Kinds : marks[k] = IF k = "final" THEN {} ELSE {cur}
  /\ Admitted(cur) /\ Unchanged(target[cur]) /\ cur \in staged
  /\ UNCHANGED <<active, transaction>>

ReplaceUnsynced ==                                                         \* mutant
  /\ Step("replace", "final") /\ profile' = target[cur].to /\ staged' = staged \ {cur}
  /\ UNCHANGED <<disk, marks, torn, loose, finals>>
Replace ==
  /\ Step("replace", "sync") /\ profile' = target[cur].to /\ staged' = staged \ {cur}
  /\ UNCHANGED <<disk, marks, torn, loose, finals>>

SyncDirectory ==
  /\ Step("sync", "final") /\ disk' = profile
  /\ UNCHANGED <<profile, transaction>>

MarkFinal ==
  /\ pc = "final" /\ Over /\ Unnamed("final", cur) /\ Marked("final")
  /\ finals' = finals \cup {cur}
  /\ UNCHANGED <<host, active, attempts, owner, staged, torn, loose>>

Applies == \/ Stage \/ Check \/ Replace \/ SyncDirectory \/ MarkFinal
           \/ \E r \in Resolution : Apply(r)
           \/ \E k \in DOMAIN After : Mark(k)
-----------------------------------------------------------------------------
(* What may happen at any time. *)

\* A command is killed or refuses; a marker under way is missing, torn, or whole and unsynced.
Dies ==
  /\ ~Idle /\ Over
  /\ \/ UNCHANGED <<marks, torn, loose, finals>>
     \/ /\ pc \in Kinds /\ Unnamed(pc, cur) /\ loose' = loose \cup {<<pc, cur>>}
        /\ \/ /\ Marked(pc) /\ UNCHANGED torn
              /\ finals' = IF pc = "final" THEN finals \cup {cur} ELSE finals
           \/ torn' = torn \cup {<<pc, cur>>} /\ UNCHANGED <<marks, finals>>
  /\ UNCHANGED <<host, active, attempts, owner, staged>>

\* Power fails: an unsynced marker may be gone or torn, an unsynced replacement undone.
PowerFails ==
  /\ boot < MaxBoot /\ session < MaxSession /\ boot' = boot + 1 /\ session' = session + 1
  /\ worker' = [a \in Attempt |-> IF worker[a] = "live" THEN "over" ELSE worker[a]]
  /\ profile' \in {profile, disk} /\ disk' = profile'
  /\ Over /\ loose' = {}
  /\ LET open == loose \cup IF pc \in Kinds /\ Unnamed(pc, cur) THEN {<<pc, cur>>} ELSE {}
     IN  \E gone \in SUBSET open : \E half \in SUBSET (open \ gone) :
           /\ torn' = (torn \ gone) \cup half
           /\ marks' = [k \in Kinds |->
                (marks[k] \cup {o[2] : o \in {x \in open : x[1] = k /\ x \notin torn}})
                  \ {o[2] : o \in {x \in gone \cup half : x[1] = k}}]
  /\ finals' = finals \cup marks'["final"]
  /\ UNCHANGED <<owner, prepared, madeBy, madeIn, journal, terminal, staged>>

CompositorRestarts ==
  /\ session < MaxSession /\ session' = session + 1
  /\ UNCHANGED <<boot, active, attempts, owner, transaction, pc, cur>>

\* The owner provisions another profile, under the owner mutex.
OwnerEdits(p) ==
  /\ Idle /\ p # profile /\ profile' = p /\ disk' = p
  /\ UNCHANGED <<host, attempts, owner, transaction, pc, cur>>

Expire(r) ==
  /\ stage[r] # "none" /\ Fresh(r) /\ expired' = expired \cup {r}
  /\ UNCHANGED <<host, active, attempts, transaction, stage, target, seen, pc, cur>>

Outside == \/ Dies \/ PowerFails \/ CompositorRestarts
           \/ \E p \in Profile : OwnerEdits(p)
           \/ \E r \in Resolution : Expire(r)

Next == Attempts \/ Prepares \/ Applies \/ Outside

Spec == Init /\ [][Next]_vars
-----------------------------------------------------------------------------
OnFile(k) == IF k \in Kinds THEN marks[k] \cup {r \in Resolution : <<k, r>> \in torn} ELSE {}
Abandoned == {target[r].attempt : r \in finals}

\* "Only the exact old-profile -> new-profile edge is exempted": beside the one attempt that was
\* abandoned, at most one is not a proved success, whatever failed in between.
OneUnaccounted ==
  \A a, b \in prepared \ Abandoned :
    terminal[a] # "verified" /\ terminal[b] # "verified" => a = b

\* "abandoned-settled": what is abandoned can have no effect any more.  Its worker is over, and
\* either it never had a permit or the boot it acted in is.
AbandonedIsSettled ==
  \A a \in Abandoned :
    /\ terminal[a] = "indeterminate" /\ worker[a] # "live"
    /\ journal[a] = "none" \/ madeIn[a][1] < boot

\* apply, "sync_directory" before the final marker: no power loss leaves a complete set of
\* markers over the old profile.
FinalNeverAhead == [][finals' # finals => disk' \in {target[r].to : r \in finals'}]_vars

\* "No rollback, automatic replay, marker deletion or repair exists": whatever was killed and
\* typed again, the markers on a ledger are of one resolution, and none comes before its time.
OneTransaction ==
  /\ \A k, l \in Kinds : \A r \in OnFile(k), s \in OnFile(l) : r = s
  /\ \A k \in DOMAIN After : OnFile(After[k]) \subseteq marks[k]
=============================================================================
