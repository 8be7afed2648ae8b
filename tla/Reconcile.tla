------------------------------ MODULE Reconcile ------------------------------
(***************************************************************************)
(* reconcile: an approved plan puts the columns of the workspaces back in  *)
(* the desired order, one place-column action per window.  Every niri call *)
(* is preceded by a stored intent and followed by an observation that must *)
(* match what the model of the actions predicts; anything else stops the   *)
(* run, and the approval is spent whatever happens.  The user may move     *)
(* columns and focus at any time, calls may fail with their effect done or *)
(* not, the process may die, and the command may be tried again.           *)
(*                                                                         *)
(* planner.layout_actions admits single-tile columns only, so an order is  *)
(* the column index of each window, 1..n without gap on each workspace.    *)
(***************************************************************************)
EXTENDS Integers, FiniteSets, SequencesExt

CONSTANTS
  Tiled, Floating,   \* the windows of the plan
  NoWindow,          \* nothing focused
  home,              \* workspace index of each tiled window
  Budget,            \* mutation budget of one reconcile
  Starts,            \* orders the plan may be made from
  MaxRuns, MaxUser   \* BOUND: reconcile commands tried, things the user does

ASSUME WindowAssumption ==
  /\ IsFiniteSet(Tiled) /\ Tiled \cap Floating = {}
  /\ NoWindow \notin Tiled \cup Floating
  /\ home \in [Tiled -> Nat]
ASSUME BoundAssumption == Budget \in Nat /\ MaxRuns \in Nat /\ MaxUser \in Nat

Window == Tiled \cup Floating
Beside(u) == {v \in Tiled : home[v] = home[u]}
Columns(u) == Cardinality(Beside(u))

\* Contiguous single-tile columns, the topology layout_actions admits.
Order ==
  {p \in [Tiled -> 1 .. Cardinality(Tiled)] :
    \A u \in Tiled :
      /\ p[u] \in 1 .. Columns(u)
      /\ \A v \in Beside(u) : p[v] = p[u] => v = u
      /\ \A c \in 1 .. Columns(u) : \E v \in Beside(u) : p[v] = c}

\* reconcile.expected_after: w leaves its place, then enters at index c.
MovedEarly(p, w, c) ==                                                     \* mutant
  [v \in Tiled |-> IF v = w THEN c
                   ELSE IF v \in Beside(w) /\ p[v] >= c THEN p[v] + 1 ELSE p[v]]
Moved(p, w, c) ==
  LET closed(v) == IF p[v] > p[w] THEN p[v] - 1 ELSE p[v]
  IN  [v \in Tiled |-> IF v = w THEN c
                       ELSE IF v \notin Beside(w) THEN p[v]
                       ELSE IF closed(v) >= c THEN closed(v) + 1 ELSE closed(v)]

VARIABLES
  live, focus,               \* the desktop: column indices and focused window
  source, sourceFocus,       \* as the plan saw it
  desired,                   \* the order the plan wants
  expired,                   \* the approval's lifetime is over
  used,                      \* the approval's used marker exists
  runs, user,                \* commands and user actions so far
  pc,                        \* where the run is
  todo,                      \* windows whose place-column action is still to come
  expected, expectedFocus,   \* what the next observation must show
  acted,                     \* this run stored an intent
  receipt,                   \* status of the stored reconcile receipt
  intents, dispatched,       \* intents stored and niri calls made under this approval
  effectRuns,                \* runs that made a niri call
  astray, late,              \* calls made since the desktop last matched; after expiry
  disturbed                  \* the user acted, a call failed or the approval expired

desktop == <<live, focus>>
approved == <<source, sourceFocus, desired>>
progress == <<todo, expected, expectedFocus, acted>>
history == <<intents, dispatched, effectRuns, astray, late, disturbed>>
vars == <<desktop, approved, expired, used, runs, user, pc, progress, receipt, history>>

\* planner.build_plan and approval.approve: a change of order needs a focus to give back.
Init ==
  /\ live \in Order \cap Starts /\ focus \in Window \cup {NoWindow}
  /\ source = live /\ sourceFocus = focus
  /\ desired \in Order /\ (focus = NoWindow => desired = source)
  /\ expired = FALSE /\ used = FALSE /\ runs = 0 /\ user = 0
  /\ pc = "idle" /\ todo = {} /\ expected = live /\ expectedFocus = focus
  /\ acted = FALSE /\ receipt = "none"
  /\ intents = 0 /\ dispatched = 0 /\ effectRuns = {} /\ astray = 0 /\ late = 0
  /\ disturbed = FALSE
-----------------------------------------------------------------------------
\* layout_actions: by workspace, then by the column wanted.
Before(u, v) == home[u] < home[v] \/ (home[u] = home[v] /\ desired[u] < desired[v])
Foremost(w) == w \in todo /\ \A u \in todo \ {w} : Before(w, u)
Target(w) == Moved(expected, w, desired[w])

\* approval.validate_plan and _reconcile_locked up to the model check.  A refusal changes
\* nothing, and neither does a second run while the operation lock is held.
Actions == IF desired = source THEN {} ELSE Tiled

Hindmost(T) == CHOOSE w \in T : \A u \in T \ {w} : Before(u, w)

\* The whole sequence is predicted before anything is consumed: the order with T placed.
predicted[T \in SUBSET Tiled] ==
  IF T = {} THEN source
  ELSE Moved(predicted[T \ {Hindmost(T)}], Hindmost(T), desired[Hindmost(T)])

Converges == predicted[Actions] = desired

Begin ==
  /\ pc = "idle" /\ runs < MaxRuns /\ ~expired
  /\ live = source /\ focus = sourceFocus /\ Converges
  /\ 2 * Cardinality(Actions) + 1 <= Budget
  /\ runs' = runs + 1 /\ pc' = "consume"
  /\ UNCHANGED <<desktop, approved, expired, used, user, progress, receipt, history>>

\* store.consume: the marker is created, or is there and refuses.
Unfenced == pc' = "observe"                                                \* mutant
Fenced == pc' = IF used THEN "idle" ELSE "observe"

Consume ==
  /\ pc = "consume" /\ Fenced
  /\ used' = TRUE
  /\ todo' = Actions /\ expected' = source /\ expectedFocus' = sourceFocus /\ acted' = FALSE
  /\ UNCHANGED <<desktop, approved, expired, runs, user, receipt, history>>

\* observe_expected: order and focus are exactly what the model says.
Glances == live = expected                                                 \* mutant
Matches == live = expected /\ focus = expectedFocus

\* `except Exception`: no replay, no rollback.
Stop ==
  /\ pc' = "finish" /\ UNCHANGED progress

Skipped(w) == todo \ {w}

\* The top of the loop; a window already in place takes no action.
Observe ==
  /\ pc = "observe" /\ todo # {}
  /\ IF Matches
     THEN \E w \in todo :
            /\ Foremost(w)
            /\ \/ Target(w) = expected /\ todo' = Skipped(w) /\ pc' = pc
               \/ Target(w) # expected /\ todo' = todo /\ pc' = "intend-focus"
            /\ UNCHANGED <<expected, expectedFocus, acted>>
     ELSE Stop
  /\ UNCHANGED <<desktop, approved, expired, used, runs, user, receipt, history>>

\* After the last action: give the focus back if anything was done.
ObserveLast ==
  /\ pc = "observe" /\ todo = {}
  /\ IF acted /\ sourceFocus # NoWindow
     THEN IF Matches THEN pc' = "intend-back" /\ UNCHANGED progress ELSE Stop
     ELSE pc' = "verify" /\ UNCHANGED progress
  /\ UNCHANGED <<desktop, approved, expired, used, runs, user, receipt, history>>

\* effect: refuse once expired, then store the intent, then call niri.
NeverExpires == TRUE                                                       \* mutant
InTime == ~expired

OneIntentPerRun == IF acted THEN intents ELSE intents + 1                  \* mutant
IntentStored == intents + 1

Intends(next) ==
  IF InTime
  THEN /\ pc' = next /\ acted' = TRUE /\ intents' = IntentStored
       /\ UNCHANGED <<todo, expected, expectedFocus>>
  ELSE Stop /\ UNCHANGED intents

Intend ==
  /\ \/ pc = "intend-focus" /\ Intends("focus")
     \/ pc = "intend-move" /\ Intends("move")
     \/ pc = "intend-back" /\ Intends("back")
  /\ UNCHANGED <<desktop, approved, expired, used, runs, user, receipt,
                 dispatched, effectRuns, astray, late, disturbed>>

\* niri move-column-to-index: the focused column leaves and enters at the index, clamped.
ColumnTo(c) ==
  LET row == [i \in 1 .. Columns(focus) |-> CHOOSE v \in Beside(focus) : live[v] = i]
      index == IF c < Len(row) THEN c ELSE Len(row)
      after == InsertAt(RemoveAt(row, live[focus]), index, focus)
  IN  /\ focus' = focus
      /\ live' = IF focus \in Tiled
                 THEN [v \in Tiled |-> IF v \in Beside(focus)
                                       THEN CHOOSE i \in DOMAIN after : after[i] = v
                                       ELSE live[v]]
                 ELSE live

FocusWindow(w) == focus' = w /\ live' = live

\* The niri call the run has come to.
Effect ==
  \/ pc = "focus" /\ \E w \in todo : Foremost(w) /\ FocusWindow(w)
  \/ pc = "move" /\ \E w \in todo : Foremost(w) /\ ColumnTo(desired[w])
  \/ pc = "back" /\ FocusWindow(sourceFocus)

\* What the next observation must show once the call has returned.
Expects ==
  \/ /\ pc = "focus" /\ pc' = "check-focus"
     /\ \E w \in todo : Foremost(w) /\ expectedFocus' = w
     /\ UNCHANGED expected
  \/ /\ pc = "move" /\ pc' = "check-move"
     /\ \E w \in todo : Foremost(w) /\ expected' = Target(w)
     /\ UNCHANGED expectedFocus
  \/ /\ pc = "back" /\ pc' = "check-back"
     /\ expectedFocus' = sourceFocus /\ UNCHANGED expected

Counted ==
  /\ dispatched' = dispatched + 1
  /\ effectRuns' = effectRuns \cup {runs}
  /\ astray' = IF Matches \/ Matches' THEN 0 ELSE astray + 1
  /\ late' = IF expired THEN late + 1 ELSE late
  /\ UNCHANGED <<approved, expired, used, runs, user, receipt, intents>>

Dispatch == Effect /\ Expects /\ Counted /\ UNCHANGED <<todo, acted, disturbed>>

\* The call raises or times out, its effect done or not.
DispatchFails ==
  /\ pc \in {"focus", "move", "back"}
  /\ Effect \/ UNCHANGED desktop
  /\ Stop /\ Counted /\ disturbed' = TRUE

\* An observation or a store operation of the run raises; an intent may be on file already.
Raises ==
  /\ pc \in {"observe", "intend-focus", "intend-move", "intend-back",
            "check-focus", "check-move", "check-back", "verify"}
  /\ Stop /\ disturbed' = TRUE
  /\ intents' = intents \/ (pc \in {"intend-focus", "intend-move", "intend-back"} /\ InTime
                            /\ intents' = intents + 1)
  /\ UNCHANGED <<desktop, approved, expired, used, runs, user, receipt,
                 dispatched, effectRuns, astray, late>>

\* The observation after a call.
CheckNothing == TRUE                                                       \* mutant
CheckMatches == Matches

Checked(from, next) ==
  /\ pc = from
  /\ IF CheckMatches
     THEN /\ pc' = next
          /\ todo' = IF from = "check-move" THEN {u \in todo : ~Foremost(u)} ELSE todo
          /\ UNCHANGED <<expected, expectedFocus, acted>>
     ELSE Stop
  /\ UNCHANGED <<desktop, approved, expired, used, runs, user, receipt, history>>

Check == \/ Checked("check-focus", "intend-move")
         \/ Checked("check-move", "observe")
         \/ Checked("check-back", "verify")

\* The final observation, compared with the desired order by save_verification.
Verify ==
  /\ pc = "verify"
  /\ IF Matches
     THEN pc' = (IF live = desired THEN "verified" ELSE "partial") /\ UNCHANGED progress
     ELSE Stop
  /\ UNCHANGED <<desktop, approved, expired, used, runs, user, receipt, history>>

StoreReceipt ==
  /\ \/ pc = "verified" /\ receipt' = "layout-verified"
     \/ pc = "partial" /\ receipt' = "partial"
     \/ pc = "finish" /\ receipt' = IF acted THEN "effect-indeterminate"
                                             ELSE "failed-before-effect"
  /\ pc' = "idle"
  /\ UNCHANGED <<desktop, approved, expired, used, runs, user, progress, history>>

Advance == \/ Consume \/ Observe \/ ObserveLast \/ Intend \/ Dispatch
           \/ Check \/ Verify \/ StoreReceipt
Run == Advance \/ DispatchFails \/ Raises
-----------------------------------------------------------------------------
Crash ==
  /\ pc # "idle" /\ pc' = "idle"
  /\ UNCHANGED <<desktop, approved, expired, used, runs, user, progress, receipt, history>>

Expire ==
  /\ ~expired /\ expired' = TRUE /\ disturbed' = TRUE
  /\ UNCHANGED <<desktop, approved, used, runs, user, pc, progress, receipt,
                 intents, dispatched, effectRuns, astray, late>>

\* The user focuses a window or moves its column.
User ==
  /\ user < MaxUser /\ user' = user + 1 /\ disturbed' = TRUE
  /\ \E w \in Window :
       /\ focus' = w
       /\ \/ live' = live
          \/ w \in Tiled /\ \E c \in 1 .. Columns(w) : live' = Moved(live, w, c)
  /\ UNCHANGED <<approved, expired, used, runs, pc, progress, receipt,
                 intents, dispatched, effectRuns, late>>
  /\ astray' = IF Matches' THEN 0 ELSE astray

Next == Begin \/ Run \/ Crash \/ Expire \/ User

Spec == Init /\ [][Next]_vars
-----------------------------------------------------------------------------
Running == {"consume", "observe", "intend-focus", "focus", "check-focus", "intend-move", "move",
            "check-move", "intend-back", "back", "check-back", "verify", "verified", "partial",
            "finish"}

TypeOK ==
  /\ live \in Order /\ focus \in Window \cup {NoWindow}
  /\ source \in Order /\ desired \in Order /\ sourceFocus \in Window \cup {NoWindow}
  /\ expired \in BOOLEAN /\ used \in BOOLEAN /\ runs \in 0 .. MaxRuns /\ user \in 0 .. MaxUser
  /\ pc \in Running \cup {"idle"}
  /\ todo \subseteq Tiled /\ expected \in Order /\ expectedFocus \in Window \cup {NoWindow}
  /\ acted \in BOOLEAN
  /\ receipt \in {"none", "layout-verified", "partial", "effect-indeterminate",
                  "failed-before-effect"}
  /\ intents \in Nat /\ dispatched \in Nat /\ effectRuns \subseteq 1 .. MaxRuns
  /\ astray \in Nat /\ late \in Nat /\ disturbed \in BOOLEAN

\* _reconcile_locked: `layout-verified` is concluded from one observation that shows the
\* desired order with the focus back where the plan found it; `partial` is never the result.
VerifiedIsDesired ==
  [][/\ pc = "verify" /\ pc' = "verified" => live = desired /\ focus = sourceFocus
     /\ pc' # "partial"]_vars

\* layout_actions and expected_after: placing the columns in ascending order reaches the desired
\* order, so "action sequence does not converge" never refuses an admitted plan, and a run that
\* nobody disturbs and no call fails in is verified.
EndsVerified == ~disturbed => receipt \in {"none", "layout-verified"} /\ pc # "finish"
UndisturbedRunVerifies == Converges /\ EndsVerified

\* store.consume, "O_EXCL is the replay fence": whatever crashes and retries, one run alone
\* ever acts on the desktop under one approval.
OneRunPerApproval == \A r, s \in effectRuns : r = s

\* effect, "Persist intent BEFORE dispatch. A crash leaves explicit effect-indeterminate
\* history": no call without its intent on file, and at most one intent without its call.
IntentsCoverCalls == dispatched <= intents /\ intents <= dispatched + 1

\* observe_expected, "stop without replay or rollback": once the desktop is not what the run
\* expects, at most the one call in the final IPC gap is still made.
AtMostOneCallAstray == astray <= 1

\* effect, "approval expired during operation; no further actions": at most the call whose
\* intent was already being stored.
AtMostOneCallLate == late <= 1
=============================================================================
