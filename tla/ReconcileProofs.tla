--------------------------- MODULE ReconcileProofs ---------------------------
(***************************************************************************)
(* For any windows on any workspaces: placing the columns in ascending     *)
(* order reaches the desired order, so that no plan is refused for it and  *)
(* a run nobody disturbs is verified; a verified run ends on it with the   *)
(* focus given back; one run acts under one approval, every call has its   *)
(* intent on file, and at most one call is made after expiry or astray.    *)
(* And, with the same facts about rows of columns: for any saved layout    *)
(* and any open columns the last of which is active, a workspace that      *)
(* reopen arranges is rebuilt in the saved order behind its open columns,  *)
(* which stay where they are.                                              *)
(***************************************************************************)
EXTENDS Reconcile, Arrange, FiniteSetTheorems, SequenceTheorems, WellFoundedInduction, TLAPS

-----------------------------------------------------------------------------
(* Orders. *)

LEMMA ColumnsBounds ==
  ASSUME NEW u \in Tiled
  PROVE  /\ Columns(u) \in Nat /\ Columns(u) <= Cardinality(Tiled)
         /\ Cardinality(Tiled) \in Nat
<1>1. IsFiniteSet(Tiled) /\ Beside(u) \subseteq Tiled
  BY WindowAssumption DEF Beside
<1> QED
  BY <1>1, FS_Subset, FS_CardinalityType DEF Columns

LEMMA SameWorkspace ==
  ASSUME NEW u \in Tiled, NEW v \in Beside(u)
  PROVE  v \in Tiled /\ u \in Beside(v) /\ Beside(v) = Beside(u) /\ Columns(v) = Columns(u)
<1>1. v \in Tiled /\ home[v] = home[u]
  BY DEF Beside
<1>2. Beside(v) = Beside(u)
  BY <1>1 DEF Beside
<1> QED
  BY <1>1, <1>2 DEF Columns, Beside

\* expected_after keeps the columns of every workspace numbered 1..n without gap.
LEMMA MovedIsOrder ==
  ASSUME NEW p \in Order, NEW w \in Tiled, NEW c \in 1 .. Columns(w)
  PROVE  Moved(p, w, c) \in Order
<1> DEFINE q == Moved(p, w, c)
<1> DEFINE closed(v) == IF p[v] > p[w] THEN p[v] - 1 ELSE p[v]
<1> DEFINE n == Columns(w)
<1>0. n \in Nat /\ n <= Cardinality(Tiled) /\ Cardinality(Tiled) \in Nat
  BY ColumnsBounds
<1>1. /\ p \in [Tiled -> 1 .. Cardinality(Tiled)]
      /\ \A u \in Tiled : /\ p[u] \in 1 .. Columns(u)
                          /\ \A v \in Beside(u) : p[v] = p[u] => v = u
                          /\ \A k \in 1 .. Columns(u) : \E v \in Beside(u) : p[v] = k
  BY DEF Order
<1>2. \A v \in Beside(w) : v \in Tiled /\ p[v] \in 1 .. n /\ (p[v] = p[w] => v = w)
  BY <1>1, SameWorkspace
<1>3. w \in Beside(w) /\ p[w] \in 1 .. n
  BY <1>1 DEF Beside
<1>4. /\ q[w] = c
      /\ \A v \in Tiled : v \notin Beside(w) => q[v] = p[v]
      /\ \A v \in Beside(w) : v # w =>
           q[v] = IF closed(v) >= c THEN closed(v) + 1 ELSE closed(v)
  BY <1>2, <1>3 DEF Moved
<1>5. \A v \in Beside(w) : v # w => closed(v) \in 1 .. n - 1
  BY <1>0, <1>2, <1>3
<1>6. \A v \in Beside(w) : q[v] \in 1 .. n
  <2>1. ASSUME NEW v \in Beside(w), v # w PROVE q[v] \in 1 .. n
    <3>1. closed(v) \in 1 .. n - 1
      BY <1>5, <2>1
    <3> HIDE DEF closed
    <3> QED
      BY <1>0, <1>4, <2>1, <3>1
  <2> QED
    BY <1>4, <2>1
<1>7. \A u, v \in Beside(w) : q[u] = q[v] => u = v
  <2>1. ASSUME NEW u \in Beside(w), NEW v \in Beside(w), u # w, v # w, q[u] = q[v]
        PROVE  u = v
    <3>1. closed(u) \in Int /\ closed(v) \in Int
      BY <1>5, <2>1, <1>0
    <3>2. closed(u) = closed(v)
      <4> HIDE DEF closed
      <4> QED
        BY <1>4, <2>1, <3>1
    <3>3. p[u] # p[w] /\ p[v] # p[w] /\ p[u] \in Int /\ p[v] \in Int /\ p[w] \in Int
      BY <1>0, <1>2, <1>3, <2>1
    <3>4. p[u] = p[v]
      BY <3>2, <3>3
    <3> QED
      BY <1>1, <1>2, <3>4, SameWorkspace
  <2>2. ASSUME NEW v \in Beside(w), v # w PROVE q[v] # c
    <3>1. closed(v) \in Int
      BY <1>5, <2>2, <1>0
    <3> HIDE DEF closed
    <3> QED
      BY <1>4, <2>2, <3>1
  <2> QED
    BY <1>4, <2>1, <2>2
<1>8. \A k \in 1 .. n : \E v \in Beside(w) : q[v] = k
  <2>1. SUFFICES ASSUME NEW k \in 1 .. n, k # c PROVE \E v \in Beside(w) : q[v] = k
    BY <1>3, <1>4
  <2> DEFINE m == IF k < c THEN k ELSE k - 1
  <2> DEFINE j == IF m >= p[w] THEN m + 1 ELSE m
  <2>2. m \in 1 .. n - 1 /\ j \in 1 .. n /\ j # p[w]
    BY <1>0, <1>3, <2>1
  <2>3. PICK v \in Beside(w) : p[v] = j
    BY <1>1, <2>2
  <2>4. v # w /\ closed(v) = m
    BY <1>0, <1>3, <2>2, <2>3
  <2>5. q[v] = k
    <3>1. q[v] = IF m >= c THEN m + 1 ELSE m
      BY <1>4, <2>4
    <3> QED
      BY <1>0, <2>1, <3>1
  <2> QED
    BY <2>5
<1>9. ASSUME NEW u \in Tiled, u \notin Beside(w)
      PROVE  \A v \in Beside(u) : q[v] = p[v]
  BY <1>4, <1>9, SameWorkspace DEF Beside
<1>10. q \in [Tiled -> 1 .. Cardinality(Tiled)]
  <2>1. \A v \in Tiled : q[v] \in 1 .. Cardinality(Tiled)
    BY <1>0, <1>1, <1>4, <1>6
  <2>2. q = [v \in Tiled |-> q[v]]
    BY DEF Moved
  <2> HIDE DEF q
  <2> QED
    BY <2>1, <2>2
<1>11. ASSUME NEW u \in Tiled
       PROVE  /\ q[u] \in 1 .. Columns(u)
              /\ \A v \in Beside(u) : q[v] = q[u] => v = u
              /\ \A k \in 1 .. Columns(u) : \E v \in Beside(u) : q[v] = k
  <2>1. CASE u \in Beside(w)
    <3>1. Beside(u) = Beside(w) /\ Columns(u) = n
      BY <2>1, SameWorkspace
    <3> HIDE DEF q, n
    <3> QED
      BY <1>6, <1>7, <1>8, <2>1, <3>1
  <2>2. CASE u \notin Beside(w)
    <3>1. u \in Beside(u)
      BY DEF Beside
    <3> HIDE DEF q
    <3> QED
      BY <1>1, <1>9, <2>2, <3>1
  <2> QED
    BY <2>1, <2>2
<1>12. q \in Order
  <2> HIDE DEF q
  <2> QED
    BY <1>10, <1>11 DEF Order
<1> QED
  BY <1>12

\* layout_actions: when the columns before it are in place, placing the next one leaves them
\* there.
LEMMA PlacingKeepsPlaced ==
  ASSUME NEW p \in Order, desired \in Order, NEW T \in SUBSET Tiled, NEW w \in T,
         \A u \in T \ {w} : Before(w, u),
         \A u \in Tiled \ T : Before(u, w) /\ p[u] = desired[u]
  PROVE  LET q == Moved(p, w, desired[w])
         IN  q \in Order /\ q[w] = desired[w] /\ \A u \in Tiled \ T : q[u] = desired[u]
<1> DEFINE c == desired[w]
<1>1. /\ c \in 1 .. Columns(w)
      /\ \A k \in 1 .. Columns(w) : \E v \in Beside(w) : desired[v] = k
      /\ \A v \in Tiled : desired[v] \in Nat /\ p[v] \in Nat
      /\ p[w] \in 1 .. Columns(w)
      /\ \A v \in Beside(w) : p[v] = p[w] => v = w
  BY ColumnsBounds DEF Order
<1>2. Columns(w) \in Nat
  BY ColumnsBounds
<1>3. p[w] >= c
  <2>1. SUFFICES ASSUME p[w] < c PROVE FALSE
    BY <1>1
  <2>2. PICK v \in Beside(w) : desired[v] = p[w]
    BY <1>1
  <2>3. v \in Tiled /\ home[v] = home[w] /\ v # w
    BY <2>1, <2>2, <1>1 DEF Beside
  <2>4. v \notin T
    BY <1>1, <2>1, <2>2, <2>3, WindowAssumption DEF Before
  <2> QED
    BY <1>1, <2>2, <2>3, <2>4
<1>4. ASSUME NEW u \in Tiled \ T PROVE Moved(p, w, c)[u] = desired[u]
  <2>1. CASE u \in Beside(w)
    <3>1. desired[u] < c /\ p[u] = desired[u]
      BY <2>1, <1>1, WindowAssumption DEF Before, Beside
    <3> QED
      BY <1>1, <1>3, <3>1 DEF Moved
  <2>2. CASE u \notin Beside(w)
    BY <2>2 DEF Moved
  <2> QED
    BY <2>1, <2>2
<1>5. Moved(p, w, c)[w] = c
  BY DEF Moved
<1> QED
  BY <1>1, <1>4, <1>5, MovedIsOrder

\* Only one window comes first.
LEMMA ForemostUnique ==
  ASSUME desired \in Order, todo \subseteq Tiled, NEW u, NEW v, Foremost(u), Foremost(v)
  PROVE  u = v
<1>1. u \in Tiled /\ v \in Tiled /\ \A x \in Tiled : desired[x] \in Int /\ home[x] \in Int
  BY WindowAssumption DEF Foremost, Order
<1> QED
  BY <1>1 DEF Foremost, Before

-----------------------------------------------------------------------------
(* The inductive invariant. *)

Calling == {"focus", "move", "back"}
Placing == {"intend-focus", "focus", "check-focus", "intend-move", "move", "check-move"}
Closing == {"intend-back", "back", "check-back"}
Acting == {"observe", "verify", "verified", "partial"} \cup Placing \cup Closing

Typed ==
  /\ source \in Order /\ desired \in Order /\ expected \in Order /\ todo \subseteq Tiled
  /\ expired \in BOOLEAN /\ used \in BOOLEAN /\ acted \in BOOLEAN
  /\ intents \in Nat /\ dispatched \in Nat /\ late \in Nat
  /\ pc \in Acting \cup {"idle", "consume", "finish"}
  /\ sourceFocus = NoWindow => desired = source

\* Windows handled are in place and come before those to come; nothing is done about an order
\* that is already right; the focus is where it was until the first call, and again at the end.
Progress ==
  pc \in Acting =>
    /\ \A u \in Tiled \ todo : expected[u] = desired[u] /\ \A w \in todo : Before(u, w)
    /\ pc = "check-move" => \A w \in todo : Foremost(w) => expected[w] = desired[w]
    /\ desired = source => todo = {} /\ ~acted
    /\ pc \in Placing => todo # {}
    /\ pc \in Closing \cup (Placing \ {"intend-focus"}) => acted
    /\ pc \in Closing \cup {"verify", "verified", "partial"} => todo = {}
    /\ ~acted \/ pc \in {"check-back", "verify", "verified"} => expectedFocus = sourceFocus
    /\ pc # "partial"

\* An approval is spent before anything is done under it, and only the run that spent it acts.
Fence ==
  /\ ~used => intents = 0 /\ dispatched = 0 /\ effectRuns = {} /\ late = 0
  /\ pc \in Acting \cup {"finish"} => used /\ effectRuns \subseteq {runs}
  /\ \A r, s \in effectRuns : r = s

\* An intent is outstanding exactly while a call is being made, in time when it was stored.
Counting ==
  /\ dispatched <= intents /\ intents <= dispatched + 1
  /\ pc \in Calling => intents = dispatched + 1 /\ late = 0
  /\ pc \in Acting \ Calling => intents = dispatched
  /\ ~expired => late = 0
  /\ late <= 1

\* A run goes on to the next call only from an observation that matched.
Tracking ==
  /\ ~used => astray = 0
  /\ astray \in {0, 1}
  /\ pc \in Acting /\ Matches => astray = 0
  /\ pc \in Calling \cup {"intend-focus", "intend-move", "intend-back"} => astray = 0

IInv == Typed /\ Progress /\ Fence /\ Counting /\ Tracking

LEMMA InitIInv == Init => IInv
<1> SUFFICES ASSUME Init PROVE IInv
  OBVIOUS
<1>1. pc = "idle" /\ pc \notin Acting \cup Calling
  BY DEF Init, Acting, Placing, Closing, Calling
<1>2. Typed
  BY <1>1 DEF Init, Typed
<1>3. Progress /\ Counting
  BY <1>1 DEF Init, Progress, Counting
<1>4. Fence /\ Tracking
  BY <1>1 DEF Init, Fence, Tracking, Calling
<1> QED
  BY <1>2, <1>3, <1>4 DEF IInv

LEMMA TypedStep ==
  ASSUME IInv, [Next]_vars
  PROVE  Typed'
<1> USE DEF IInv
<1> USE DEF Acting, Placing, Closing
<1>1. CASE Begin
  BY <1>1 DEF Begin, Typed, approved, progress, history
<1>2. CASE Consume
  BY <1>2 DEF Consume, Fenced, Actions, Typed, approved, history
<1>3. CASE Observe
  BY <1>3 DEF Observe, Skipped, Stop, Typed, approved, progress, history
<1>4. CASE ObserveLast
  BY <1>4 DEF ObserveLast, Stop, Typed, approved, progress, history
<1>5. CASE Intend
  <2>1. /\ UNCHANGED <<source, desired, sourceFocus, expected, todo, expired, used,
                        dispatched, late>>
        /\ pc' \in {"focus", "move", "back", "finish"}
    BY <1>5 DEF Intend, Intends, Stop, approved, progress
  <2>2. acted' \in BOOLEAN /\ intents' \in Nat
    <3>1. CASE InTime
      <4>1. acted' = TRUE /\ intents' = IntentStored
        BY <1>5, <3>1 DEF Intend, Intends
      <4> QED
        BY <4>1 DEF Typed, IntentStored
    <3>2. CASE ~InTime
      <4>1. acted' = acted /\ intents' = intents
        BY <1>5, <3>2 DEF Intend, Intends, Stop, progress
      <4> QED
        BY <4>1 DEF Typed
    <3> QED
      BY <3>1, <3>2
  <2> QED
    BY <2>1, <2>2 DEF Typed
<1>6. CASE Dispatch
  <2>1. expected' \in Order
    <3>1. CASE UNCHANGED expected
      BY <3>1 DEF Typed
    <3>2. CASE pc = "move" /\ \E w \in todo : Foremost(w) /\ expected' = Target(w)
      <4>1. PICK w \in todo : Foremost(w) /\ expected' = Target(w)
        BY <3>2
      <4>2. w \in Tiled /\ desired[w] \in 1 .. Columns(w)
        BY DEF Typed, Order
      <4> QED
        BY <4>1, <4>2, MovedIsOrder DEF Typed, Target
    <3> QED
      BY <1>6, <3>1, <3>2 DEF Dispatch, Expects
  <2> QED
    BY <1>6, <2>1 DEF Dispatch, Expects, Counted, Typed, approved
<1>7. CASE DispatchFails
  BY <1>7 DEF DispatchFails, Counted, Stop, Typed, approved, progress
<1>8. CASE Raises
  BY <1>8 DEF Raises, Stop, Typed, approved, progress
<1>9. CASE Check
  BY <1>9 DEF Check, Checked, Stop, Typed, approved, progress, history
<1>10. CASE Verify
  BY <1>10 DEF Verify, Stop, Typed, approved, progress, history
<1>11. CASE StoreReceipt
  BY <1>11 DEF StoreReceipt, Typed, approved, progress, history
<1>12. CASE Crash
  BY <1>12 DEF Crash, Typed, approved, progress, history
<1>13. CASE Expire
  BY <1>13 DEF Expire, Typed, approved, progress
<1>14. CASE User
  BY <1>14 DEF User, Typed, approved, progress
<1>15. CASE UNCHANGED vars
  BY <1>15 DEF vars, Typed, approved, progress, history
<1> QED
  BY <1>1, <1>2, <1>3, <1>4, <1>5, <1>6, <1>7, <1>8, <1>9, <1>10, <1>11, <1>12, <1>13, <1>14,
     <1>15 DEF Next, Run, Advance

\* Stopping, crashing and refusing leave the loop, where Progress asks nothing.
LEMMA ProgressStep ==
  ASSUME IInv, IInv => Typed', [Next]_vars
  PROVE  Progress'
<1> USE DEF IInv
<1>0. SUFFICES ASSUME pc' \in Acting PROVE Progress'
  BY DEF Progress
<1>a. ~Stop
  BY <1>0 DEF Stop, Acting, Placing, Closing
<1>b. \A w \in todo : Foremost(w) => w \in Tiled /\ desired[w] \in 1 .. Columns(w)
  BY DEF Typed, Order
<1>2. CASE Consume
  <2>1. /\ pc' = "observe" /\ todo' = Actions /\ expected' = source
        /\ expectedFocus' = sourceFocus /\ acted' = FALSE
        /\ UNCHANGED <<source, desired, sourceFocus>>
    BY <1>0, <1>2 DEF Consume, Fenced, approved, Acting, Placing, Closing
  <2>2. todo' = IF desired = source THEN {} ELSE Tiled
    BY <2>1 DEF Actions
  <2>3. \A u \in Tiled \ todo' : expected'[u] = desired'[u] /\ todo' = {}
    BY <2>1, <2>2
  <2> QED
    BY <2>1, <2>2, <2>3 DEF Progress, Placing, Closing
<1>3. CASE Observe
  <2>1. PICK w \in todo :
          /\ Foremost(w)
          /\ \/ Target(w) = expected /\ todo' = todo \ {w} /\ pc' = "observe"
             \/ Target(w) # expected /\ todo' = todo /\ pc' = "intend-focus"
          /\ UNCHANGED <<expected, expectedFocus, acted, source, desired, sourceFocus>>
    BY <1>3, <1>a DEF Observe, Skipped, approved
  <2>2. pc = "observe" /\ pc \in Acting
    BY <1>3 DEF Observe, Acting
  <2>3. CASE todo' = todo
    BY <2>1, <2>2, <2>3 DEF Progress, Before, Placing, Closing
  <2>4. CASE Target(w) = expected /\ todo' = todo \ {w} /\ pc' = "observe"
    <3>1. expected[w] = desired[w]
      <4>1. Moved(expected, w, desired[w])[w] = desired[w]
        BY <1>b, <2>1 DEF Moved
      <4> QED
        BY <2>4, <4>1 DEF Target
    <3>2. \A u \in Tiled \ todo' : expected[u] = desired[u] /\ \A v \in todo' : Before(u, v)
      BY <2>1, <2>2, <2>4, <3>1 DEF Progress, Foremost
    <3> QED
      BY <2>1, <2>2, <2>4, <3>2 DEF Progress, Before, Placing, Closing
  <2> QED
    BY <2>1, <2>3, <2>4
<1>4. CASE ObserveLast
  <2>1. /\ pc = "observe" /\ todo = {} /\ pc \in Acting
        /\ UNCHANGED <<todo, expected, expectedFocus, acted, source, desired, sourceFocus>>
    BY <1>4, <1>a DEF ObserveLast, approved, progress, Acting
  <2>2. \/ acted /\ pc' = "intend-back"
        \/ (~acted \/ sourceFocus = NoWindow) /\ pc' = "verify"
    BY <1>4, <1>a DEF ObserveLast
  <2>3. sourceFocus = NoWindow => ~acted
    BY <2>1 DEF Progress, Typed
  <2> QED
    BY <2>1, <2>2, <2>3 DEF Progress, Before, Placing, Closing
<1>5. CASE Intend
  <2>1. /\ acted' = TRUE
        /\ \/ pc = "intend-focus" /\ pc' = "focus"
           \/ pc = "intend-move" /\ pc' = "move"
           \/ pc = "intend-back" /\ pc' = "back"
        /\ UNCHANGED <<todo, expected, expectedFocus, source, desired, sourceFocus>>
    BY <1>5, <1>a DEF Intend, Intends, approved
  <2>2. pc \in Acting /\ (pc \in Placing <=> pc' \in Placing) /\ (pc \in Closing <=> pc' \in Closing)
    BY <2>1 DEF Acting, Placing, Closing
  <2>3. desired # source
    BY <2>1, <2>2 DEF Progress, Placing, Closing
  <2> QED
    BY <2>1, <2>2, <2>3 DEF Progress, Before
<1>6. CASE Dispatch
  <2>1. UNCHANGED <<todo, acted, source, desired, sourceFocus>>
    BY <1>6 DEF Dispatch, Counted, approved
  <2>2. CASE pc = "focus" /\ pc' = "check-focus" /\ UNCHANGED expected
    <3>1. pc \in Acting /\ acted
      BY <2>2 DEF Progress, Acting, Placing
    <3> QED
      BY <2>1, <2>2, <3>1 DEF Progress, Before, Placing, Closing
  <2>3. CASE /\ pc = "move" /\ pc' = "check-move" /\ UNCHANGED expectedFocus
             /\ \E w \in todo : Foremost(w) /\ expected' = Target(w)
    <3>1. PICK w \in todo : Foremost(w) /\ expected' = Target(w)
      BY <2>3
    <3>2. pc \in Acting
      BY <2>3 DEF Acting, Placing
    <3>3. /\ expected'[w] = desired[w]
          /\ \A u \in Tiled \ todo : expected'[u] = desired[u]
      <4>1. /\ expected \in Order /\ desired \in Order /\ todo \in SUBSET Tiled
            /\ \A u \in todo \ {w} : Before(w, u)
        BY <3>1 DEF Typed, Foremost
      <4>2. \A u \in Tiled \ todo : Before(u, w) /\ expected[u] = desired[u]
        BY <3>2, w \in todo DEF Progress
      <4>3. LET q == Moved(expected, w, desired[w])
            IN  q[w] = desired[w] /\ \A u \in Tiled \ todo : q[u] = desired[u]
        BY <4>1, <4>2, PlacingKeepsPlaced
      <4> QED
        BY <3>1, <4>3 DEF Target
    <3>4. \A v \in todo : Foremost(v) => v = w
      BY <3>1, ForemostUnique DEF Typed
    <3> QED
      BY <2>1, <2>3, <3>2, <3>3, <3>4 DEF Progress, Before, Foremost, Placing, Closing
  <2>4. CASE /\ pc = "back" /\ pc' = "check-back"
             /\ expectedFocus' = sourceFocus /\ UNCHANGED expected
    <3>1. pc \in Acting
      BY <2>4 DEF Acting, Closing
    <3> QED
      BY <2>1, <2>4, <3>1 DEF Progress, Before, Placing, Closing
  <2> QED
    BY <1>6, <2>2, <2>3, <2>4 DEF Dispatch, Expects
<1>9. CASE Check
  <2>0. UNCHANGED <<expected, expectedFocus, acted, source, desired, sourceFocus>>
    BY <1>9, <1>a DEF Check, Checked, approved
  <2>1. CASE pc = "check-focus" /\ pc' = "intend-move" /\ todo' = todo
    <3>1. pc \in Acting
      BY <2>1 DEF Acting, Placing
    <3> QED
      BY <2>0, <2>1, <3>1 DEF Progress, Before, Placing, Closing
  <2>2. CASE pc = "check-move" /\ pc' = "observe" /\ todo' = {u \in todo : ~Foremost(u)}
    <3>1. pc \in Acting
      BY <2>2 DEF Acting, Placing
    <3>2. \A u \in Tiled \ todo' : expected[u] = desired[u] /\ \A v \in todo' : Before(u, v)
      BY <2>2, <3>1 DEF Progress, Foremost
    <3> QED
      BY <2>0, <2>2, <3>1, <3>2 DEF Progress, Before, Placing, Closing
  <2>3. CASE pc = "check-back" /\ pc' = "verify" /\ todo' = todo
    <3>1. pc \in Acting
      BY <2>3 DEF Acting, Closing
    <3> QED
      BY <2>0, <2>3, <3>1 DEF Progress, Before, Placing, Closing
  <2> QED
    BY <1>9, <1>a, <2>1, <2>2, <2>3 DEF Check, Checked
<1>10. CASE Verify
  <2>1. /\ pc = "verify" /\ pc \in Acting /\ Matches
        /\ pc' = IF live = desired THEN "verified" ELSE "partial"
        /\ UNCHANGED <<todo, expected, expectedFocus, acted, source, desired, sourceFocus>>
    BY <1>10, <1>a DEF Verify, approved, progress, Acting
  <2>2. expected = desired
    <3>1. \A u \in Tiled : expected[u] = desired[u]
      BY <2>1 DEF Progress
    <3> QED
      BY <3>1 DEF Typed, Order
  <2>3. pc' = "verified"
    BY <2>1, <2>2 DEF Matches
  <2> QED
    BY <2>1, <2>3 DEF Progress, Before, Placing, Closing
<1>13. CASE Expire \/ User \/ UNCHANGED vars
  <2>1. UNCHANGED <<pc, todo, expected, expectedFocus, acted, source, desired, sourceFocus>>
    BY <1>13 DEF Expire, User, vars, approved, progress
  <2> QED
    BY <2>1 DEF Progress, Before, Foremost
<1>14. ~Begin /\ ~DispatchFails /\ ~Raises /\ ~StoreReceipt /\ ~Crash
  BY <1>0, <1>a DEF Begin, DispatchFails, Raises, StoreReceipt, Crash, Acting, Placing, Closing
<1> QED
  BY <1>2, <1>3, <1>4, <1>5, <1>6, <1>9, <1>10, <1>13, <1>14 DEF Next, Run, Advance

LEMMA FenceStep ==
  ASSUME IInv, [Next]_vars
  PROVE  Fence'
<1> USE DEF IInv, Acting, Placing, Closing
<1>1. CASE Begin
  BY <1>1 DEF Begin, Fence, history
<1>2. CASE Consume
  BY <1>2 DEF Consume, Fenced, Fence, history
<1>3. CASE Observe \/ ObserveLast \/ Check \/ Verify
  <2>1. UNCHANGED <<used, runs, intents, dispatched, effectRuns, late>> /\ pc \in Acting
    BY <1>3 DEF Observe, ObserveLast, Check, Checked, Verify, history
  <2> QED
    BY <2>1 DEF Fence
<1>4. CASE Intend \/ Raises
  <2>1. UNCHANGED <<used, runs, effectRuns>> /\ pc \in Acting
    BY <1>4 DEF Intend, Raises
  <2> QED
    BY <2>1 DEF Fence
<1>5. CASE Dispatch \/ DispatchFails
  <2>1. used' = used /\ runs' = runs /\ effectRuns' = effectRuns \cup {runs} /\ pc \in Acting
    BY <1>5 DEF Dispatch, DispatchFails, Counted, Expects
  <2> QED
    BY <2>1 DEF Fence
<1>6. CASE StoreReceipt \/ Crash
  <2>1. UNCHANGED <<used, runs, intents, dispatched, effectRuns, late>> /\ pc' = "idle"
    BY <1>6 DEF StoreReceipt, Crash, history
  <2> QED
    BY <2>1 DEF Fence
<1>7. CASE Expire \/ User \/ UNCHANGED vars
  <2>1. UNCHANGED <<pc, used, runs, intents, dispatched, effectRuns, late>>
    BY <1>7 DEF Expire, User, vars, history
  <2> QED
    BY <2>1 DEF Fence
<1> QED
  BY <1>1, <1>2, <1>3, <1>4, <1>5, <1>6, <1>7 DEF Next, Run, Advance

LEMMA CountingStep ==
  ASSUME IInv, [Next]_vars
  PROVE  Counting'
<1> USE DEF IInv, Acting, Placing, Closing, Calling
<1>0. intents \in Nat /\ dispatched \in Nat /\ late \in Nat
  BY DEF Typed
<1>1. CASE Begin \/ Crash \/ StoreReceipt
  <2>1. pc' \in {"idle", "consume"} /\ UNCHANGED <<intents, dispatched, late, expired>>
    BY <1>1 DEF Begin, Crash, StoreReceipt, history
  <2> QED
    BY <2>1 DEF Counting
<1>2. CASE Consume
  <2>1. pc' \in {"idle", "observe"} /\ UNCHANGED <<intents, dispatched, late, expired>>
    BY <1>2 DEF Consume, Fenced, history
  <2>2. pc' = "observe" => intents = 0 /\ dispatched = 0
    BY <1>2 DEF Consume, Fenced, Fence
  <2> QED
    BY <2>1, <2>2 DEF Counting
<1>3. CASE Observe \/ ObserveLast \/ Check \/ Verify
  <2>1. /\ UNCHANGED <<intents, dispatched, late, expired>>
        /\ pc \in Acting \ Calling /\ pc' \notin Calling
    BY <1>3 DEF Observe, ObserveLast, Check, Checked, Verify, Stop, history
  <2> QED
    BY <2>1 DEF Counting
<1>4. CASE Intend
  <2>1. pc \in Acting \ Calling /\ UNCHANGED <<dispatched, late, expired>>
    BY <1>4 DEF Intend
  <2>2. CASE InTime
    <3>1. intents' = intents + 1 /\ ~expired /\ pc' \in Calling
      BY <1>4, <2>2 DEF Intend, Intends, IntentStored, InTime
    <3> QED
      BY <1>0, <2>1, <3>1 DEF Counting
  <2>3. CASE ~InTime
    <3>1. intents' = intents /\ pc' = "finish"
      BY <1>4, <2>3 DEF Intend, Intends, Stop
    <3> QED
      BY <1>0, <2>1, <3>1 DEF Counting
  <2> QED
    BY <2>2, <2>3
<1>5. CASE Dispatch \/ DispatchFails
  <2>1. pc \in Calling /\ pc' \in {"check-focus", "check-move", "check-back", "finish"}
    BY <1>5 DEF Dispatch, DispatchFails, Expects, Stop
  <2>2. /\ dispatched' = dispatched + 1 /\ UNCHANGED <<intents, expired>>
        /\ late' = IF expired THEN late + 1 ELSE late
    BY <1>5 DEF Dispatch, DispatchFails, Counted
  <2> QED
    BY <1>0, <2>1, <2>2 DEF Counting
<1>6. CASE Raises
  <2>1. /\ pc \in Acting \ Calling /\ pc' = "finish" /\ UNCHANGED <<dispatched, late, expired>>
        /\ intents' = intents \/ intents' = intents + 1
    BY <1>6 DEF Raises, Stop
  <2> QED
    BY <1>0, <2>1 DEF Counting
<1>7. CASE Expire
  <2>1. UNCHANGED <<pc, intents, dispatched, late>> /\ expired' = TRUE
    BY <1>7 DEF Expire
  <2> QED
    BY <2>1 DEF Counting
<1>8. CASE User \/ UNCHANGED vars
  <2>1. UNCHANGED <<pc, intents, dispatched, late, expired>>
    BY <1>8 DEF User, vars, history
  <2> QED
    BY <2>1 DEF Counting
<1> QED
  BY <1>1, <1>2, <1>3, <1>4, <1>5, <1>6, <1>7, <1>8 DEF Next, Run, Advance

LEMMA TrackingStep ==
  ASSUME IInv, [Next]_vars
  PROVE  Tracking'
<1> USE DEF IInv, Acting, Placing, Closing, Calling
<1>1. CASE Begin \/ Crash \/ StoreReceipt
  <2>1. pc' \in {"idle", "consume"} /\ UNCHANGED <<used, astray>>
    BY <1>1 DEF Begin, Crash, StoreReceipt, history
  <2> QED
    BY <2>1 DEF Tracking
<1>2. CASE Consume
  <2>1. /\ pc' \in {"idle", "observe"} /\ astray' = astray /\ used' = TRUE
        /\ pc' = "observe" => ~used
    BY <1>2 DEF Consume, Fenced, history
  <2> QED
    BY <2>1 DEF Tracking
<1>3. CASE Observe
  <2>1. UNCHANGED <<live, focus, expected, expectedFocus, used, astray>> /\ pc = "observe"
    BY <1>3 DEF Observe, Stop, desktop, progress, history
  <2>2. pc' = "finish" \/ (pc' \in {"observe", "intend-focus"} /\ Matches)
    BY <1>3 DEF Observe, Stop
  <2> QED
    BY <2>1, <2>2 DEF Tracking
<1>4. CASE ObserveLast
  <2>1. UNCHANGED <<live, focus, expected, expectedFocus, used, astray>> /\ pc = "observe"
    BY <1>4 DEF ObserveLast, Stop, desktop, progress, history
  <2>2. pc' \in {"finish", "verify"} \/ (pc' = "intend-back" /\ Matches)
    BY <1>4 DEF ObserveLast, Stop
  <2> QED
    BY <2>1, <2>2 DEF Tracking, Matches
<1>5. CASE Intend
  <2>1. /\ pc \in {"intend-focus", "intend-move", "intend-back"}
        /\ UNCHANGED <<used, astray>> /\ pc' \in Calling \cup {"finish"}
    BY <1>5 DEF Intend, Intends, Stop
  <2> QED
    BY <2>1 DEF Tracking
<1>6. CASE Dispatch \/ DispatchFails
  <2>1. pc \in Calling /\ pc' \in {"check-focus", "check-move", "check-back", "finish"}
    BY <1>6 DEF Dispatch, DispatchFails, Expects, Stop
  <2>2. /\ astray' = IF Matches \/ Matches' THEN 0 ELSE astray + 1
        /\ used' = used /\ used
    BY <1>6, <2>1 DEF Dispatch, DispatchFails, Counted, Fence
  <2>3. astray = 0
    BY <2>1 DEF Tracking
  <2> QED
    BY <2>1, <2>2, <2>3 DEF Tracking
<1>7. CASE Check
  <2>1. /\ UNCHANGED <<live, focus, expected, expectedFocus, used, astray>>
        /\ pc \in {"check-focus", "check-move", "check-back"}
    BY <1>7 DEF Check, Checked, Stop, desktop, progress, history
  <2>2. pc' = "finish" \/ (pc' \in {"intend-move", "observe", "verify"} /\ Matches)
    BY <1>7 DEF Check, Checked, CheckMatches, Stop
  <2> QED
    BY <2>1, <2>2 DEF Tracking
<1>8. CASE Verify
  <2>1. /\ UNCHANGED <<live, focus, expected, expectedFocus, used, astray>> /\ pc = "verify"
        /\ pc' \in {"verified", "partial", "finish"}
    BY <1>8 DEF Verify, Stop, desktop, progress, history
  <2> QED
    BY <2>1 DEF Tracking, Matches
<1>9. CASE Raises
  <2>1. pc' = "finish" /\ UNCHANGED <<used, astray>>
    BY <1>9 DEF Raises, Stop
  <2> QED
    BY <2>1 DEF Tracking
<1>10. CASE User
  <2>1. /\ UNCHANGED <<pc, used>>
        /\ astray' = IF Matches' THEN 0 ELSE astray
    BY <1>10 DEF User
  <2> QED
    BY <2>1 DEF Tracking
<1>11. CASE Expire \/ UNCHANGED vars
  <2>1. UNCHANGED <<pc, live, focus, expected, expectedFocus, used, astray>>
    BY <1>11 DEF Expire, vars, desktop, progress, history
  <2> QED
    BY <2>1 DEF Tracking, Matches
<1> QED
  BY <1>1, <1>2, <1>3, <1>4, <1>5, <1>6, <1>7, <1>8, <1>9, <1>10, <1>11 DEF Next, Run, Advance

LEMMA Invariance == Spec => []IInv
<1>1. IInv /\ [Next]_vars => IInv'
  BY TypedStep, ProgressStep, FenceStep, CountingStep, TrackingStep DEF IInv
<1> QED
  BY <1>1, InitIInv, PTL DEF Spec

-----------------------------------------------------------------------------
\* layout_actions and _reconcile_locked: placing columns in ascending order reaches the desired
\* order, so a run that ends well ends on it, with the focus where the plan found it.
THEOREM VerifiedMeansDesired == Spec => VerifiedIsDesired
<1>1. IInv /\ IInv' /\ [Next]_vars =>
        [/\ pc = "verify" /\ pc' = "verified" => live = desired /\ focus = sourceFocus
         /\ pc' # "partial"]_vars
  <2> SUFFICES ASSUME IInv, IInv', [Next]_vars
               PROVE  /\ pc = "verify" /\ pc' = "verified" => live = desired /\ focus = sourceFocus
                      /\ pc' # "partial"
    OBVIOUS
  <2>1. pc' # "partial"
    BY DEF IInv, Progress, Acting
  <2>2. ASSUME pc = "verify", pc' = "verified" PROVE live = desired /\ focus = sourceFocus
    <3>1. Matches /\ (live = desired)
      BY <2>2 DEF Next, Run, Advance, Begin, Consume, Observe, ObserveLast, Intend, Dispatch, Expects,
                  DispatchFails, Raises, Stop, Check, Checked, Verify, StoreReceipt, Crash,
                  Expire, User, vars
    <3>2. expectedFocus = sourceFocus
      BY <2>2 DEF IInv, Progress, Acting
    <3> QED
      BY <3>1, <3>2 DEF Matches
  <2> QED
    BY <2>1, <2>2
<1> QED
  BY <1>1, Invariance, PTL DEF Spec, VerifiedIsDesired

\* store.consume: one run alone acts under one approval, through crashes and retries.
THEOREM OneRunActs == Spec => []OneRunPerApproval
<1>1. IInv => OneRunPerApproval
  BY DEF IInv, Fence, OneRunPerApproval
<1> QED
  BY <1>1, Invariance, PTL

\* effect: every call has its intent on file, and one intent at most is without its call.
THEOREM IntentsOnFile == Spec => []IntentsCoverCalls
<1>1. IInv => IntentsCoverCalls
  BY DEF IInv, Counting, IntentsCoverCalls
<1> QED
  BY <1>1, Invariance, PTL

\* effect: at most one call is made after the approval expired.
THEOREM ExpiryStops == Spec => []AtMostOneCallLate
<1>1. IInv => AtMostOneCallLate
  BY DEF IInv, Counting, AtMostOneCallLate
<1> QED
  BY <1>1, Invariance, PTL

\* observe_expected: one call at most is made since the desktop was last what the run expects.
THEOREM StrayingStops == Spec => []AtMostOneCallAstray
<1>1. IInv => AtMostOneCallAstray
  BY DEF IInv, Tracking, AtMostOneCallAstray
<1> QED
  BY <1>1, Invariance, PTL

-----------------------------------------------------------------------------
(* The predicted sequence reaches the desired order. *)

\* A set of numbers with 0 and every successor has all of them: the library's theorems of
\* induction take an operator, this one a set.
LEMMA NumberInduction ==
  ASSUME NEW S, 0 \in S, \A n \in Nat : n \in S => n + 1 \in S
  PROVE  Nat \subseteq S
<1> DEFINE R == OpToRel(<, Nat)
           B == Nat \ S
<1>1. \A x, y \in Nat : <<x, y>> \in R <=> x < y
  BY DEF OpToRel
<1>2. IsWellFoundedOn(R, Nat)
  BY NatLessThanWellFounded
<1> HIDE DEF R
<1>3. ASSUME B # {} PROVE FALSE
  <2>1. PICK x \in B : \A y \in B : ~(<<y, x>> \in R)
    BY <1>2, <1>3, WFMin
  <2>2. x # 0 /\ x - 1 \in Nat /\ x - 1 < x
    BY <2>1
  <2>3. x - 1 \in S
    BY <1>1, <2>1, <2>2
  <2> QED
    BY <2>1, <2>2, <2>3
<1> QED
  BY <1>3

\* Of some windows one is handled last.
LEMMA HindmostComesLast ==
  ASSUME desired \in Order, NEW T \in SUBSET Tiled, T # {}
  PROVE  Hindmost(T) \in T /\ \A u \in T \ {Hindmost(T)} : Before(u, Hindmost(T))
<1> DEFINE IsLast(w, U) == w \in U /\ \A u \in U \ {w} : Before(u, w)
           S == {n \in Nat : \A U \in SUBSET Tiled :
                               Cardinality(U) = n /\ U # {} => \E w \in Tiled : IsLast(w, U)}
<1>1. \A w \in Tiled : desired[w] \in Nat /\ home[w] \in Nat
  BY WindowAssumption, ColumnsBounds DEF Order
<1>2. \A u, v \in Tiled : u # v => Before(u, v) \/ Before(v, u)
  <2>1. \A u, v \in Tiled : u # v /\ home[u] = home[v] => desired[u] # desired[v]
    BY DEF Order, Beside
  <2> QED
    BY <1>1, <2>1 DEF Before
<1>3. \A u, v, w \in Tiled : Before(u, v) /\ Before(v, w) => Before(u, w)
  BY <1>1 DEF Before
<1>4. \A U \in SUBSET Tiled : /\ IsFiniteSet(U) /\ Cardinality(U) \in Nat
                             /\ (Cardinality(U) = 0 <=> U = {})
                             /\ \A x \in U : Cardinality(U \ {x}) = Cardinality(U) - 1
  BY WindowAssumption, FS_Subset, FS_CardinalityType, FS_EmptySet, FS_RemoveElement
<1>5. 0 \in S
  BY <1>4
<1>6. ASSUME NEW n \in Nat, n \in S PROVE n + 1 \in S
  <2> SUFFICES ASSUME NEW U \in SUBSET Tiled, Cardinality(U) = n + 1, U # {}
               PROVE  \E w \in Tiled : IsLast(w, U)
    OBVIOUS
  <2>1. PICK x \in U : TRUE
    OBVIOUS
  <2>2. CASE U \ {x} = {}
    BY <2>1, <2>2
  <2>3. CASE U \ {x} # {}
    <3>1. U \ {x} \in SUBSET Tiled /\ Cardinality(U \ {x}) = n
      BY <1>4, <2>1
    <3>2. PICK w \in Tiled : IsLast(w, U \ {x})
      BY <1>6, <2>3, <3>1
    <3>3. CASE Before(x, w)
      BY <3>2, <3>3
    <3>4. CASE Before(w, x)
      <4>1. \A u \in U \ {x} : Before(u, x)
        BY <1>3, <2>1, <3>2, <3>4
      <4> QED
        BY <2>1, <4>1
    <3> QED
      BY <1>2, <2>1, <3>2, <3>3, <3>4
  <2> QED
    BY <2>2, <2>3
<1>7. Cardinality(T) \in S
  <2> HIDE DEF S
  <2> QED
    BY <1>4, <1>5, <1>6, NumberInduction
<1>8. \E w \in Tiled : IsLast(w, T)
  BY <1>7
<1> QED
  BY <1>8 DEF Hindmost

\* The prediction takes one action after the other.
LEMMA PredictedUnfolds ==
  ASSUME desired \in Order
  PROVE  \A T \in SUBSET Tiled :
           predicted[T] = IF T = {} THEN source
                          ELSE Moved(predicted[T \ {Hindmost(T)}], Hindmost(T), desired[Hindmost(T)])
<1> DEFINE D(n) == {T \in SUBSET Tiled : Cardinality(T) <= n}
           onward(p, T) == Moved(p, Hindmost(T), desired[Hindmost(T)])
           S == {n \in Nat : \E g : g = [T \in D(n) |-> IF T = {} THEN source
                                                        ELSE onward(g[T \ {Hindmost(T)}], T)]}
<1>1. \A T \in SUBSET Tiled : /\ Cardinality(T) \in Nat /\ (Cardinality(T) = 0 <=> T = {})
                             /\ Cardinality(T) <= Cardinality(Tiled)
  BY WindowAssumption, FS_Subset, FS_CardinalityType, FS_EmptySet
<1>2. ASSUME NEW T \in SUBSET Tiled, T # {}
      PROVE  Cardinality(T \ {Hindmost(T)}) = Cardinality(T) - 1
  <2>1. Hindmost(T) \in T
    BY <1>2, HindmostComesLast
  <2>2. IsFiniteSet(T)
    BY WindowAssumption, FS_Subset
  <2> QED
    BY <2>1, <2>2, FS_RemoveElement
<1> HIDE DEF onward
<1>3. 0 \in S
  <2> DEFINE g == [T \in D(0) |-> source]
  <2>1. \A T \in D(0) : T = {}
    BY <1>1
  <2>2. g = [T \in D(0) |-> IF T = {} THEN source ELSE onward(g[T \ {Hindmost(T)}], T)]
    BY <2>1
  <2> HIDE DEF g
  <2> QED
    BY <2>2
<1>4. ASSUME NEW n \in Nat, n \in S PROVE n + 1 \in S
  <2>1. PICK g : g = [T \in D(n) |-> IF T = {} THEN source ELSE onward(g[T \ {Hindmost(T)}], T)]
    BY <1>4
  <2> DEFINE f == [T \in D(n + 1) |-> IF T = {} THEN source ELSE onward(g[T \ {Hindmost(T)}], T)]
  <2>2. \A T \in D(n) : T \in D(n + 1)
    BY <1>1
  <2>3. ASSUME NEW T \in D(n) PROVE f[T] = g[T]
    BY <2>1, <2>2
  <2>4. ASSUME NEW T \in D(n + 1), T # {} PROVE T \ {Hindmost(T)} \in D(n)
    BY <1>1, <1>2, <2>4
  <2>5. ASSUME NEW T \in D(n + 1)
        PROVE  f[T] = IF T = {} THEN source ELSE onward(f[T \ {Hindmost(T)}], T)
    <3>1. f[T] = IF T = {} THEN source ELSE onward(g[T \ {Hindmost(T)}], T)
      OBVIOUS
    <3> HIDE DEF f
    <3> QED
      BY <2>3, <2>4, <3>1
  <2>6. f = [T \in D(n + 1) |-> IF T = {} THEN source ELSE onward(f[T \ {Hindmost(T)}], T)]
    BY <2>5
  <2> HIDE DEF f, D
  <2>7. \E h : h = [T \in D(n + 1) |-> IF T = {} THEN source ELSE onward(h[T \ {Hindmost(T)}], T)]
    BY <2>6
  <2>8. n + 1 \in Nat
    OBVIOUS
  <2> QED
    BY <2>7, <2>8, Zenon
<1>5. Cardinality(Tiled) \in Nat /\ D(Cardinality(Tiled)) = SUBSET Tiled
  BY <1>1
<1>6. Cardinality(Tiled) \in S
  <2> HIDE DEF S
  <2> QED
    BY <1>3, <1>4, <1>5, NumberInduction
<1>7. \E g : g = [T \in SUBSET Tiled |-> IF T = {} THEN source
                                         ELSE onward(g[T \ {Hindmost(T)}], T)]
  BY <1>5, <1>6
<1>8. predicted = [T \in SUBSET Tiled |-> IF T = {} THEN source
                                          ELSE onward(predicted[T \ {Hindmost(T)}], T)]
  BY <1>7 DEF predicted, onward
<1> QED
  BY <1>8 DEF onward


\* layout_actions: an admitted plan is never refused for not converging.
LEMMA SourceConverges ==
  ASSUME IInv
  PROVE  Converges
<1>1. source \in Order /\ desired \in Order
  BY DEF IInv, Typed
<1> DEFINE Prefix(T) == \A u \in T, v \in Tiled \ T : Before(u, v)
           Placed(T) == predicted[T] \in Order /\ \A u \in T : predicted[T][u] = desired[u]
           S == {n \in Nat : \A T \in SUBSET Tiled : Cardinality(T) = n /\ Prefix(T) => Placed(T)}
<1>2. \A T \in SUBSET Tiled : /\ IsFiniteSet(T) /\ Cardinality(T) \in Nat
                             /\ (Cardinality(T) = 0 <=> T = {})
                             /\ \A x \in T : Cardinality(T \ {x}) = Cardinality(T) - 1
  BY WindowAssumption, FS_Subset, FS_CardinalityType, FS_EmptySet, FS_RemoveElement
<1>3. 0 \in S
  BY <1>1, <1>2, PredictedUnfolds
<1>4. ASSUME NEW n \in Nat, n \in S PROVE n + 1 \in S
  <2> SUFFICES ASSUME NEW T \in SUBSET Tiled, Cardinality(T) = n + 1, Prefix(T)
               PROVE  Placed(T)
    OBVIOUS
  <2> DEFINE w == Hindmost(T)
             U == T \ {w}
             R == Tiled \ U
  <2>1. T # {}
    BY <1>2
  <2>2. w \in T /\ \A u \in U : Before(u, w)
    BY <1>1, <2>1, HindmostComesLast
  <2>3. predicted[T] = Moved(predicted[U], w, desired[w])
    BY <1>1, <2>1, PredictedUnfolds
  <2> HIDE DEF w
  <2>4. Cardinality(U) = n /\ Prefix(U)
    BY <1>2, <2>2
  <2>5. Placed(U)
    BY <1>4, <2>4
  <2>6. /\ R \in SUBSET Tiled /\ w \in R
        /\ \A u \in R \ {w} : Before(w, u)
        /\ \A u \in Tiled \ R : Before(u, w) /\ predicted[U][u] = desired[u]
        /\ Tiled \ R = U
    BY <2>2, <2>5
  <2> DEFINE p == predicted[U]
             q == Moved(p, w, desired[w])
  <2>7. p \in Order
    BY <2>5
  <2> HIDE DEF p, R
  <2>8. \A u \in Tiled \ R : Before(u, w) /\ p[u] = desired[u]
    BY <2>6 DEF p
  <2>9. q \in Order /\ q[w] = desired[w] /\ \A u \in Tiled \ R : q[u] = desired[u]
    BY <1>1, <2>6, <2>7, <2>8, PlacingKeepsPlaced
  <2>10. predicted[T] = q
    BY <2>3 DEF p
  <2> HIDE DEF q
  <2> QED
    BY <2>2, <2>6, <2>9, <2>10
<1>5. Cardinality(Tiled) \in S
  <2> HIDE DEF S
  <2> QED
    BY <1>2, <1>3, <1>4, NumberInduction
<1>6. predicted[Tiled] = desired
  <2>1. predicted[Tiled] \in Order /\ \A u \in Tiled : predicted[Tiled][u] = desired[u]
    BY <1>2, <1>5
  <2> QED
    BY <1>1, <2>1 DEF Order
<1>7. desired = source => predicted[{}] = desired
  BY <1>1, PredictedUnfolds
<1> QED
  BY <1>6, <1>7 DEF Converges, Actions

-----------------------------------------------------------------------------
(* What niri does with a row of columns is what the planner predicts. *)

\* A row without its element at a.
HoldsRest(rest, row, n, a) ==
  \A i \in 1 .. n - 1 : rest[i] = IF i < a THEN row[i] ELSE row[i + 1]

LEMMA Removed ==
  ASSUME NEW S, NEW n \in Nat, NEW row \in [1 .. n -> S], NEW a \in 1 .. n
  PROVE  /\ RemoveAt(row, a) \in Seq(S) /\ Len(RemoveAt(row, a)) = n - 1
         /\ HoldsRest(RemoveAt(row, a), row, n, a)
<1> DEFINE left == SubSeq(row, 1, a - 1)
           right == SubSeq(row, a + 1, Len(row))
           rest == left \o right
<1>1. row \in Seq(S) /\ Len(row) = n
  OBVIOUS
<1>2. /\ left \in Seq(S) /\ Len(left) = a - 1 /\ \A i \in 1 .. a - 1 : left[i] = row[i]
      /\ right \in Seq(S) /\ Len(right) = n - a /\ \A i \in 1 .. n - a : right[i] = row[a + i]
  <2>1. \A i \in 1 .. a - 1 : row[i] \in S
    OBVIOUS
  <2>2. \A i \in a + 1 .. n : row[i] \in S
    OBVIOUS
  <2>3. /\ left \in Seq(S) /\ Len(left) = a - 1
        /\ \A i \in 1 .. a - 1 : left[i] = row[i]
    <3>1. /\ left \in Seq(S) /\ Len(left) = IF 1 <= a - 1 THEN (a - 1) - 1 + 1 ELSE 0
          /\ \A i \in 1 .. (a - 1) - 1 + 1 : left[i] = row[1 + i - 1]
      BY <2>1, SubSeqProperties
    <3> HIDE DEF left
    <3> QED
      BY <3>1
  <2>4. /\ right \in Seq(S) /\ Len(right) = n - a
        /\ \A i \in 1 .. n - a : right[i] = row[a + i]
    <3>1. /\ right \in Seq(S) /\ Len(right) = IF a + 1 <= n THEN n - (a + 1) + 1 ELSE 0
          /\ \A i \in 1 .. n - (a + 1) + 1 : right[i] = row[(a + 1) + i - 1]
      BY <1>1, <2>2, SubSeqProperties
    <3> HIDE DEF right
    <3> QED
      BY <3>1
  <2> QED
    BY <2>3, <2>4
<1> HIDE DEF left, right
<1>3. /\ rest \in Seq(S) /\ Len(rest) = Len(left) + Len(right)
      /\ \A i \in 1 .. Len(left) + Len(right) :
           rest[i] = IF i <= Len(left) THEN left[i] ELSE right[i - Len(left)]
  BY <1>2, ConcatProperties
<1>4. rest = RemoveAt(row, a)
  BY DEF RemoveAt, left, right
<1> HIDE DEF rest
<1>5. rest \in Seq(S) /\ Len(rest) = n - 1
  BY <1>2, <1>3
<1>6. ASSUME NEW i \in 1 .. n - 1
      PROVE  rest[i] = IF i < a THEN row[i] ELSE row[i + 1]
  <2>1. CASE i < a
    BY <1>2, <1>3, <2>1
  <2>2. CASE i >= a
    <3>1. i - (a - 1) \in 1 .. n - a /\ a + (i - (a - 1)) = i + 1
      BY <2>2
    <3>2. rest[i] = right[i - (a - 1)]
      BY <1>2, <1>3, <2>2
    <3> QED
      BY <1>2, <2>2, <3>1, <3>2
  <2> QED
    BY <2>1, <2>2
<1> QED
  BY <1>4, <1>5, <1>6 DEF HoldsRest

\* A row with e put in at c.
HoldsAlso(after, row, n, c, e) ==
  \A i \in 1 .. n + 1 : after[i] = IF i < c THEN row[i] ELSE IF i = c THEN e ELSE row[i - 1]

LEMMA Inserted ==
  ASSUME NEW S, NEW n \in Nat, NEW row \in [1 .. n -> S], NEW e \in S, NEW c \in 1 .. n + 1
  PROVE  /\ InsertAt(row, c, e) \in Seq(S) /\ Len(InsertAt(row, c, e)) = n + 1
         /\ HoldsAlso(InsertAt(row, c, e), row, n, c, e)
<1> DEFINE front == SubSeq(row, 1, c - 1)
           back == SubSeq(row, c, Len(row))
           one == <<e>>
           head == front \o one
           after == head \o back
<1>1. row \in Seq(S) /\ Len(row) = n
  OBVIOUS
<1>2. /\ front \in Seq(S) /\ Len(front) = c - 1 /\ \A i \in 1 .. c - 1 : front[i] = row[i]
      /\ back \in Seq(S) /\ Len(back) = n + 1 - c /\ \A i \in 1 .. n + 1 - c : back[i] = row[c + i - 1]
  <2>1. \A i \in 1 .. n : row[i] \in S
    OBVIOUS
  <2>2. /\ front \in Seq(S) /\ Len(front) = c - 1
        /\ \A i \in 1 .. c - 1 : front[i] = row[i]
    <3>1. /\ front \in Seq(S) /\ Len(front) = IF 1 <= c - 1 THEN (c - 1) - 1 + 1 ELSE 0
          /\ \A i \in 1 .. (c - 1) - 1 + 1 : front[i] = row[1 + i - 1]
      BY <2>1, SubSeqProperties
    <3> HIDE DEF front
    <3> QED
      BY <3>1
  <2>3. /\ back \in Seq(S) /\ Len(back) = n + 1 - c
        /\ \A i \in 1 .. n + 1 - c : back[i] = row[c + i - 1]
    <3>1. /\ back \in Seq(S) /\ Len(back) = IF c <= n THEN n - c + 1 ELSE 0
          /\ \A i \in 1 .. n - c + 1 : back[i] = row[c + i - 1]
      BY <1>1, <2>1, SubSeqProperties
    <3> HIDE DEF back
    <3> QED
      BY <3>1
  <2> QED
    BY <2>2, <2>3
<1> HIDE DEF front, back
<1>3. one \in Seq(S) /\ Len(one) = 1 /\ one[1] = e
  OBVIOUS
<1>4. after = InsertAt(row, c, e)
  BY DEF InsertAt, front, back
<1> HIDE DEF one
<1>5. /\ head \in Seq(S) /\ Len(head) = Len(front) + Len(one)
      /\ \A i \in 1 .. Len(front) + Len(one) :
           head[i] = IF i <= Len(front) THEN front[i] ELSE one[i - Len(front)]
  BY <1>2, <1>3, ConcatProperties
<1> HIDE DEF head
<1>6. /\ Len(head) = c /\ \A i \in 1 .. c : head[i] = IF i < c THEN row[i] ELSE e
  <2>1. Len(front) = c - 1 /\ Len(one) = 1 /\ one[1] = e /\ Len(head) = c
    BY <1>2, <1>3, <1>5
  <2>2. \A i \in 1 .. c : head[i] = IF i <= c - 1 THEN front[i] ELSE one[i - (c - 1)]
    BY <1>5, <2>1
  <2>3. head[c] = e
    <3>1. c - (c - 1) = 1 /\ ~(c <= c - 1) /\ c \in 1 .. c
      OBVIOUS
    <3> QED
      BY <2>1, <2>2, <3>1
  <2>4. ASSUME NEW i \in 1 .. c, i < c PROVE head[i] = row[i]
    BY <1>2, <2>2, <2>4
  <2> QED
    BY <2>1, <2>3, <2>4
<1>7. /\ after \in Seq(S) /\ Len(after) = Len(head) + Len(back)
      /\ \A i \in 1 .. Len(head) + Len(back) :
           after[i] = IF i <= Len(head) THEN head[i] ELSE back[i - Len(head)]
  <2>1. head \in Seq(S) /\ back \in Seq(S)
    BY <1>2, <1>5
  <2> QED
    BY <2>1, ConcatProperties
<1> HIDE DEF after
<1>8. after \in Seq(S) /\ Len(after) = n + 1
  BY <1>2, <1>6, <1>7
<1>9. ASSUME NEW i \in 1 .. n + 1
      PROVE  after[i] = IF i < c THEN row[i] ELSE IF i = c THEN e ELSE row[i - 1]
  <2>1. CASE i <= c
    BY <1>2, <1>6, <1>7, <2>1
  <2>2. CASE i > c
    <3>1. i - c \in 1 .. n + 1 - c /\ c + (i - c) - 1 = i - 1
      BY <2>2
    <3>2. after[i] = back[i - c]
      BY <1>2, <1>6, <1>7, <2>2
    <3>3. back[i - c] = row[i - 1]
      BY <1>2, <3>1
    <3> QED
      BY <2>2, <3>2, <3>3
  <2> QED
    BY <2>1, <2>2
<1> QED
  BY <1>4, <1>8, <1>9 DEF HoldsAlso

\* The row with the element at a taken out and put back at c, and where that leaves i's.
Reinsert(row, a, c) == InsertAt(RemoveAt(row, a), c, row[a])
Closed(i, a) == IF i > a THEN i - 1 ELSE i
Place(i, a, c) == IF Closed(i, a) >= c THEN Closed(i, a) + 1 ELSE Closed(i, a)

Lands(after, row, n, a, c) ==
  /\ DOMAIN after = 1 .. n /\ after[c] = row[a]
  /\ \A i \in 1 .. n : i # a => Place(i, a, c) \in 1 .. n /\ after[Place(i, a, c)] = row[i]
  /\ \A j \in 1 .. n : j # c => \E i \in 1 .. n : i # a /\ j = Place(i, a, c)

LEMMA Reinserted ==
  ASSUME NEW S, NEW n \in Nat, NEW row \in [1 .. n -> S], NEW a \in 1 .. n, NEW c \in 1 .. n
  PROVE  Reinsert(row, a, c) \in Seq(S) /\ Lands(Reinsert(row, a, c), row, n, a, c)
<1> DEFINE rest == RemoveAt(row, a)
           after == InsertAt(rest, c, row[a])
<1>1. /\ rest \in [1 .. n - 1 -> S] /\ n - 1 \in Nat
      /\ \A i \in 1 .. n - 1 : rest[i] = IF i < a THEN row[i] ELSE row[i + 1]
  <2>1. /\ rest \in Seq(S) /\ Len(rest) = n - 1
        /\ \A i \in 1 .. n - 1 : rest[i] = IF i < a THEN row[i] ELSE row[i + 1]
    BY Removed DEF HoldsRest
  <2>2. n - 1 \in Nat
    OBVIOUS
  <2> HIDE DEF rest
  <2> QED
    BY <2>1, <2>2
<1> HIDE DEF rest
<1>2. /\ after \in Seq(S) /\ Len(after) = n
      /\ \A i \in 1 .. n : after[i] = IF i < c THEN rest[i] ELSE IF i = c THEN row[a] ELSE rest[i - 1]
  <2>1. c \in 1 .. n - 1 + 1 /\ n - 1 + 1 = n /\ row[a] \in S
    OBVIOUS
  <2> HIDE DEF after
  <2>2. /\ after \in Seq(S) /\ Len(after) = n - 1 + 1
        /\ \A i \in 1 .. n - 1 + 1 :
             after[i] = IF i < c THEN rest[i] ELSE IF i = c THEN row[a] ELSE rest[i - 1]
    <3> DEFINE m == n - 1
               e == row[a]
    <3>1. m \in Nat /\ rest \in [1 .. m -> S] /\ c \in 1 .. m + 1 /\ e \in S
      BY <1>1, <2>1
    <3> HIDE DEF m, e
    <3>2. /\ InsertAt(rest, c, e) \in Seq(S) /\ Len(InsertAt(rest, c, e)) = m + 1
          /\ HoldsAlso(InsertAt(rest, c, e), rest, m, c, e)
      BY <3>1, Inserted
    <3> QED
      BY <3>2 DEF after, m, e, HoldsAlso
  <2> QED
    BY <2>1, <2>2
<1>3. after = Reinsert(row, a, c)
  BY DEF Reinsert, rest
<1> HIDE DEF after
<1>4. ASSUME NEW i \in 1 .. n, i # a
      PROVE  Place(i, a, c) \in 1 .. n /\ after[Place(i, a, c)] = row[i]
  <2>1. Closed(i, a) \in 1 .. n - 1 /\ rest[Closed(i, a)] = row[i]
    BY <1>1, <1>4 DEF Closed
  <2> QED
    BY <1>2, <2>1 DEF Place
<1>5. ASSUME NEW j \in 1 .. n, j # c
      PROVE  \E i \in 1 .. n : i # a /\ j = Place(i, a, c)
  <2> DEFINE m == IF j > c THEN j - 1 ELSE j
             i == IF m >= a THEN m + 1 ELSE m
  <2>1. m \in 1 .. n - 1
    BY <1>5
  <2>2. i \in 1 .. n /\ i # a /\ Closed(i, a) = m
    BY <2>1 DEF Closed
  <2>3. Place(i, a, c) = j
    <3> HIDE DEF i
    <3> QED
      BY <1>5, <2>1, <2>2 DEF Place
  <2> QED
    BY <2>2, <2>3
<1>6. DOMAIN after = 1 .. n /\ after[c] = row[a]
  BY <1>2
<1>7. Lands(after, row, n, a, c)
  BY <1>4, <1>5, <1>6 DEF Lands
<1> QED
  BY <1>2, <1>3, <1>7

\* niri's move-column-to-index on the focused column does what expected_after predicts.
LEMMA MovesAsPredicted ==
  ASSUME live \in Order, focus \in Tiled, NEW c \in 1 .. Columns(focus), ColumnTo(c)
  PROVE  live' = Moved(live, focus, c) /\ focus' = focus
<1> DEFINE n == Columns(focus)
           S == Beside(focus)
           a == live[focus]
           row == [i \in 1 .. n |-> CHOOSE v \in S : live[v] = i]
           after == InsertAt(RemoveAt(row, a), c, focus)
<1>1. /\ n \in Nat /\ a \in 1 .. n /\ focus \in S
      /\ \A v \in S : v \in Tiled /\ live[v] \in 1 .. n
      /\ \A u, v \in S : live[u] = live[v] => u = v
      /\ \A i \in 1 .. n : \E v \in S : live[v] = i
  <2>1. \A u \in Tiled : /\ live[u] \in 1 .. Columns(u)
                         /\ \A v \in Beside(u) : live[v] = live[u] => v = u
                         /\ \A k \in 1 .. Columns(u) : \E v \in Beside(u) : live[v] = k
    BY DEF Order
  <2>2. \A v \in S : v \in Tiled /\ Beside(v) = S /\ Columns(v) = n
    BY SameWorkspace
  <2>3. n \in Nat /\ focus \in S
    BY ColumnsBounds DEF Beside
  <2> HIDE DEF n, S
  <2>4. \A u, v \in S : live[u] = live[v] => u = v
    BY <2>1, <2>2
  <2>5. (\A v \in S : live[v] \in 1 .. n) /\ \A i \in 1 .. n : \E v \in S : live[v] = i
    BY <2>1, <2>2, <2>3
  <2> QED
    BY <2>2, <2>3, <2>4, <2>5
<1> HIDE DEF n, S
<1>2. \A i \in 1 .. n : row[i] \in S /\ live[row[i]] = i
  BY <1>1
<1>3. row \in [1 .. n -> S] /\ \A v \in S : row[live[v]] = v
  <2>1. \A v \in S : row[live[v]] = v
    BY <1>1, <1>2
  <2> QED
    BY <1>2, <2>1
<1>4. (IF c < Len(row) THEN c ELSE Len(row)) = c /\ row[a] = focus /\ c \in 1 .. n
  BY <1>1, <1>3 DEF n
<1>5. /\ focus' = focus
      /\ live' = [v \in Tiled |-> IF v \in S THEN CHOOSE i \in DOMAIN after : after[i] = v ELSE live[v]]
  <2> DEFINE index == IF c < Len(row) THEN c ELSE Len(row)
             moved == InsertAt(RemoveAt(row, a), index, focus)
  <2>1. /\ focus' = focus
        /\ live' = [v \in Tiled |-> IF v \in S THEN CHOOSE i \in DOMAIN moved : moved[i] = v
                                   ELSE live[v]]
    BY Zenon DEF ColumnTo, row, n, S
  <2>2. index = c
    BY <1>4
  <2> HIDE DEF index, row
  <2>3. moved = after
    BY <2>2
  <2> HIDE DEF moved, after
  <2> QED
    BY <2>1, <2>3
<1> HIDE DEF row
<1>6. after = Reinsert(row, a, c)
  BY <1>4 DEF Reinsert
<1> HIDE DEF after
<1>7. /\ DOMAIN after = 1 .. n /\ after[c] = focus
      /\ \A i \in 1 .. n : i # a => Place(i, a, c) \in 1 .. n /\ after[Place(i, a, c)] = row[i]
      /\ \A j \in 1 .. n : j # c => \E i \in 1 .. n : i # a /\ j = Place(i, a, c)
  <2> HIDE DEF a
  <2>1. n \in Nat /\ row \in [1 .. n -> S] /\ a \in 1 .. n /\ c \in 1 .. n
    BY <1>1, <1>3, <1>4
  <2>2. Lands(Reinsert(row, a, c), row, n, a, c)
    BY <2>1, Reinserted
  <2> QED
    BY <1>4, <1>6, <2>2 DEF Lands
<1>m. ASSUME NEW v \in Tiled
      PROVE  Moved(live, focus, c)[v] = IF v = focus THEN c ELSE IF v \notin S THEN live[v]
                                                            ELSE Place(live[v], a, c)
  BY DEF Moved, S, Place, Closed
<1>r. \A i \in 1 .. n, v \in S : row[i] = v => i = live[v]
  BY <1>2
<1>8. ASSUME NEW v \in S
      PROVE  (CHOOSE i \in DOMAIN after : after[i] = v) = IF v = focus THEN c ELSE Place(live[v], a, c)
  <2>1. CASE v = focus
    <3>1. \A j \in 1 .. n : after[j] = v => j = c
      <4> SUFFICES ASSUME NEW j \in 1 .. n, after[j] = focus, j # c PROVE FALSE
        BY <2>1
      <4>1. PICK i \in 1 .. n : i # a /\ j = Place(i, a, c)
        BY <1>7
      <4>2. row[i] = focus
        BY <1>7, <4>1
      <4> QED
        BY <1>1, <1>r, <4>1, <4>2
    <3> QED
      BY <1>4, <1>7, <2>1, <3>1
  <2>2. CASE v # focus
    <3>1. after[Place(live[v], a, c)] = v
      BY <1>1, <1>3, <1>7, <2>2
    <3>2. \A j \in 1 .. n : after[j] = v => j = Place(live[v], a, c)
      <4> SUFFICES ASSUME NEW j \in 1 .. n, after[j] = v PROVE j = Place(live[v], a, c)
        OBVIOUS
      <4>1. PICK i \in 1 .. n : i # a /\ j = Place(i, a, c)
        BY <1>7, <2>2
      <4>2. row[i] = v
        BY <1>7, <4>1
      <4> QED
        BY <1>r, <4>1, <4>2
    <3> QED
      BY <1>1, <1>7, <2>2, <3>1, <3>2
  <2> QED
    BY <2>1, <2>2
<1>9. \A v \in Tiled : live'[v] = Moved(live, focus, c)[v]
  BY <1>1, <1>5, <1>8, <1>m
<1> QED
  BY <1>5, <1>9 DEF Moved

-----------------------------------------------------------------------------
(* A run nobody disturbs. *)

\* From the moment the window is focused the run expects the focus on the window it moves.
Aimed ==
  pc \in {"check-focus", "intend-move", "move"} => \A w \in todo : Foremost(w) => expectedFocus = w

\* As long as nobody acts and no call fails, the desktop is what the run expects throughout.
Calm ==
  ~disturbed =>
    /\ receipt \in {"none", "layout-verified"} /\ pc # "finish" /\ ~expired
    /\ pc = "consume" => live = source /\ focus = sourceFocus
    /\ pc \in Acting => Matches

LEMMA AimedStep ==
  ASSUME IInv, Aimed, [Next]_vars
  PROVE  Aimed'
<1> DEFINE Aiming == {"check-focus", "intend-move", "move"}
<1>1. desired' = desired
  BY DEF Next, Run, Advance, Begin, Consume, Observe, ObserveLast, Intend, Dispatch, DispatchFails,
         Raises, Check, Checked, Verify, StoreReceipt, Crash, Expire, User, Counted, approved, vars
<1>2. ASSUME todo' = todo, NEW w
      PROVE  Foremost(w)' <=> Foremost(w)
  BY <1>1, <1>2 DEF Foremost, Before
<1>3. CASE pc' \notin Aiming
  BY <1>3 DEF Aimed
<1>4. CASE /\ pc' \in Aiming /\ pc \in Aiming
           /\ todo' = todo /\ expectedFocus' = expectedFocus
  BY <1>2, <1>4 DEF Aimed
<1>5. CASE pc = "focus" /\ Dispatch
  <2>1. todo' = todo /\ \E w \in todo : Foremost(w) /\ expectedFocus' = w
    BY <1>5 DEF Dispatch, Expects
  <2>2. PICK w \in todo : Foremost(w) /\ expectedFocus' = w
    BY <2>1
  <2>3. ASSUME NEW u \in todo, Foremost(u) PROVE expectedFocus' = u
    BY <2>2, <2>3, ForemostUnique DEF IInv, Typed
  <2> QED
    BY <1>2, <2>1, <2>3 DEF Aimed
<1>6. \/ pc' \notin Aiming
      \/ pc' \in Aiming /\ pc \in Aiming /\ todo' = todo /\ expectedFocus' = expectedFocus
      \/ pc = "focus" /\ Dispatch
  <2>1. CASE Begin \/ Consume \/ Observe \/ ObserveLast
    BY <2>1 DEF Begin, Consume, Fenced, Observe, ObserveLast, Stop, progress
  <2>2. CASE Intend
    BY <2>2 DEF Intend, Intends, Stop, progress
  <2>3. CASE Dispatch
    BY <2>3 DEF Dispatch, Expects
  <2>4. CASE DispatchFails \/ Raises
    BY <2>4 DEF DispatchFails, Raises, Stop
  <2>5. CASE Check
    BY <2>5 DEF Check, Checked, Stop, progress
  <2>6. CASE Verify \/ StoreReceipt \/ Crash
    BY <2>6 DEF Verify, StoreReceipt, Crash, Stop
  <2>7. CASE Expire \/ User \/ UNCHANGED vars
    BY <2>7 DEF Expire, User, progress, vars
  <2> QED
    BY <2>1, <2>2, <2>3, <2>4, <2>5, <2>6, <2>7 DEF Next, Run, Advance
<1> QED
  BY <1>3, <1>4, <1>5, <1>6

\* A call has the effect the run expects of it.
LEMMA DispatchMatches ==
  ASSUME IInv, Aimed, Matches, Dispatch
  PROVE  Matches'
<1>1. live \in Order /\ desired \in Order /\ todo \subseteq Tiled
  BY DEF IInv, Typed, Matches
<1>2. CASE pc = "focus"
  <2>1. /\ \E w \in todo : Foremost(w) /\ FocusWindow(w)
        /\ \E w \in todo : Foremost(w) /\ expectedFocus' = w
        /\ expected' = expected
    BY <1>2 DEF Dispatch, Effect, Expects
  <2>2. PICK w \in todo : Foremost(w) /\ FocusWindow(w)
    BY <2>1
  <2>3. PICK u \in todo : Foremost(u) /\ expectedFocus' = u
    BY <2>1
  <2>4. u = w
    BY <1>1, <2>2, <2>3, ForemostUnique
  <2> QED
    BY <2>1, <2>2, <2>3, <2>4 DEF FocusWindow, Matches
<1>3. CASE pc = "move"
  <2>1. /\ \E w \in todo : Foremost(w) /\ ColumnTo(desired[w])
        /\ \E w \in todo : Foremost(w) /\ expected' = Target(w)
        /\ expectedFocus' = expectedFocus
    BY <1>3 DEF Dispatch, Effect, Expects
  <2>2. PICK w \in todo : Foremost(w) /\ ColumnTo(desired[w])
    BY <2>1
  <2>3. PICK u \in todo : Foremost(u) /\ expected' = Target(u)
    BY <2>1
  <2>4. u = w
    BY <1>1, <2>2, <2>3, ForemostUnique
  <2>5. focus = w
    BY <1>3, <2>2 DEF Aimed, Matches
  <2>6. w \in Tiled /\ desired[w] \in 1 .. Columns(w)
    BY <1>1, <2>2 DEF Order
  <2>7. live' = Moved(live, focus, desired[w]) /\ focus' = focus
    BY <1>1, <2>2, <2>5, <2>6, MovesAsPredicted
  <2> QED
    BY <2>1, <2>3, <2>4, <2>5, <2>7 DEF Matches, Target
<1>4. CASE pc = "back"
  BY <1>4 DEF Dispatch, Effect, Expects, FocusWindow, Matches
<1> QED
  BY <1>2, <1>3, <1>4 DEF Dispatch, Effect

LEMMA CalmStep ==
  ASSUME IInv, Aimed, Calm, [Next]_vars
  PROVE  Calm'
<1> SUFFICES ASSUME ~disturbed' PROVE Calm'
  BY DEF Calm
<1> USE DEF Acting, Placing, Closing
<1>1. CASE Begin
  BY <1>1 DEF Begin, Calm, desktop, approved, progress, history
<1>2. CASE Consume
  BY <1>2 DEF Consume, Fenced, Calm, Matches, desktop, approved, history
<1>3. CASE Observe
  <2>1. CASE Matches
    BY <1>3, <2>1 DEF Observe, Calm, Matches, desktop, approved, history
  <2>2. CASE ~Matches
    BY <1>3, <2>2 DEF Observe, Calm, history
  <2> QED
    BY <2>1, <2>2
<1>4. CASE ObserveLast
  BY <1>4 DEF ObserveLast, Calm, Matches, desktop, approved, progress, history
<1>5. CASE Intend
  <2>1. /\ ~disturbed /\ UNCHANGED <<live, focus, expected, expectedFocus, receipt, expired>>
        /\ pc \in {"intend-focus", "intend-move", "intend-back"}
        /\ pc' \in {"focus", "move", "back"} \/ expired
    BY <1>5 DEF Intend, Intends, InTime, desktop, progress, Stop
  <2> QED
    BY <2>1 DEF Calm, Matches
<1>6. CASE Dispatch
  <2>1. /\ ~disturbed /\ UNCHANGED <<receipt, expired>> /\ pc \in Acting
        /\ pc' \in {"check-focus", "check-move", "check-back"}
    BY <1>6 DEF Dispatch, Expects, Counted
  <2>2. Matches'
    BY <1>6, <2>1, DispatchMatches DEF Calm
  <2> QED
    BY <2>1, <2>2 DEF Calm
<1>7. CASE DispatchFails \/ Raises \/ Expire \/ User
  BY <1>7 DEF DispatchFails, Raises, Expire, User
<1>8. CASE Check
  BY <1>8 DEF Check, Checked, CheckMatches, Calm, Matches, desktop, approved, history
<1>9. CASE Verify
  BY <1>9 DEF Verify, Calm, Matches, desktop, approved, progress, history
<1>10. CASE StoreReceipt
  BY <1>10 DEF StoreReceipt, Calm, IInv, Progress, desktop, approved, progress, history
<1>11. CASE Crash
  BY <1>11 DEF Crash, Calm, desktop, approved, progress, history
<1>12. CASE UNCHANGED vars
  BY <1>12 DEF vars, Calm, Matches, desktop, approved, progress, history
<1> QED
  BY <1>1, <1>2, <1>3, <1>4, <1>5, <1>6, <1>7, <1>8, <1>9, <1>10, <1>11, <1>12
  DEF Next, Run, Advance

\* layout_actions and _reconcile_locked: no plan is refused for not converging, and a run that
\* nobody disturbs and no call fails in stores no receipt but `layout-verified`.
THEOREM UndisturbedVerifies == Spec => []UndisturbedRunVerifies
<1>1. Init => Aimed /\ Calm
  <2> SUFFICES ASSUME Init PROVE Aimed /\ Calm
    OBVIOUS
  <2>1. pc = "idle" /\ pc \notin Acting
    BY DEF Init, Acting, Placing, Closing
  <2> QED
    BY <2>1 DEF Init, Aimed, Calm
<1>2. IInv /\ Aimed /\ Calm /\ [Next]_vars => Aimed' /\ Calm'
  BY AimedStep, CalmStep
<1>3. IInv /\ Calm => UndisturbedRunVerifies
  BY SourceConverges DEF Calm, EndsVerified, UndisturbedRunVerifies
<1> QED
  BY <1>1, <1>2, <1>3, Invariance, PTL DEF Spec
-----------------------------------------------------------------------------
(* Sorted lists and rows of columns. *)

Ascends(q, T, key) ==
  /\ q \in [1 .. Cardinality(T) -> T]
  /\ \A i, j \in DOMAIN q : i < j => key[q[i]] < key[q[j]]

\* Of finitely many things one has the largest key.
LEMMA HasLargest ==
  ASSUME NEW S, NEW key \in [S -> Nat]
  PROVE  \A T \in SUBSET S : IsFiniteSet(T) /\ T # {} => \E m \in T : \A x \in T : key[x] <= key[m]
<1> DEFINE Largest(T) == \E m \in T : \A x \in T : key[x] <= key[m]
           X == {n \in Nat : \A T \in SUBSET S :
                               IsFiniteSet(T) /\ Cardinality(T) = n /\ T # {} => Largest(T)}
<1>1. 0 \in X
  BY FS_EmptySet
<1>2. ASSUME NEW n \in Nat, n \in X PROVE n + 1 \in X
  <2> SUFFICES ASSUME NEW T \in SUBSET S, IsFiniteSet(T), Cardinality(T) = n + 1, T # {}
               PROVE  Largest(T)
    OBVIOUS
  <2>1. PICK x \in T : TRUE
    OBVIOUS
  <2> DEFINE U == T \ {x}
  <2>2. IsFiniteSet(U) /\ Cardinality(U) = n /\ U \in SUBSET S
    <3> HIDE DEF X
    <3>1. IsFiniteSet(U) /\ Cardinality(U) = Cardinality(T) - 1
      BY <2>1, FS_RemoveElement
    <3> QED
      BY <3>1
  <2>3. CASE U = {}
    BY <2>1, <2>3
  <2>4. CASE U # {}
    <3>1. Largest(U)
      BY <1>2, <2>2, <2>4
    <3>2. PICK m \in U : \A y \in U : key[y] <= key[m]
      BY <3>1
    <3>3. key[m] \in Nat /\ \A y \in T : key[y] \in Nat
      BY <3>2
    <3> HIDE DEF X
    <3>4. CASE key[x] <= key[m]
      BY <3>2, <3>3, <3>4
    <3>5. CASE ~(key[x] <= key[m])
      BY <2>1, <3>2, <3>3, <3>5
    <3> QED
      BY <3>4, <3>5
  <2> QED
    BY <2>3, <2>4
<1> HIDE DEF X, Largest
<1>3. Nat \subseteq X
  BY <1>1, <1>2, NumberInduction
<1>4. \A T \in SUBSET S : IsFiniteSet(T) /\ T # {} => Largest(T)
  BY <1>3, FS_CardinalityType DEF X
<1> QED
  BY <1>4 DEF Largest

\* What has different keys can be listed by them.
LEMMA CanBeListed ==
  ASSUME NEW S, NEW key \in [S -> Nat], \A x, y \in S : key[x] = key[y] => x = y
  PROVE  \A T \in SUBSET S : IsFiniteSet(T) => \E q : Ascends(q, T, key)
<1> DEFINE X == {n \in Nat : \A T \in SUBSET S :
                               IsFiniteSet(T) /\ Cardinality(T) = n => \E q : Ascends(q, T, key)}
<1>1. 0 \in X
  <2> SUFFICES ASSUME NEW T \in SUBSET S, IsFiniteSet(T), Cardinality(T) = 0
               PROVE  \E q : Ascends(q, T, key)
    OBVIOUS
  <2>1. Ascends([i \in 1 .. 0 |-> i], T, key)
    BY DEF Ascends
  <2> QED
    BY <2>1
<1>2. ASSUME NEW n \in Nat, n \in X PROVE n + 1 \in X
  <2> SUFFICES ASSUME NEW T \in SUBSET S, IsFiniteSet(T), Cardinality(T) = n + 1
               PROVE  \E q : Ascends(q, T, key)
    OBVIOUS
  <2>1. PICK m \in T : \A x \in T : key[x] <= key[m]
    BY HasLargest, FS_EmptySet
  <2> DEFINE U == T \ {m}
  <2>2. IsFiniteSet(U) /\ Cardinality(U) = n /\ U \in SUBSET S
    <3> HIDE DEF X
    <3>1. IsFiniteSet(U) /\ Cardinality(U) = Cardinality(T) - 1
      BY <2>1, FS_RemoveElement
    <3> QED
      BY <3>1
  <2>3. PICK q : Ascends(q, U, key)
    BY <1>2, <2>2
  <2>4. \A x \in U : key[x] < key[m]
    <3> HIDE DEF X
    <3> QED
      BY <2>1
  <2> DEFINE r == [i \in 1 .. n + 1 |-> IF i = n + 1 THEN m ELSE q[i]]
  <2> HIDE DEF X
  <2>5. q \in [1 .. n -> U] /\ \A i, j \in 1 .. n : i < j => key[q[i]] < key[q[j]]
    BY <2>2, <2>3 DEF Ascends
  <2>6. r \in [1 .. n + 1 -> T]
    BY <2>5
  <2>7. \A i, j \in 1 .. n + 1 : i < j => key[r[i]] < key[r[j]]
    BY <2>4, <2>5
  <2>8. Ascends(r, T, key)
    BY <2>6, <2>7 DEF Ascends
  <2> QED
    BY <2>8
<1> HIDE DEF X
<1>3. Nat \subseteq X
  BY <1>1, <1>2, NumberInduction
<1> QED
  BY <1>3, FS_CardinalityType DEF X

\* InOrder lists everything once.
LEMMA InOrderLists ==
  ASSUME NEW T, IsFiniteSet(T), NEW key \in [T -> Nat], \A x, y \in T : key[x] = key[y] => x = y
  PROVE  /\ InOrder(T, key) \in Seq(T) /\ Len(InOrder(T, key)) = Cardinality(T)
         /\ \A i, j \in DOMAIN InOrder(T, key) : InOrder(T, key)[i] = InOrder(T, key)[j] => i = j
         /\ \A x \in T : \E i \in DOMAIN InOrder(T, key) : InOrder(T, key)[i] = x
<1> DEFINE q == InOrder(T, key)
           n == Cardinality(T)
<1>1. \E r : Ascends(r, T, key)
  BY CanBeListed
<1>2. Ascends(q, T, key)
  BY <1>1 DEF Ascends, InOrder
<1>3. n \in Nat /\ q \in [1 .. n -> T] /\ DOMAIN q = 1 .. n
  BY <1>2, FS_CardinalityType DEF Ascends
<1> HIDE DEF q, n
<1>4. \A i, j \in DOMAIN q : q[i] = q[j] => i = j
  <2> SUFFICES ASSUME NEW i \in 1 .. n, NEW j \in 1 .. n, q[i] = q[j], i < j PROVE FALSE
    BY <1>3
  <2>1. key[q[i]] < key[q[j]] /\ key[q[i]] \in Nat
    BY <1>2, <1>3 DEF Ascends
  <2> QED
    BY <2>1
<1>5. q \in Injection(1 .. n, T)
  BY <1>3, <1>4 DEF Injection, IsInjective
<1>6. IsFiniteSet(1 .. n) /\ Cardinality(1 .. n) = n
  BY <1>3, FS_Interval
<1>7. q \in Surjection(1 .. n, T)
  BY <1>5, <1>6, FS_Injection DEF n
<1>8. \A x \in T : \E i \in DOMAIN q : q[i] = x
  BY <1>3, <1>7 DEF Surjection
<1>9. q \in Seq(T) /\ Len(q) = n
  BY <1>3
<1> QED
  BY <1>4, <1>8, <1>9 DEF q, n
-----------------------------------------------------------------------------
(* The columns of a workspace while arrange_workspace rebuilds them: some stand in front, *)
(* each of the loose windows is a column of its own behind them.                           *)

Stands(cs, front, loose) ==
  /\ Len(front) <= Len(cs) /\ \A i \in 1 .. Len(front) : cs[i] = front[i]
  /\ \A i \in Len(front) + 1 .. Len(cs) : \E w \in loose : cs[i] = <<w>>
  /\ \A w \in loose : \E i \in Len(front) + 1 .. Len(cs) : cs[i] = <<w>>
  /\ Once(cs)

\* Columns that are different columns of a workspace hold each window once.
LEMMA OnceStill ==
  ASSUME NEW cs, Once(cs), NEW r, NEW f \in [DOMAIN r -> DOMAIN cs],
         \A i, j \in DOMAIN r : f[i] = f[j] => i = j, \A i \in DOMAIN r : r[i] = cs[f[i]]
  PROVE  Once(r)
<1> SUFFICES ASSUME NEW i \in DOMAIN r, NEW j \in DOMAIN r, NEW m \in DOMAIN r[i], NEW n \in DOMAIN r[j],
                    r[i][m] = r[j][n]
             PROVE  i = j /\ m = n
  BY DEF Once
<1>1. f[i] \in DOMAIN cs /\ f[j] \in DOMAIN cs /\ m \in DOMAIN cs[f[i]] /\ n \in DOMAIN cs[f[j]]
  OBVIOUS
<1>2. f[i] = f[j] /\ m = n
  BY <1>1 DEF Once
<1> QED
  BY <1>2

\* A window's column is the one it is in.
LEMMA ColumnIs ==
  ASSUME NEW cs, Once(cs), NEW i \in DOMAIN cs, NEW w \in ToSet(cs[i])
  PROVE  ColumnOf(cs, w) = i
<1>1. PICK m \in DOMAIN cs[i] : cs[i][m] = w
  BY DEF ToSet
<1>2. ASSUME NEW j \in DOMAIN cs, w \in ToSet(cs[j]) PROVE j = i
  <2>1. PICK n \in DOMAIN cs[j] : cs[j][n] = w
    BY <1>2 DEF ToSet
  <2> QED
    BY <1>1, <2>1 DEF Once
<1> QED
  BY <1>2 DEF ColumnOf

\* niri's column of a loose window; the columns behind those in front are the other ones'.
LooseRest(cs, front, loose, w) ==
  \A i \in Len(front) + 1 .. Len(cs) : i # ColumnOf(cs, w) => \E v \in loose \ {w} : cs[i] = <<v>>

LEMMA LooseColumn ==
  ASSUME NEW W, NEW cs \in Seq(Seq(W)), NEW front, Len(front) \in Nat, NEW loose,
         Stands(cs, front, loose), NEW w \in loose
  PROVE  /\ ColumnOf(cs, w) \in Len(front) + 1 .. Len(cs) /\ cs[ColumnOf(cs, w)] = <<w>>
         /\ LooseRest(cs, front, loose, w)
<1>1. PICK i \in Len(front) + 1 .. Len(cs) : cs[i] = <<w>>
  BY DEF Stands
<1>2. i \in DOMAIN cs /\ w \in ToSet(cs[i])
  <2>1. w = cs[i][1] /\ 1 \in DOMAIN cs[i]
    BY <1>1
  <2> QED
    BY <2>1 DEF ToSet
<1>3. ColumnOf(cs, w) = i
  BY <1>2, ColumnIs DEF Stands
<1>4. ASSUME NEW j \in Len(front) + 1 .. Len(cs), j # i PROVE \E v \in loose \ {w} : cs[j] = <<v>>
  <2>1. PICK v \in loose : cs[j] = <<v>>
    BY DEF Stands
  <2>2. v # w
    <3>1. cs[j][1] = v /\ cs[i][1] = w /\ 1 \in DOMAIN cs[i] /\ 1 \in DOMAIN cs[j] /\ j \in DOMAIN cs
      BY <1>1, <2>1
    <3> QED
      BY <1>2, <1>4, <3>1 DEF Stands, Once
  <2> QED
    BY <2>1, <2>2
<1> QED
  BY <1>1, <1>3, <1>4 DEF LooseRest

\* The columns with a new one at c.
LandsAt(r, cs, c, w) ==
  /\ c \in DOMAIN r /\ r[c] = <<w>> /\ Len(r) = Len(cs) + 1
  /\ \A i \in DOMAIN cs : i < c => r[i] = cs[i]

\* A window that lands behind the columns in front is one loose window more.
LEMMA ArriveStands ==
  ASSUME NEW W, NEW cs \in Seq(Seq(W)), NEW front, Len(front) \in Nat, NEW loose,
         Stands(cs, front, loose), NEW w \in W, w \notin Windows(cs), NEW c \in Len(front) + 1 .. Len(cs) + 1
  PROVE  /\ InsertAt(cs, c, <<w>>) \in Seq(Seq(W))
         /\ Stands(InsertAt(cs, c, <<w>>), front, loose \cup {w})
         /\ LandsAt(InsertAt(cs, c, <<w>>), cs, c, w)
<1> DEFINE n == Len(cs)
           r == InsertAt(cs, c, <<w>>)
<1>1. n \in Nat /\ cs \in [1 .. n -> Seq(W)] /\ DOMAIN cs = 1 .. n /\ <<w>> \in Seq(W) /\ c \in 1 .. n + 1
  OBVIOUS
<1>2. r \in Seq(Seq(W)) /\ Len(r) = n + 1 /\ HoldsAlso(r, cs, n, c, <<w>>)
  <2> HIDE DEF n
  <2> QED
    BY <1>1, Inserted
<1> HIDE DEF r, n
<1>3. DOMAIN r = 1 .. n + 1 /\ r[c] = <<w>> /\ (\A i \in 1 .. n : i >= c => r[i + 1] = cs[i])
      /\ (\A i \in 1 .. n : i < c => r[i] = cs[i])
  BY <1>1, <1>2 DEF HoldsAlso
<1>4. Once(r)
  <2> SUFFICES ASSUME NEW i \in DOMAIN r, NEW j \in DOMAIN r, NEW a \in DOMAIN r[i], NEW b \in DOMAIN r[j],
                      r[i][a] = r[j][b]
               PROVE  i = j /\ a = b
    BY DEF Once
  <2> DEFINE Old(x) == IF x < c THEN x ELSE x - 1
  <2>1. \A x \in DOMAIN r : x # c => Old(x) \in DOMAIN cs /\ r[x] = cs[Old(x)]
    <3> SUFFICES ASSUME NEW x \in 1 .. n + 1, x # c PROVE Old(x) \in 1 .. n /\ r[x] = cs[Old(x)]
      BY <1>1, <1>3
    <3>1. CASE x < c
      BY <1>1, <1>3, <3>1
    <3>2. CASE x > c
      <4>1. x - 1 \in 1 .. n /\ x - 1 >= c /\ x - 1 + 1 = x /\ Old(x) = x - 1
        BY <1>1, <3>2
      <4> QED
        BY <1>3, <4>1
    <3> QED
      BY <1>1, <3>1, <3>2
  <2>2. \A x \in DOMAIN cs : \A y \in DOMAIN cs[x] : cs[x][y] # w
    BY DEF Windows, ToSet
  <2>3. DOMAIN r[c] = {1} /\ r[c][1] = w
    BY <1>3
  <2> HIDE DEF Old
  <2>4. \A x \in DOMAIN r : x # c => \A y \in DOMAIN r[x] : r[x][y] # w
    BY <2>1, <2>2
  <2>5. CASE i = c \/ j = c
    BY <2>3, <2>4, <2>5
  <2>6. CASE i # c /\ j # c
    <3>1. Old(i) \in DOMAIN cs /\ Old(j) \in DOMAIN cs /\ r[i] = cs[Old(i)] /\ r[j] = cs[Old(j)]
      BY <2>1, <2>6
    <3>2. Old(i) = Old(j) /\ a = b
      BY <3>1 DEF Stands, Once
    <3> QED
      BY <1>3, <2>6, <3>2 DEF Old
  <2> QED
    BY <2>5, <2>6
<1>5. Len(front) <= Len(r) /\ \A i \in 1 .. Len(front) : r[i] = front[i]
  <2>1. Len(front) <= n /\ \A i \in 1 .. Len(front) : cs[i] = front[i]
    BY DEF Stands, n
  <2>2. Len(front) <= Len(r)
    BY <1>1, <1>2, <2>1
  <2> SUFFICES ASSUME NEW i \in 1 .. Len(front) PROVE r[i] = front[i]
    BY <2>2
  <2>3. i \in 1 .. n /\ i < c
    BY <1>1, <2>1
  <2> QED
    BY <1>3, <2>1, <2>3
<1>6. ASSUME NEW i \in Len(front) + 1 .. Len(r) PROVE \E v \in loose \cup {w} : r[i] = <<v>>
  <2>1. CASE i = c
    BY <1>3, <2>1
  <2>2. CASE i < c
    <3>1. i \in Len(front) + 1 .. Len(cs) /\ i \in 1 .. n
      BY <1>1, <1>6, <2>2 DEF n
    <3>2. r[i] = cs[i] /\ \E v \in loose : cs[i] = <<v>>
      BY <1>3, <2>2, <3>1 DEF Stands
    <3> QED
      BY <3>2
  <2>3. CASE i > c
    <3>1. i - 1 \in Len(front) + 1 .. Len(cs) /\ i - 1 \in 1 .. n /\ i - 1 >= c /\ i - 1 + 1 = i
      BY <1>1, <1>2, <1>6, <2>3 DEF n
    <3>2. r[i] = cs[i - 1] /\ \E v \in loose : cs[i - 1] = <<v>>
      BY <1>3, <3>1 DEF Stands
    <3> QED
      BY <3>2
  <2> QED
    BY <1>1, <2>1, <2>2, <2>3
<1>7. ASSUME NEW v \in loose \cup {w} PROVE \E i \in Len(front) + 1 .. Len(r) : r[i] = <<v>>
  <2>1. CASE v = w
    BY <1>1, <1>2, <1>3, <2>1 DEF n
  <2>2. CASE v \in loose
    <3>1. PICK i \in Len(front) + 1 .. n : cs[i] = <<v>>
      BY <2>2 DEF Stands, n
    <3>2. i \in 1 .. n /\ i + 1 \in Len(front) + 1 .. Len(r) /\ i \in Len(front) + 1 .. Len(r)
      <4>1. n \in Nat /\ Len(r) = n + 1
        BY <1>1, <1>2
      <4> QED
        BY <4>1
    <3>3. CASE i >= c
      BY <1>3, <3>1, <3>2, <3>3
    <3>4. CASE i < c
      BY <1>3, <3>1, <3>2, <3>4
    <3> QED
      BY <1>1, <3>2, <3>3, <3>4
  <2> QED
    BY <2>1, <2>2
<1>8. Stands(r, front, loose \cup {w})
  BY <1>4, <1>5, <1>6, <1>7 DEF Stands
<1> QED
  BY <1>1, <1>2, <1>3, <1>8 DEF r, n, LandsAt

\* Where the columns come from when the one at a moves left to c.
From(i, a, c) == IF i < c \/ i > a THEN i ELSE IF i = c THEN a ELSE i - 1

CameFrom(after, row, n, a, c) ==
  /\ \A i \in 1 .. n : From(i, a, c) \in 1 .. n /\ after[i] = row[From(i, a, c)]
  /\ \A i, j \in 1 .. n : From(i, a, c) = From(j, a, c) => i = j
  /\ \A i \in 1 .. n : \E j \in 1 .. n : From(j, a, c) = i

LEMMA MovedLeft ==
  ASSUME NEW S, NEW n \in Nat, NEW row \in [1 .. n -> S], NEW a \in 1 .. n, NEW c \in 1 .. a
  PROVE  /\ Reinsert(row, a, c) \in Seq(S) /\ Len(Reinsert(row, a, c)) = n
         /\ CameFrom(Reinsert(row, a, c), row, n, a, c)
<1> DEFINE after == Reinsert(row, a, c)
<1>1. after \in Seq(S) /\ Lands(after, row, n, a, c)
  BY Reinserted
<1> HIDE DEF after
<1>2. Len(after) = n
  BY <1>1 DEF Lands
<1>3. ASSUME NEW i \in 1 .. n PROVE From(i, a, c) \in 1 .. n /\ after[i] = row[From(i, a, c)]
  <2>1. From(i, a, c) \in 1 .. n
    BY DEF From
  <2>2. CASE i = c
    BY <1>1, <2>2 DEF Lands, From
  <2>3. CASE i # c
    <3>1. From(i, a, c) # a /\ Place(From(i, a, c), a, c) = i
      BY <2>3 DEF From, Place, Closed
    <3> QED
      BY <1>1, <2>1, <3>1 DEF Lands
  <2> QED
    BY <2>1, <2>2, <2>3
<1>4. \A i, j \in 1 .. n : From(i, a, c) = From(j, a, c) => i = j
  BY DEF From
<1>5. ASSUME NEW i \in 1 .. n PROVE \E j \in 1 .. n : From(j, a, c) = i
  <2> DEFINE j == IF i < c \/ i > a THEN i ELSE IF i = a THEN c ELSE i + 1
  <2>1. j \in 1 .. n /\ From(j, a, c) = i
    BY DEF From
  <2> QED
    BY <2>1
<1> QED
  BY <1>1, <1>2, <1>3, <1>4, <1>5 DEF after, CameFrom

\* A loose window's column moves right behind those in front.
LEMMA MoveStands ==
  ASSUME NEW W, NEW cs \in Seq(Seq(W)), NEW front, Len(front) \in Nat, NEW loose,
         Stands(cs, front, loose), NEW w \in loose
  PROVE  /\ WithMoved(cs, w, Len(front) + 1) \in Seq(Seq(W))
         /\ Stands(WithMoved(cs, w, Len(front) + 1), front, loose)
         /\ Len(front) + 1 <= Len(WithMoved(cs, w, Len(front) + 1))
         /\ WithMoved(cs, w, Len(front) + 1)[Len(front) + 1] = <<w>>
<1> DEFINE n == Len(cs)
           m == Len(front)
           a == ColumnOf(cs, w)
           r == Reinsert(cs, a, m + 1)
           f == [i \in 1 .. n |-> From(i, a, m + 1)]
<1>1. n \in Nat /\ cs \in [1 .. n -> Seq(W)] /\ DOMAIN cs = 1 .. n /\ m \in Nat
  OBVIOUS
<1>2. a \in m + 1 .. n /\ cs[a] = <<w>>
  BY LooseColumn
<1>3. a \in 1 .. n /\ m + 1 \in 1 .. a
  <2> HIDE DEF a, n, m
  <2> QED
    BY <1>1, <1>2
<1>4. WithMoved(cs, w, m + 1) = r
  <2>1. (IF m + 1 < n THEN m + 1 ELSE n) = m + 1
    <3> HIDE DEF a, n, m
    <3> QED
      BY <1>1, <1>2
  <2>2. WithMoved(cs, w, m + 1) = InsertAt(RemoveAt(cs, a), IF m + 1 < n THEN m + 1 ELSE n, cs[a])
    BY DEF WithMoved
  <2> QED
    BY <2>1, <2>2 DEF Reinsert
<1> HIDE DEF a, r, f
<1>5. r \in Seq(Seq(W)) /\ Len(r) = n /\ CameFrom(r, cs, n, a, m + 1)
  <2> DEFINE c == m + 1
  <2>1. c \in 1 .. a
    BY <1>3
  <2> HIDE DEF n, c
  <2>2. Reinsert(cs, a, c) \in Seq(Seq(W)) /\ Len(Reinsert(cs, a, c)) = n
        /\ CameFrom(Reinsert(cs, a, c), cs, n, a, c)
    BY <1>1, <1>3, <2>1, MovedLeft
  <2> QED
    BY <2>2 DEF r, c
<1>6. /\ DOMAIN r = 1 .. n
      /\ \A i \in 1 .. n : From(i, a, m + 1) \in 1 .. n /\ r[i] = cs[From(i, a, m + 1)]
      /\ \A i, j \in 1 .. n : From(i, a, m + 1) = From(j, a, m + 1) => i = j
      /\ \A i \in 1 .. n : \E j \in 1 .. n : From(j, a, m + 1) = i
  <2>1. DOMAIN r = 1 .. n
    BY <1>5
  <2> HIDE DEF n, m
  <2>2. CameFrom(r, cs, n, a, m + 1)
    BY <1>5
  <2> QED
    BY <2>1, <2>2 DEF CameFrom
<1>7. Once(r)
  <2> HIDE DEF n, m
  <2>1. f \in [DOMAIN r -> DOMAIN cs] /\ (\A i \in DOMAIN r : r[i] = cs[f[i]])
    BY <1>1, <1>6 DEF f
  <2>2. \A i, j \in DOMAIN r : f[i] = f[j] => i = j
    BY <1>6 DEF f
  <2>3. Once(cs)
    BY DEF Stands
  <2> QED
    BY <2>1, <2>2, <2>3, OnceStill
<1>8. m + 1 <= n /\ r[m + 1] = <<w>>
  <2> HIDE DEF n, m
  <2>1. From(m + 1, a, m + 1) = a /\ m + 1 \in 1 .. n
    BY <1>1, <1>2, <1>3 DEF From
  <2> QED
    <3>1. r[m + 1] = cs[From(m + 1, a, m + 1)]
      BY <1>6, <2>1
    <3>2. m + 1 <= n
      BY <1>1, <2>1
    <3> QED
      BY <1>2, <2>1, <3>1, <3>2
<1>9. ASSUME NEW i \in 1 .. m PROVE r[i] = front[i]
  <2>1. i \in 1 .. n /\ From(i, a, m + 1) = i /\ cs[i] = front[i]
    BY <1>8 DEF From, Stands
  <2> QED
    BY <1>6, <2>1
<1>10. ASSUME NEW i \in m + 1 .. n PROVE \E v \in loose : r[i] = <<v>>
  <2>1. i \in 1 .. n /\ From(i, a, m + 1) \in m + 1 .. n
    <3> HIDE DEF n, m
    <3> QED
      BY <1>1, <1>2 DEF From
  <2> QED
    <3>1. r[i] = cs[From(i, a, m + 1)]
      BY <1>6, <2>1
    <3>2. \E v \in loose : cs[From(i, a, m + 1)] = <<v>>
      BY <2>1 DEF Stands
    <3> QED
      BY <3>1, <3>2
<1>11. ASSUME NEW v \in loose PROVE \E i \in m + 1 .. n : r[i] = <<v>>
  <2>1. PICK i \in m + 1 .. n : cs[i] = <<v>>
    BY DEF Stands
  <2>2. PICK j \in 1 .. n : From(j, a, m + 1) = i
    BY <1>6, <2>1
  <2>3. j \in m + 1 .. n
    <3> HIDE DEF n, m
    <3> QED
      BY <1>1, <1>2, <2>1, <2>2 DEF From
  <2> QED
    BY <1>6, <2>1, <2>2, <2>3
<1>12. Stands(r, front, loose)
  <2>1. Len(r) = n
    BY <1>5
  <2> QED
    BY <1>7, <1>8, <1>9, <1>10, <1>11, <2>1 DEF Stands
<1> QED
  BY <1>4, <1>5, <1>8, <1>12

\* The first loose column may as well be counted among those in front.
LEMMA SeedStands ==
  ASSUME NEW W, NEW cs \in Seq(Seq(W)), NEW front \in Seq(Seq(W)), NEW loose,
         Stands(cs, front, loose), NEW w \in loose, w \in W,
         Len(front) + 1 <= Len(cs), cs[Len(front) + 1] = <<w>>
  PROVE  Stands(cs, Append(front, <<w>>), loose \ {w})
<1> DEFINE more == Append(front, <<w>>)
           m == Len(front)
<1>1. m \in Nat /\ Len(more) = m + 1 /\ more[m + 1] = <<w>> /\ \A i \in 1 .. m : more[i] = front[i]
  OBVIOUS
<1>2. ColumnOf(cs, w) = m + 1
  <2>1. m + 1 \in DOMAIN cs /\ w = cs[m + 1][1] /\ 1 \in DOMAIN cs[m + 1]
    BY <1>1
  <2>2. w \in ToSet(cs[m + 1])
    BY <2>1 DEF ToSet
  <2> QED
    BY <2>1, <2>2, ColumnIs DEF Stands
<1> HIDE DEF more
<1>3. Len(more) <= Len(cs) /\ \A i \in 1 .. Len(more) : cs[i] = more[i]
  <2>1. \A i \in 1 .. m : cs[i] = front[i]
    BY DEF Stands
  <2>2. \A i \in 1 .. m + 1 : i \in 1 .. m \/ i = m + 1
    BY <1>1
  <2> QED
    BY <1>1, <2>1, <2>2
<1>4. ASSUME NEW i \in Len(more) + 1 .. Len(cs) PROVE \E v \in loose \ {w} : cs[i] = <<v>>
  <2>1. i \in m + 1 .. Len(cs) /\ i # m + 1
    BY <1>1
  <2>2. LooseRest(cs, front, loose, w)
    BY <1>1, LooseColumn
  <2> QED
    BY <1>2, <2>1, <2>2 DEF LooseRest
<1>5. ASSUME NEW v \in loose \ {w} PROVE \E i \in Len(more) + 1 .. Len(cs) : cs[i] = <<v>>
  <2>1. PICK i \in m + 1 .. Len(cs) : cs[i] = <<v>>
    BY DEF Stands
  <2>2. i # m + 1
    <3>1. <<v>>[1] = v /\ <<w>>[1] = w
      OBVIOUS
    <3> QED
      BY <2>1, <3>1
  <2>3. i \in Len(more) + 1 .. Len(cs)
    <3> HIDE DEF m
    <3> QED
      BY <1>1, <2>1, <2>2
  <2> QED
    BY <2>1, <2>3
<1>6. Stands(cs, more, loose \ {w})
  BY <1>3, <1>4, <1>5 DEF Stands
<1> QED
  BY <1>6 DEF more

\* Two places of one window are one.
LEMMA OncePlace ==
  ASSUME NEW cs, Once(cs), NEW i \in DOMAIN cs, NEW j \in DOMAIN cs,
         NEW x \in DOMAIN cs[i], NEW y \in DOMAIN cs[j], cs[i][x] = cs[j][y]
  PROVE  i = j /\ x = y
  BY DEF Once

\* Where the tile x of column i was before the column after m, one window wide, joined column m
\* of L tiles.
ColumnBefore(m, L, i, x) == IF i > m THEN i + 1 ELSE IF i = m /\ x = L + 1 THEN m + 1 ELSE i
TileBefore(m, L, i, x) == IF i = m /\ x = L + 1 THEN 1 ELSE x

LEMMA PlaceBefore ==
  ASSUME NEW m \in Nat, NEW L, NEW i \in Nat, NEW j \in Nat, NEW x, NEW y,
         ColumnBefore(m, L, i, x) = ColumnBefore(m, L, j, y), TileBefore(m, L, i, x) = TileBefore(m, L, j, y)
  PROVE  i = j /\ x = y
<1>1. CASE i > m
  <2>1. j > m /\ i = j
    BY <1>1 DEF ColumnBefore
  <2> QED
    BY <1>1, <2>1 DEF TileBefore
<1>2. CASE i = m
  <2>1. i = j
    BY <1>2 DEF ColumnBefore
  <2> QED
    BY <1>2, <2>1 DEF ColumnBefore, TileBefore
<1>3. CASE i < m
  <2>1. i = j
    BY <1>3 DEF ColumnBefore
  <2> QED
    BY <1>3, <2>1 DEF TileBefore
<1> QED
  BY <1>1, <1>2, <1>3

\* A loose window right behind the columns in front is consumed into the last of them.
LEMMA ConsumeStands ==
  ASSUME NEW W, NEW cs \in Seq(Seq(W)), NEW front \in Seq(Seq(W)), NEW loose,
         Stands(cs, front, loose), NEW w \in loose, w \in W,
         Len(front) + 1 <= Len(cs), cs[Len(front) + 1] = <<w>>,
         Len(front) > 0, NEW s \in ToSet(front[Len(front)])
  PROVE  /\ WithConsumed(cs, s) \in Seq(Seq(W))
         /\ Stands(WithConsumed(cs, s), [front EXCEPT ![Len(front)] = Append(@, w)], loose \ {w})
<1> DEFINE m == Len(front)
           n == Len(cs)
           L == Len(cs[m])
           joined == [cs EXCEPT ![m] = Append(@, w)]
           r == RemoveAt(joined, m + 1)
           more == [front EXCEPT ![m] = Append(@, w)]
<1>1. /\ m \in Nat /\ n \in Nat /\ m \in 1 .. n /\ m + 1 \in 1 .. n /\ DOMAIN cs = 1 .. n
      /\ cs \in [1 .. n -> Seq(W)] /\ DOMAIN front = 1 .. m
  OBVIOUS
<1>2. cs[m] = front[m] /\ s \in ToSet(cs[m]) /\ L \in Nat /\ cs[m] \in Seq(W) /\ DOMAIN cs[m] = 1 .. L
  <2>1. cs[m] = front[m]
    <3>1. m \in 1 .. Len(front)
      BY <1>1
    <3> QED
      BY <3>1 DEF Stands
  <2>2. cs[m] \in Seq(W)
    BY <1>1
  <2> QED
    BY <2>1, <2>2
<1>3. ColumnOf(cs, s) = m
  BY <1>1, <1>2, ColumnIs DEF Stands
<1>4. cs[m + 1][1] = w /\ Len(cs[m + 1]) = 1
  OBVIOUS
<1>5. WithConsumed(cs, s) = r
  <2> HIDE DEF m, n
  <2>1. m # n
    BY <1>1
  <2>2. WithConsumed(cs, s) = RemoveAt([cs EXCEPT ![m] = Append(@, cs[m + 1][1])], m + 1)
    BY <1>3, <1>4, <2>1 DEF WithConsumed, n
  <2> QED
    BY <1>4, <2>2
<1> HIDE DEF r, more, m, n, L
<1>6. /\ joined \in [1 .. n -> Seq(W)] /\ joined[m] = Append(cs[m], w)
      /\ \A i \in 1 .. n : i # m => joined[i] = cs[i]
  <2>1. Append(cs[m], w) \in Seq(W)
    BY <1>2
  <2> QED
    BY <1>1, <2>1
<1> HIDE DEF joined
<1>7. r \in Seq(Seq(W)) /\ Len(r) = n - 1 /\ HoldsRest(r, joined, n, m + 1)
  BY <1>1, <1>6, Removed DEF r
<1>8. /\ DOMAIN r = 1 .. n - 1 /\ m \in 1 .. n - 1 /\ r[m] = Append(cs[m], w)
      /\ \A i \in 1 .. n - 1 : i < m => r[i] = cs[i]
      /\ \A i \in 1 .. n - 1 : i > m => r[i] = cs[i + 1]
  <2>1. DOMAIN r = 1 .. n - 1 /\ m \in 1 .. n - 1
    BY <1>1, <1>7
  <2>2. \A i \in 1 .. n - 1 : r[i] = IF i < m + 1 THEN joined[i] ELSE joined[i + 1]
    BY <1>7 DEF HoldsRest
  <2>3. r[m] = Append(cs[m], w)
    <3>1. m < m + 1
      BY <1>1
    <3>2. r[m] = joined[m]
      BY <2>1, <2>2, <3>1
    <3> QED
      BY <1>6, <3>2
  <2>4. ASSUME NEW i \in 1 .. n - 1, i < m PROVE r[i] = cs[i]
    <3>1. i \in 1 .. n /\ i # m /\ i < m + 1
      BY <1>1, <2>4
    <3> QED
      BY <1>6, <2>2, <3>1
  <2>5. ASSUME NEW i \in 1 .. n - 1, i > m PROVE r[i] = cs[i + 1]
    <3>1. i + 1 \in 1 .. n /\ i + 1 # m /\ ~(i < m + 1)
      BY <1>1, <2>5
    <3> QED
      BY <1>6, <2>2, <3>1
  <2> QED
    BY <2>1, <2>3, <2>4, <2>5
<1>9. Once(r)
  <2> DEFINE Col(i, x) == ColumnBefore(m, L, i, x)
             Pos(i, x) == TileBefore(m, L, i, x)
  <2>1. /\ DOMAIN r[m] = 1 .. L + 1 /\ r[m][L + 1] = w /\ \A x \in 1 .. L : r[m][x] = cs[m][x]
    <3> DEFINE q == cs[m]
    <3>1. q \in Seq(W) /\ Len(q) = L /\ L \in Nat /\ r[m] = Append(q, w)
      BY <1>2, <1>8 DEF L
    <3> HIDE DEF q
    <3>2. /\ Append(q, w) \in Seq(W) /\ Len(Append(q, w)) = L + 1 /\ Append(q, w)[L + 1] = w
          /\ \A x \in 1 .. L : Append(q, w)[x] = q[x]
      BY <3>1, AppendProperties
    <3> DEFINE p == Append(q, w)
    <3>3. p \in Seq(W) /\ Len(p) = L + 1 /\ p[L + 1] = w /\ \A x \in 1 .. L : p[x] = q[x]
      BY <3>2
    <3>4. r[m] = p
      BY <3>1
    <3> HIDE DEF p
    <3>5. DOMAIN p = 1 .. L + 1
      BY <3>3
    <3> QED
      BY <3>3, <3>4, <3>5 DEF q
  <2>2. DOMAIN cs[m + 1] = {1} /\ cs[m + 1][1] = w
    <3>1. DOMAIN <<w>> = {1}
      OBVIOUS
    <3> QED
      BY <1>4, <3>1 DEF m
  <2>3. m \in Nat /\ \A i \in DOMAIN r : i \in 1 .. n - 1 /\ i \in 1 .. n /\ i + 1 \in 1 .. n /\ i \in Nat
    <3>1. m \in Nat /\ n \in Nat /\ DOMAIN r = 1 .. n - 1
      BY <1>1, <1>8
    <3> QED
      BY <3>1
  <2>4. ASSUME NEW i \in DOMAIN r, NEW x \in DOMAIN r[i]
        PROVE  Col(i, x) \in DOMAIN cs /\ Pos(i, x) \in DOMAIN cs[Col(i, x)] /\ r[i][x] = cs[Col(i, x)][Pos(i, x)]
    <3>1. i \in 1 .. n - 1 /\ i \in 1 .. n /\ i + 1 \in 1 .. n /\ m \in Nat
      BY <2>3
    <3>2. CASE i < m
      <4>1. Col(i, x) = i /\ Pos(i, x) = x
        BY <3>1, <3>2 DEF ColumnBefore, TileBefore
      <4> QED
        BY <1>1, <1>8, <3>1, <3>2, <4>1
    <3>3. CASE i > m
      <4>1. Col(i, x) = i + 1 /\ Pos(i, x) = x
        BY <3>1, <3>3 DEF ColumnBefore, TileBefore
      <4>2. r[i] = cs[i + 1]
        BY <1>8, <3>1, <3>3
      <4> QED
        BY <1>1, <3>1, <4>1, <4>2
    <3>4. CASE i = m /\ x = L + 1
      <4>1. Col(i, x) = m + 1 /\ Pos(i, x) = 1
        BY <3>1, <3>4 DEF ColumnBefore, TileBefore
      <4> QED
        BY <1>1, <2>1, <2>2, <3>4, <4>1
    <3>5. CASE i = m /\ x # L + 1
      <4>1. Col(i, x) = m /\ Pos(i, x) = x
        BY <3>1, <3>5 DEF ColumnBefore, TileBefore
      <4>2. x \in 1 .. L
        BY <1>2, <2>1, <3>5
      <4> QED
        BY <1>1, <1>2, <2>1, <3>5, <4>1, <4>2
    <3> QED
      BY <3>1, <3>2, <3>3, <3>4, <3>5
  <2>5. ASSUME NEW i \in DOMAIN r, NEW x \in DOMAIN r[i], NEW j \in DOMAIN r, NEW y \in DOMAIN r[j],
               Col(i, x) = Col(j, y), Pos(i, x) = Pos(j, y)
        PROVE  i = j /\ x = y
    <3>1. i \in Nat /\ j \in Nat /\ m \in Nat
      BY <2>3
    <3> QED
      BY <2>5, <3>1, PlaceBefore
  <2> HIDE DEF Col, Pos
  <2> SUFFICES ASSUME NEW i \in DOMAIN r, NEW j \in DOMAIN r, NEW x \in DOMAIN r[i], NEW y \in DOMAIN r[j],
                      r[i][x] = r[j][y]
               PROVE  i = j /\ x = y
    BY DEF Once
  <2>6. Col(i, x) = Col(j, y) /\ Pos(i, x) = Pos(j, y)
    <3>1. /\ Col(i, x) \in DOMAIN cs /\ Pos(i, x) \in DOMAIN cs[Col(i, x)] /\ r[i][x] = cs[Col(i, x)][Pos(i, x)]
          /\ Col(j, y) \in DOMAIN cs /\ Pos(j, y) \in DOMAIN cs[Col(j, y)] /\ r[j][y] = cs[Col(j, y)][Pos(j, y)]
      BY <2>4
    <3>2. Once(cs)
      BY DEF Stands
    <3>3. cs[Col(i, x)][Pos(i, x)] = cs[Col(j, y)][Pos(j, y)]
      BY <3>1
    <3> QED
      BY <3>1, <3>2, <3>3, OncePlace
  <2> QED
    BY <2>5, <2>6
<1>10. Len(more) = m /\ more[m] = Append(cs[m], w) /\ \A i \in 1 .. m : i # m => more[i] = front[i]
  <2>1. DOMAIN more = 1 .. m /\ more[m] = Append(front[m], w) /\ \A i \in 1 .. m : i # m => more[i] = front[i]
    BY <1>1 DEF more
  <2>2. Len(more) = m
    BY <1>1, <2>1
  <2> QED
    BY <1>2, <2>1, <2>2
<1>11. ASSUME NEW i \in 1 .. m PROVE r[i] = more[i]
  <2>1. CASE i = m
    BY <1>8, <1>10, <2>1
  <2>2. CASE i # m
    <3>1. i \in 1 .. n - 1 /\ i < m
      BY <1>1, <2>2
    <3>2. cs[i] = front[i]
      BY DEF Stands, m
    <3> QED
      BY <1>8, <1>10, <3>1, <3>2, <2>2
  <2> QED
    BY <2>1, <2>2
<1>12. ColumnOf(cs, w) = m + 1
  <2>1. m + 1 \in DOMAIN cs /\ w = cs[m + 1][1] /\ 1 \in DOMAIN cs[m + 1]
    BY <1>1, <1>4 DEF m
  <2>2. w \in ToSet(cs[m + 1])
    BY <2>1 DEF ToSet
  <2> QED
    BY <2>1, <2>2, ColumnIs DEF Stands
<1>13. ASSUME NEW i \in m + 1 .. n - 1 PROVE \E v \in loose \ {w} : r[i] = <<v>>
  <2>1. i \in 1 .. n - 1 /\ i > m /\ i + 1 \in m + 1 .. n /\ i + 1 # m + 1
    BY <1>1
  <2>2. \E v \in loose \ {w} : cs[i + 1] = <<v>>
    <3>1. Len(front) \in Nat
      OBVIOUS
    <3>2. LooseRest(cs, front, loose, w)
      BY <3>1, LooseColumn
    <3> QED
      BY <1>12, <2>1, <3>2 DEF LooseRest, m, n
  <2> QED
    BY <1>8, <2>1, <2>2
<1>14. ASSUME NEW v \in loose \ {w} PROVE \E i \in m + 1 .. n - 1 : r[i] = <<v>>
  <2>1. PICK i \in m + 1 .. n : cs[i] = <<v>>
    BY DEF Stands, m, n
  <2>2. i # m + 1
    <3>1. <<v>>[1] = v /\ <<w>>[1] = w
      OBVIOUS
    <3> QED
      BY <1>4, <2>1, <3>1
  <2>3. i - 1 \in m + 1 .. n - 1 /\ i - 1 \in 1 .. n - 1 /\ i - 1 > m /\ i - 1 + 1 = i
    BY <1>1, <2>2
  <2>4. r[i - 1] = cs[i]
    BY <1>8, <2>3
  <2> QED
    BY <2>1, <2>3, <2>4
<1>15. Stands(r, more, loose \ {w})
  <2>1. m <= n - 1
    BY <1>1
  <2> QED
    BY <1>7, <1>9, <1>10, <1>11, <1>13, <1>14, <2>1 DEF Stands
<1> QED
  BY <1>5, <1>7, <1>15 DEF more, m

\* A loose window that is made floating leaves the others where they are.
LEMMA FloatStands ==
  ASSUME NEW W, NEW cs \in Seq(Seq(W)), NEW front, Len(front) \in Nat, NEW loose,
         Stands(cs, front, loose), NEW w \in loose
  PROVE  /\ WithoutWindow(cs, w) \in Seq(Seq(W))
         /\ Stands(WithoutWindow(cs, w), front, loose \ {w})
<1> DEFINE m == Len(front)
           n == Len(cs)
           a == ColumnOf(cs, w)
           r == RemoveAt(cs, a)
           f == [i \in 1 .. n - 1 |-> IF i < a THEN i ELSE i + 1]
<1>1. m \in Nat /\ n \in Nat /\ DOMAIN cs = 1 .. n /\ cs \in [1 .. n -> Seq(W)]
  OBVIOUS
<1>2. /\ a \in m + 1 .. n /\ cs[a] = <<w>>
      /\ \A i \in m + 1 .. n : i # a => \E v \in loose \ {w} : cs[i] = <<v>>
  <2>1. a \in m + 1 .. n /\ cs[a] = <<w>> /\ LooseRest(cs, front, loose, w)
    BY LooseColumn
  <2> QED
    BY <2>1 DEF LooseRest
<1>3. WithoutWindow(cs, w) = r
  <2>1. Len(cs[a]) = 1
    BY <1>2
  <2> QED
    BY <2>1 DEF WithoutWindow
<1> HIDE DEF r, a, m, n
<1>4. a \in 1 .. n
  BY <1>1, <1>2
<1>5. r \in Seq(Seq(W)) /\ Len(r) = n - 1 /\ HoldsRest(r, cs, n, a)
  BY <1>1, <1>4, Removed DEF r
<1>6. /\ DOMAIN r = 1 .. n - 1 /\ \A i \in 1 .. n - 1 : f[i] \in 1 .. n /\ f[i] # a /\ r[i] = cs[f[i]]
  <2>1. DOMAIN r = 1 .. n - 1
    BY <1>1, <1>4, <1>5
  <2>2. \A i \in 1 .. n - 1 : r[i] = IF i < a THEN cs[i] ELSE cs[i + 1]
    BY <1>5 DEF HoldsRest
  <2>3. ASSUME NEW i \in 1 .. n - 1 PROVE f[i] \in 1 .. n /\ f[i] # a /\ r[i] = cs[f[i]]
    <3>1. CASE i < a
      BY <1>1, <1>4, <2>2, <3>1
    <3>2. CASE ~(i < a)
      BY <1>1, <1>4, <2>2, <3>2
    <3> QED
      BY <3>1, <3>2
  <2> QED
    BY <2>1, <2>3
<1>7. /\ f \in [DOMAIN r -> DOMAIN cs] /\ \A i, j \in DOMAIN r : f[i] = f[j] => i = j
  <2>1. \A i, j \in 1 .. n - 1 : f[i] = f[j] => i = j
    BY <1>1, <1>4
  <2>2. f \in [1 .. n - 1 -> 1 .. n]
    BY <1>1, <1>4
  <2> QED
    BY <1>1, <1>6, <2>1, <2>2
<1>8. \A i \in 1 .. n : i # a => \E j \in 1 .. n - 1 : f[j] = i
  <2> SUFFICES ASSUME NEW i \in 1 .. n, i # a PROVE \E j \in 1 .. n - 1 : f[j] = i
    OBVIOUS
  <2> DEFINE j == IF i < a THEN i ELSE i - 1
  <2>1. j \in 1 .. n - 1 /\ f[j] = i
    BY <1>1, <1>4
  <2> QED
    BY <2>1
<1>9. \A i \in 1 .. n - 1 : (i <= m <=> f[i] <= m) /\ (i <= m => f[i] = i)
  BY <1>1, <1>2
<1> HIDE DEF f
<1>10. Once(r)
  <2>1. \A i \in DOMAIN r : r[i] = cs[f[i]]
    BY <1>6
  <2> QED
    <3>1. Once(cs)
      BY DEF Stands
    <3> QED
      BY <1>7, <2>1, <3>1, OnceStill
<1>11. m <= n - 1 /\ \A i \in 1 .. m : r[i] = front[i]
  <2>1. m <= n - 1 /\ \A i \in 1 .. m : i \in 1 .. n - 1 /\ i <= m
    BY <1>1, <1>2
  <2>2. \A i \in 1 .. m : cs[i] = front[i]
    BY DEF Stands, m
  <2> QED
    BY <1>6, <1>9, <2>1, <2>2
<1>12. ASSUME NEW i \in m + 1 .. n - 1 PROVE \E v \in loose \ {w} : r[i] = <<v>>
  <2>1. i \in 1 .. n - 1 /\ ~(i <= m)
    BY <1>1
  <2>2. f[i] \in 1 .. n /\ ~(f[i] <= m) /\ f[i] # a /\ r[i] = cs[f[i]]
    BY <1>6, <1>9, <2>1
  <2>3. f[i] \in m + 1 .. n
    BY <1>1, <2>2
  <2> QED
    BY <1>2, <2>2, <2>3
<1>13. ASSUME NEW v \in loose \ {w} PROVE \E i \in m + 1 .. n - 1 : r[i] = <<v>>
  <2>1. PICK i \in m + 1 .. n : cs[i] = <<v>>
    BY DEF Stands, m, n
  <2>2. i # a
    <3>1. <<v>>[1] = v /\ <<w>>[1] = w
      OBVIOUS
    <3> QED
      BY <1>2, <2>1, <3>1
  <2>3. PICK j \in 1 .. n - 1 : f[j] = i
    BY <1>1, <1>8, <2>2
  <2>4. j \in m + 1 .. n - 1
    BY <1>1, <1>9, <2>3
  <2> QED
    BY <1>6, <2>1, <2>3, <2>4
<1>14. Stands(r, front, loose \ {w})
  BY <1>5, <1>10, <1>11, <1>12, <1>13 DEF Stands, m
<1> QED
  BY <1>3, <1>5, <1>14
-----------------------------------------------------------------------------
(* The saved columns, and the columns that stand once some tiles are placed. *)

\* Each saved column lists its tiles, and no tile is listed twice.
LEMMA SavedColumnsListed ==
  ASSUME NEW l \in Layouts
  PROVE  /\ SavedColumns(l) \in Seq({l[w].column : w \in TiledIn(l)})
         /\ \A r \in DOMAIN SavedColumns(l) :
              Tiles(l, r) \in Seq(TiledIn(l)) /\ Len(Tiles(l, r)) \in Nat \ {0}
         /\ \A r, s \in DOMAIN SavedColumns(l) : \A m \in DOMAIN Tiles(l, r), n \in DOMAIN Tiles(l, s) :
              Tiles(l, r)[m] = Tiles(l, s)[n] => r = s /\ m = n
<1> DEFINE P == TiledIn(l)
           C == {l[w].column : w \in P}
           SC == SavedColumns(l)
           T(r) == {w \in P : l[w].column = SC[r]}
           key(r) == [w \in T(r) |-> l[w].tile]
<1>1. /\ IsFiniteSet(P) /\ \A w \in P : l[w].column \in Nat /\ l[w].tile \in Nat /\ l[w].column # 0
      /\ \A v, w \in P : v # w => l[v].column # l[w].column \/ l[v].tile # l[w].tile
  <2>1. P \subseteq DOMAIN l /\ IsFiniteSet(DOMAIN l)
    BY LayoutAssumption DEF TiledIn
  <2>2. IsFiniteSet(P)
    BY <2>1, FS_Subset
  <2> QED
    BY <2>1, <2>2, LayoutAssumption DEF TiledIn
<1> HIDE DEF P
<1>2. IsFiniteSet(C) /\ C \subseteq Nat
  <2> DEFINE g == [w \in P |-> l[w].column]
  <2>1. g \in Surjection(P, C)
    BY DEF Surjection
  <2> QED
    BY <1>1, <2>1, FS_Surjection
<1>3. SC = InOrder(C, [c \in C |-> c])
  BY DEF SavedColumns, P
<1> HIDE DEF SC, C
<1>4. /\ SC \in Seq(C) /\ \A i, j \in DOMAIN SC : SC[i] = SC[j] => i = j
      /\ \A c \in C : \E i \in DOMAIN SC : SC[i] = c
  <2> DEFINE id == [c \in C |-> c]
  <2>1. id \in [C -> Nat] /\ \A x, y \in C : id[x] = id[y] => x = y
    BY <1>2
  <2> HIDE DEF id
  <2>2. /\ InOrder(C, id) \in Seq(C)
        /\ \A i, j \in DOMAIN InOrder(C, id) : InOrder(C, id)[i] = InOrder(C, id)[j] => i = j
        /\ \A x \in C : \E i \in DOMAIN InOrder(C, id) : InOrder(C, id)[i] = x
    BY <1>2, <2>1, InOrderLists
  <2>3. SC = InOrder(C, id)
    BY <1>3 DEF id
  <2> QED
    BY <2>2, <2>3
<1>5. ASSUME NEW r \in DOMAIN SC
      PROVE  /\ Tiles(l, r) \in Seq(T(r)) /\ Len(Tiles(l, r)) \in Nat \ {0}
             /\ \A m, n \in DOMAIN Tiles(l, r) : Tiles(l, r)[m] = Tiles(l, r)[n] => m = n
  <2> DEFINE Q == T(r)
             q == InOrder(Q, key(r))
  <2>1. IsFiniteSet(Q)
    BY <1>1, FS_Subset
  <2>2. Tiles(l, r) = q
    BY DEF Tiles, P, SC
  <2>3. key(r) \in [Q -> Nat] /\ \A x, y \in Q : key(r)[x] = key(r)[y] => x = y
    BY <1>1
  <2>4. Q # {}
    <3>1. SC[r] \in C
      BY <1>4
    <3> QED
      BY <3>1 DEF C
  <2> HIDE DEF key, T
  <2>5. /\ q \in Seq(Q) /\ Len(q) = Cardinality(Q)
        /\ \A m, n \in DOMAIN q : q[m] = q[n] => m = n
    <3> HIDE DEF Q
    <3> QED
      BY <2>1, <2>3, InOrderLists
  <2>6. Cardinality(Q) \in Nat /\ Cardinality(Q) # 0
    BY <2>1, <2>4, FS_EmptySet, FS_CardinalityType
  <2> QED
    BY <2>2, <2>5, <2>6
<1>6. ASSUME NEW r \in DOMAIN SC, NEW s \in DOMAIN SC, NEW m \in DOMAIN Tiles(l, r), NEW n \in DOMAIN Tiles(l, s),
             Tiles(l, r)[m] = Tiles(l, s)[n]
      PROVE  r = s /\ m = n
  <2>1. Tiles(l, r)[m] \in T(r) /\ Tiles(l, s)[n] \in T(s)
    <3>1. Tiles(l, r) \in Seq(T(r)) /\ Tiles(l, s) \in Seq(T(s))
      BY <1>5
    <3> HIDE DEF T
    <3> QED
      BY <3>1
  <2>2. SC[r] = SC[s]
    BY <1>6, <2>1
  <2>3. r = s
    BY <1>4, <2>2
  <2> QED
    BY <1>5, <1>6, <2>3
<1>7. \A r \in DOMAIN SC : Tiles(l, r) \in Seq(P)
  <2> SUFFICES ASSUME NEW r \in DOMAIN SC PROVE Tiles(l, r) \in Seq(P)
    OBVIOUS
  <2>1. Tiles(l, r) \in Seq(T(r)) /\ T(r) \subseteq P
    BY <1>5
  <2> HIDE DEF T
  <2> QED
    BY <2>1
<1> QED
  BY <1>4, <1>5, <1>6, <1>7 DEF SC, C, P

\* Columns 1, 2, ... as they stand in the end.
Whole(l, i) == IF i <= Len(Open) THEN Open[i] ELSE Tiles(l, i - Len(Open))

\* The open columns, the saved ones before r, and the first n tiles of column r.
Built(l, r, n) ==
  IF n = 0 THEN [i \in 1 .. Len(Open) + r - 1 |-> Whole(l, i)]
  ELSE [i \in 1 .. Len(Open) + r |->
         IF i = Len(Open) + r THEN SubSeq(Tiles(l, r), 1, n) ELSE Whole(l, i)]

\* The tiles in them, and the new windows that are not.
Standing(l, r, n) ==
  {w \in TiledIn(l) : \/ \E s \in DOMAIN SavedColumns(l) : s < r /\ \E m \in DOMAIN Tiles(l, s) : w = Tiles(l, s)[m]
                     \/ \E m \in 1 .. n : w = Tiles(l, r)[m]}
Loose(l, r, n) == DOMAIN l \ Standing(l, r, n)

AllWindows(l) == Protected \cup DOMAIN l

LEMMA OpenColumns ==
  /\ Open \in Seq(Seq(Protected)) /\ Len(Open) \in Nat /\ DOMAIN Open = 1 .. Len(Open)
  /\ \A i \in 1 .. Len(Open) : Len(Open[i]) \in Nat \ {0} /\ ToSet(Open[i]) \subseteq Protected
<1>1. Open \in Seq(Seq(Protected)) /\ <<>> \notin ToSet(Open)
  BY OpenAssumption
<1>2. Len(Open) \in Nat /\ DOMAIN Open = 1 .. Len(Open)
  BY <1>1
<1>3. ASSUME NEW i \in 1 .. Len(Open) PROVE Len(Open[i]) \in Nat \ {0} /\ ToSet(Open[i]) \subseteq Protected
  <2>1. Open[i] \in Seq(Protected) /\ Open[i] # <<>>
    <3>1. Open[i] \in ToSet(Open)
      BY <1>2 DEF ToSet
    <3> QED
      BY <1>1, <1>2, <3>1
  <2> QED
    BY <2>1 DEF ToSet
<1> QED
  BY <1>1, <1>2, <1>3

\* What stands are columns of windows.
LEMMA FrontIs ==
  ASSUME NEW l \in Layouts, NEW r \in 1 .. Len(SavedColumns(l)) + 1, NEW n \in Nat,
         n # 0 => r \in DOMAIN SavedColumns(l) /\ n <= Len(Tiles(l, r))
  PROVE  /\ Built(l, r, n) \in Seq(Seq(AllWindows(l)))
         /\ Len(Built(l, r, n)) = IF n = 0 THEN Len(Open) + r - 1 ELSE Len(Open) + r
         /\ \A i \in 1 .. Len(Open) + r - 1 : Built(l, r, n)[i] = Whole(l, i)
         /\ n # 0 => Built(l, r, n)[Len(Open) + r] = SubSeq(Tiles(l, r), 1, n)
<1> DEFINE N == Len(Open)
           K == Len(SavedColumns(l))
           W == AllWindows(l)
<1>1. /\ N \in Nat /\ K \in Nat /\ DOMAIN SavedColumns(l) = 1 .. K
      /\ \A s \in 1 .. K : Tiles(l, s) \in Seq(TiledIn(l)) /\ Len(Tiles(l, s)) \in Nat \ {0}
  <2>1. N \in Nat
    BY OpenColumns
  <2>2. K \in Nat /\ DOMAIN SavedColumns(l) = 1 .. K
    BY SavedColumnsListed
  <2> HIDE DEF K, N
  <2>3. \A s \in DOMAIN SavedColumns(l) :
          Tiles(l, s) \in Seq(TiledIn(l)) /\ Len(Tiles(l, s)) \in Nat \ {0}
    BY SavedColumnsListed
  <2> QED
    BY <2>1, <2>2, <2>3
<1>2. \A s \in 1 .. K : Tiles(l, s) \in Seq(W)
  <2>1. TiledIn(l) \subseteq W
    BY DEF TiledIn, AllWindows
  <2> HIDE DEF W
  <2> SUFFICES ASSUME NEW s \in 1 .. K PROVE Tiles(l, s) \in Seq(W)
    OBVIOUS
  <2>2. Tiles(l, s) \in Seq(TiledIn(l))
    BY <1>1
  <2> QED
    BY <2>1, <2>2
<1>3. \A i \in 1 .. N : Open[i] \in Seq(W)
  <2>1. Protected \subseteq W
    BY DEF AllWindows
  <2> SUFFICES ASSUME NEW i \in 1 .. N PROVE Open[i] \in Seq(W)
    OBVIOUS
  <2> HIDE DEF W
  <2>2. Open[i] \in Seq(Protected)
    BY OpenColumns
  <2> QED
    BY <2>1, <2>2
<1> HIDE DEF N, K, W
<1>4. ASSUME NEW i \in 1 .. N + r - 1 PROVE Whole(l, i) \in Seq(W)
  <2>1. CASE i <= N
    BY <1>1, <1>3, <2>1 DEF Whole, N
  <2>2. CASE i > N
    <3>1. i - N \in 1 .. K
      BY <1>1, <2>2 DEF K
    <3> QED
      BY <1>1, <1>2, <2>2, <3>1 DEF Whole, N
  <2> QED
    BY <1>1, <2>1, <2>2
<1>5. CASE n = 0
  <2> DEFINE F == [i \in 1 .. N + r - 1 |-> Whole(l, i)]
  <2>1. F \in [1 .. N + r - 1 -> Seq(W)] /\ N + r - 1 \in Nat
    BY <1>1, <1>4
  <2>2. F = Built(l, r, n)
    BY <1>5 DEF Built, N
  <2>3. F \in Seq(Seq(W)) /\ Len(F) = N + r - 1 /\ \A i \in 1 .. N + r - 1 : F[i] = Whole(l, i)
    BY <2>1
  <2> HIDE DEF F
  <2> QED
    BY <1>5, <2>2, <2>3 DEF N, W
<1>6. CASE n # 0
  <2> DEFINE last == SubSeq(Tiles(l, r), 1, n)
             F == [i \in 1 .. N + r |-> IF i = N + r THEN last ELSE Whole(l, i)]
  <2>1. last \in Seq(W)
    <3>1. Tiles(l, r) \in Seq(W) /\ n \in 1 .. Len(Tiles(l, r))
      BY <1>1, <1>2, <1>6 DEF K
    <3> HIDE DEF W
    <3> QED
      BY <3>1
  <2>2. F = Built(l, r, n)
    BY <1>6 DEF Built, N
  <2> HIDE DEF last
  <2>3. F \in [1 .. N + r -> Seq(W)] /\ N + r \in Nat
    BY <1>1, <1>4, <2>1
  <2>4. /\ F \in Seq(Seq(W)) /\ Len(F) = N + r /\ F[N + r] = last
        /\ \A i \in 1 .. N + r - 1 : F[i] = Whole(l, i)
    <3>1. N + r \in 1 .. N + r /\ \A i \in 1 .. N + r - 1 : i \in 1 .. N + r /\ i # N + r
      BY <1>1
    <3>2. F[N + r] = last /\ \A i \in 1 .. N + r - 1 : F[i] = Whole(l, i)
      BY <3>1
    <3> HIDE DEF F
    <3>3. F \in Seq(Seq(W)) /\ Len(F) = N + r
      BY <2>3
    <3> QED
      BY <3>2, <3>3
  <2> HIDE DEF F
  <2> QED
    BY <1>6, <2>2, <2>4 DEF N, W, last
<1> QED
  BY <1>5, <1>6

\* Which windows stand as tiles are placed one after the other.
LEMMA StandingGrows ==
  ASSUME NEW l \in Layouts, NEW r \in DOMAIN SavedColumns(l), NEW n \in 0 .. Len(Tiles(l, r)) - 1
  PROVE  /\ Tiles(l, r)[n + 1] \in Loose(l, r, n)
         /\ Loose(l, r, n + 1) = Loose(l, r, n) \ {Tiles(l, r)[n + 1]}
<1> DEFINE w == Tiles(l, r)[n + 1]
<1>1. /\ DOMAIN Tiles(l, r) = 1 .. Len(Tiles(l, r)) /\ n + 1 \in DOMAIN Tiles(l, r) /\ w \in TiledIn(l)
      /\ r \in Nat
  <2>1. Tiles(l, r) \in Seq(TiledIn(l)) /\ Len(Tiles(l, r)) \in Nat
    BY SavedColumnsListed
  <2>2. DOMAIN SavedColumns(l) = 1 .. Len(SavedColumns(l))
    BY SavedColumnsListed
  <2> QED
    BY <2>1, <2>2
<1>2. \A s \in DOMAIN SavedColumns(l) : \A m \in DOMAIN Tiles(l, s) : w = Tiles(l, s)[m] => s = r /\ m = n + 1
  BY <1>1, SavedColumnsListed
<1>3. \A m \in 1 .. n : m \in DOMAIN Tiles(l, r) /\ m # n + 1
  BY <1>1
<1>4. w \notin Standing(l, r, n)
  BY <1>1, <1>2, <1>3 DEF Standing
<1>5. \A m \in 1 .. n + 1 : m \in 1 .. n \/ m = n + 1
  OBVIOUS
<1>6. Standing(l, r, n + 1) = Standing(l, r, n) \cup {w}
  <2>1. n + 1 \in 1 .. n + 1 /\ \A m \in 1 .. n : m \in 1 .. n + 1
    OBVIOUS
  <2> QED
    BY <1>1, <1>5, <2>1 DEF Standing
<1>7. w \in DOMAIN l
  BY <1>1 DEF TiledIn
<1> QED
  BY <1>4, <1>6, <1>7 DEF Loose

\* A whole column is one more that stands.
LEMMA ColumnStands ==
  ASSUME NEW l \in Layouts, NEW r \in DOMAIN SavedColumns(l)
  PROVE  /\ Built(l, r, Len(Tiles(l, r))) = Built(l, r + 1, 0)
         /\ Loose(l, r, Len(Tiles(l, r))) = Loose(l, r + 1, 0)
<1> DEFINE N == Len(Open)
           n == Len(Tiles(l, r))
<1>1. /\ N \in Nat /\ r \in Nat \ {0} /\ n \in Nat \ {0} /\ Tiles(l, r) \in Seq(TiledIn(l))
      /\ DOMAIN Tiles(l, r) = 1 .. n /\ DOMAIN SavedColumns(l) = 1 .. Len(SavedColumns(l))
  <2>1. N \in Nat /\ n \in Nat \ {0} /\ Tiles(l, r) \in Seq(TiledIn(l))
    BY OpenColumns, SavedColumnsListed
  <2>2. DOMAIN SavedColumns(l) = 1 .. Len(SavedColumns(l))
    BY SavedColumnsListed
  <2> QED
    BY <2>1, <2>2
<1>2. Built(l, r, n) = Built(l, r + 1, 0)
  <2>1. SubSeq(Tiles(l, r), 1, n) = Tiles(l, r)
    BY <1>1
  <2>2. Built(l, r, n) = [i \in 1 .. N + r |-> IF i = N + r THEN Tiles(l, r) ELSE Whole(l, i)]
    BY <1>1, <2>1 DEF Built
  <2>3. Built(l, r + 1, 0) = [i \in 1 .. N + r |-> Whole(l, i)]
    <3>1. N + (r + 1) - 1 = N + r
      BY <1>1
    <3> QED
      BY <3>1 DEF Built
  <2>4. Whole(l, N + r) = Tiles(l, r)
    <3>1. ~(N + r <= N) /\ N + r - N = r
      BY <1>1
    <3> QED
      BY <3>1 DEF Whole
  <2> QED
    BY <2>2, <2>3, <2>4
<1>3. Standing(l, r, n) = Standing(l, r + 1, 0)
  <2>1. \A s \in DOMAIN SavedColumns(l) : s < r + 1 <=> s < r \/ s = r
    BY <1>1
  <2>2. 1 .. 0 = {}
    OBVIOUS
  <2> QED
    BY <1>1, <2>1, <2>2 DEF Standing
<1> QED
  BY <1>2, <1>3 DEF Loose

\* One tile more.
LEMMA BuiltGrows ==
  ASSUME NEW l \in Layouts, NEW r \in DOMAIN SavedColumns(l), NEW n \in 0 .. Len(Tiles(l, r)) - 1
  PROVE  /\ n = 0 => Built(l, r, n + 1) = Append(Built(l, r, n), <<Tiles(l, r)[n + 1]>>)
         /\ n # 0 => Built(l, r, n + 1) = [Built(l, r, n) EXCEPT ![Len(Built(l, r, n))] =
                                             Append(@, Tiles(l, r)[n + 1])]
<1> DEFINE N == Len(Open)
           w == Tiles(l, r)[n + 1]
           B == Built(l, r, n)
           C == Built(l, r, n + 1)
           W == AllWindows(l)
<1>1. /\ N \in Nat /\ r \in Nat \ {0} /\ n \in Nat /\ r \in 1 .. Len(SavedColumns(l)) + 1
      /\ Tiles(l, r) \in Seq(TiledIn(l)) /\ n + 1 \in 1 .. Len(Tiles(l, r)) /\ n + 1 \in Nat /\ n + 1 # 0
  <2>1. N \in Nat /\ Tiles(l, r) \in Seq(TiledIn(l)) /\ Len(Tiles(l, r)) \in Nat
    BY OpenColumns, SavedColumnsListed
  <2>2. DOMAIN SavedColumns(l) = 1 .. Len(SavedColumns(l)) /\ Len(SavedColumns(l)) \in Nat
    BY SavedColumnsListed
  <2> HIDE DEF N
  <2>3. r \in Nat \ {0} /\ r \in 1 .. Len(SavedColumns(l)) + 1
    BY <2>2
  <2> QED
    BY <2>1, <2>3
<1>2. /\ C \in Seq(Seq(W)) /\ Len(C) = N + r
      /\ \A i \in 1 .. N + r - 1 : C[i] = Whole(l, i)
      /\ C[N + r] = SubSeq(Tiles(l, r), 1, n + 1)
  <2> DEFINE k == n + 1
  <2>1. k \in Nat /\ k # 0 /\ k <= Len(Tiles(l, r))
    BY <1>1
  <2> HIDE DEF k
  <2>2. /\ Built(l, r, k) \in Seq(Seq(W)) /\ Len(Built(l, r, k)) = N + r
        /\ \A i \in 1 .. N + r - 1 : Built(l, r, k)[i] = Whole(l, i)
        /\ Built(l, r, k)[N + r] = SubSeq(Tiles(l, r), 1, k)
    <3>1. k # 0 => r \in DOMAIN SavedColumns(l) /\ k <= Len(Tiles(l, r))
      BY <2>1
    <3> HIDE DEF N
    <3>2. k \in Nat /\ k # 0 /\ r \in 1 .. Len(SavedColumns(l)) + 1
      BY <1>1, <2>1
    <3> QED
      BY <3>1, <3>2, FrontIs DEF N
  <2> QED
    BY <2>2 DEF k
<1>3. /\ B \in Seq(Seq(W)) /\ Len(B) = IF n = 0 THEN N + r - 1 ELSE N + r
      /\ \A i \in 1 .. N + r - 1 : B[i] = Whole(l, i)
      /\ n # 0 => B[N + r] = SubSeq(Tiles(l, r), 1, n)
  <2>1. n # 0 => r \in DOMAIN SavedColumns(l) /\ n <= Len(Tiles(l, r))
    BY <1>1
  <2> HIDE DEF N
  <2>2. n \in Nat /\ r \in 1 .. Len(SavedColumns(l)) + 1
    BY <1>1
  <2> QED
    BY <2>1, <2>2, FrontIs DEF N
<1> HIDE DEF B, C, N, W
<1>4. CASE n = 0
  <2> DEFINE D == Append(B, <<w>>)
  <2>1. SubSeq(Tiles(l, r), 1, n + 1) = <<w>>
    <3> DEFINE q == Tiles(l, r)
    <3>1. q \in Seq(TiledIn(l)) /\ n + 1 = 1 /\ 1 \in 1 .. Len(q)
      BY <1>1, <1>4
    <3> HIDE DEF q
    <3>2. SubSeq(q, 1, 1) = <<q[1]>>
      <4>1. \A i \in 1 .. 1 : q[i] \in TiledIn(l)
        BY <3>1
      <4>2. /\ SubSeq(q, 1, 1) \in Seq(TiledIn(l)) /\ Len(SubSeq(q, 1, 1)) = 1
            /\ SubSeq(q, 1, 1)[1] = q[1]
        BY <3>1, <4>1
      <4> QED
        <5> DEFINE p == SubSeq(q, 1, 1)
                   o == <<q[1]>>
        <5>1. o \in Seq(TiledIn(l)) /\ Len(o) = 1 /\ o[1] = q[1]
          BY <4>1
        <5>2. p \in Seq(TiledIn(l)) /\ Len(p) = 1 /\ p[1] = q[1]
          BY <4>2
        <5> HIDE DEF p, o
        <5>3. \A i \in 1 .. Len(p) : p[i] = o[i]
          BY <5>1, <5>2
        <5>4. p = o
          BY <5>1, <5>2, <5>3, SeqEqual
        <5> QED
          BY <5>4 DEF p, o
    <3> QED
      BY <3>1, <3>2 DEF q
  <2> HIDE DEF w
  <2>2. Len(B) = N + r - 1 /\ N + r - 1 \in Nat
    BY <1>1, <1>3, <1>4
  <2>3. DOMAIN D = 1 .. N + r /\ D[N + r] = <<w>> /\ \A i \in 1 .. N + r - 1 : D[i] = B[i]
    <3>1. DOMAIN D = 1 .. Len(B) + 1 /\ D[Len(B) + 1] = <<w>> /\ \A i \in 1 .. Len(B) : D[i] = B[i]
      BY <1>3
    <3>2. Len(B) + 1 = N + r
      BY <1>1, <2>2
    <3> HIDE DEF D
    <3> QED
      BY <2>2, <3>1, <3>2
  <2>4. DOMAIN C = 1 .. N + r
    BY <1>1, <1>2
  <2>5. \A i \in 1 .. N + r : C[i] = D[i]
    <3>1. \A i \in 1 .. N + r : i \in 1 .. N + r - 1 \/ i = N + r
      BY <1>1
    <3> HIDE DEF D
    <3> QED
      BY <1>2, <1>3, <2>1, <2>3, <3>1
  <2>6. C = [i \in 1 .. N + r |-> C[i]] /\ D = [i \in 1 .. N + r |-> D[i]]
    <3>1. C = [i \in DOMAIN C |-> C[i]]
      BY <1>2
    <3>2. D = [i \in DOMAIN D |-> D[i]]
      BY <1>3
    <3> HIDE DEF D
    <3> QED
      BY <2>3, <2>4, <3>1, <3>2
  <2> HIDE DEF D
  <2>7. C = D
    BY <2>5, <2>6
  <2> QED
    BY <1>4, <2>7 DEF B, C, D, w
<1>5. CASE n # 0
  <2> DEFINE q == SubSeq(Tiles(l, r), 1, n)
             D == [B EXCEPT ![Len(B)] = Append(@, w)]
  <2>1. SubSeq(Tiles(l, r), 1, n + 1) = Append(q, w)
    BY <1>1
  <2> HIDE DEF w, q
  <2>2. Len(B) = N + r /\ B[N + r] = q /\ DOMAIN B = 1 .. N + r /\ N + r \in 1 .. N + r
    BY <1>1, <1>3, <1>5 DEF q
  <2>3. DOMAIN D = 1 .. N + r /\ D[N + r] = Append(q, w) /\ \A i \in 1 .. N + r - 1 : D[i] = B[i]
    <3>1. \A i \in 1 .. N + r - 1 : i \in 1 .. N + r /\ i # N + r
      BY <1>1
    <3> QED
      BY <2>2, <3>1
  <2>4. DOMAIN C = 1 .. N + r
    BY <1>1, <1>2
  <2>5. \A i \in 1 .. N + r : C[i] = D[i]
    <3>1. \A i \in 1 .. N + r : i \in 1 .. N + r - 1 \/ i = N + r
      BY <1>1
    <3> HIDE DEF D
    <3> QED
      BY <1>2, <1>3, <2>1, <2>3, <3>1
  <2>6. C = [i \in 1 .. N + r |-> C[i]] /\ D = [i \in 1 .. N + r |-> D[i]]
    <3>1. C = [i \in DOMAIN C |-> C[i]]
      BY <1>2
    <3>2. D = [i \in DOMAIN D |-> D[i]]
      OBVIOUS
    <3> HIDE DEF D
    <3> QED
      BY <2>3, <2>4, <3>1, <3>2
  <2> HIDE DEF D
  <2>7. C = D
    BY <2>5, <2>6
  <2> QED
    BY <1>5, <2>7 DEF B, C, D, w
<1> QED
  BY <1>4, <1>5 DEF B, C, w

\* The tiles before t of the column r are placed; all of them are, and some windows float.
BuildingAt(l, r, t, cs) ==
  /\ r \in DOMAIN SavedColumns(l) /\ t \in DOMAIN Tiles(l, r)
  /\ Stands(cs, Built(l, r, t - 1), Loose(l, r, t - 1))
AllBuilt(l, cs, floats) ==
  Stands(cs, Built(l, Len(SavedColumns(l)) + 1, 0), Loose(l, Len(SavedColumns(l)) + 1, 0) \ floats)

LEMMA NextPlace ==
  ASSUME NEW l \in Layouts, NEW r \in DOMAIN SavedColumns(l), NEW t \in DOMAIN Tiles(l, r), NEW cs,
         Stands(cs, Built(l, r, t), Loose(l, r, t))
  PROVE  /\ t < Len(Tiles(l, r)) => BuildingAt(l, r, t + 1, cs)
         /\ t >= Len(Tiles(l, r)) /\ r < Len(SavedColumns(l)) => BuildingAt(l, r + 1, 1, cs)
         /\ t >= Len(Tiles(l, r)) /\ r >= Len(SavedColumns(l)) => AllBuilt(l, cs, {})
<1> DEFINE K == Len(SavedColumns(l))
           n == Len(Tiles(l, r))
<1>1. K \in Nat /\ DOMAIN SavedColumns(l) = 1 .. K
  BY SavedColumnsListed
<1> HIDE DEF K
<1>2. n \in Nat \ {0} /\ DOMAIN Tiles(l, r) = 1 .. n
  <2>1. Tiles(l, r) \in Seq(TiledIn(l)) /\ n \in Nat \ {0}
    BY SavedColumnsListed
  <2> QED
    BY <2>1
<1> HIDE DEF n
<1>3. CASE t < n
  <2>1. t + 1 \in 1 .. n /\ t + 1 - 1 = t
    BY <1>2, <1>3
  <2> QED
    BY <1>2, <1>3, <2>1 DEF BuildingAt, n
<1>4. ASSUME t >= n PROVE t = n /\ Stands(cs, Built(l, r + 1, 0), Loose(l, r + 1, 0))
  <2>1. t = n
    BY <1>2, <1>4
  <2> QED
    BY <2>1, ColumnStands DEF n
<1>5. CASE t >= n /\ r < K
  <2>1. r + 1 \in DOMAIN SavedColumns(l) /\ 1 - 1 = 0
    BY <1>1, <1>5
  <2>2. 1 \in DOMAIN Tiles(l, r + 1)
    <3> DEFINE s == r + 1
    <3> HIDE DEF s
    <3>1. s \in DOMAIN SavedColumns(l)
      BY <2>1 DEF s
    <3>2. Tiles(l, s) \in Seq(TiledIn(l)) /\ Len(Tiles(l, s)) \in Nat \ {0}
      BY <3>1, SavedColumnsListed
    <3>3. 1 \in DOMAIN Tiles(l, s)
      BY <3>2
    <3> QED
      BY <3>3 DEF s
  <2>3. BuildingAt(l, r + 1, 1, cs)
    BY <1>4, <1>5, <2>1, <2>2 DEF BuildingAt
  <2> QED
    BY <1>2, <1>5, <2>3 DEF K, n
<1>6. CASE t >= n /\ r >= K
  <2>1. r + 1 = K + 1
    BY <1>1, <1>6
  <2>2. AllBuilt(l, cs, {})
    <3>1. Stands(cs, Built(l, K + 1, 0), Loose(l, K + 1, 0)) /\ Loose(l, K + 1, 0) \ {} = Loose(l, K + 1, 0)
      BY <1>4, <1>6, <2>1
    <3> QED
      BY <3>1 DEF AllBuilt, K
  <2> QED
    BY <1>1, <1>2, <1>6, <2>2 DEF K, n
<1> QED
  BY <1>1, <1>2, <1>3, <1>5, <1>6 DEF K, n

\* When every window has arrived, the open columns are counted and the first one is to be built.
LEMMA BeginStands ==
  ASSUME NEW l \in Layouts, NEW cs, Len(cs) \in Nat, DOMAIN cs = 1 .. Len(cs), Stands(cs, Open, DOMAIN l)
  PROVE  /\ Offset(cs) = Len(Open)
         /\ SavedColumns(l) = <<>> => AllBuilt(l, cs, {})
         /\ SavedColumns(l) # <<>> => BuildingAt(l, 1, 1, cs)
<1> DEFINE N == Len(Open)
           K == Len(SavedColumns(l))
<1>1. /\ N \in Nat /\ DOMAIN Open = 1 .. N /\ Open \in Seq(Seq(Protected))
      /\ \A i \in 1 .. N : Len(Open[i]) \in Nat \ {0} /\ ToSet(Open[i]) \subseteq Protected
  BY OpenColumns
<1>2. Offset(cs) = N
  <2> DEFINE I == {i \in DOMAIN cs : ToSet(cs[i]) \cap Protected # {}}
  <2>1. ASSUME NEW i \in 1 .. N PROVE i \in I
    <3>1. i \in DOMAIN cs /\ cs[i] = Open[i]
      BY <1>1 DEF Stands
    <3>2. Open[i] \in Seq(Protected) /\ Len(Open[i]) \in Nat \ {0}
      BY <1>1
    <3>3. Open[i][1] \in ToSet(Open[i]) /\ Open[i][1] \in Protected
      BY <3>2 DEF ToSet
    <3> QED
      BY <3>1, <3>3
  <2>2. ASSUME NEW i \in I PROVE i \in 1 .. N
    <3>1. CASE i > N
      <4>1. i \in Len(Open) + 1 .. Len(cs)
        BY <1>1, <3>1
      <4>2. PICK w \in DOMAIN l : cs[i] = <<w>>
        BY <4>1 DEF Stands
      <4>3. ToSet(cs[i]) = {w}
        BY <4>2 DEF ToSet
      <4>4. w \notin Protected
        BY LayoutAssumption
      <4> QED
        BY <2>2, <4>3, <4>4
    <3> QED
      BY <1>1, <3>1
  <2>3. I = 1 .. N
    BY <2>1, <2>2
  <2>4. Cardinality(1 .. N) = N
    <3>1. Cardinality(1 .. N) = IF 1 > N THEN 0 ELSE N - 1 + 1
      <4>1. 1 \in Int /\ N \in Int
        BY <1>1
      <4> HIDE DEF N
      <4> QED
        BY <4>1, FS_Interval
    <3> HIDE DEF N
    <3> QED
      BY <1>1, <3>1
  <2> QED
    BY <2>3, <2>4 DEF Offset
<1>3. Built(l, 1, 0) = Open
  <2>1. Built(l, 1, 0) = [i \in 1 .. N |-> Whole(l, i)]
    <3>1. N + 1 - 1 = N
      BY <1>1
    <3> QED
      BY <3>1 DEF Built
  <2>2. \A i \in 1 .. N : Whole(l, i) = Open[i]
    BY <1>1 DEF Whole
  <2>3. Open = [i \in 1 .. N |-> Open[i]]
    <3>1. Open = [i \in DOMAIN Open |-> Open[i]]
      BY <1>1
    <3> HIDE DEF N
    <3> QED
      BY <1>1, <3>1
  <2> HIDE DEF N
  <2> QED
    BY <2>1, <2>2, <2>3
<1>4. Loose(l, 1, 0) = DOMAIN l
  <2>1. K \in Nat /\ DOMAIN SavedColumns(l) = 1 .. K
    BY SavedColumnsListed
  <2>2. \A s \in DOMAIN SavedColumns(l) : ~(s < 1)
    BY <2>1
  <2>3. 1 .. 0 = {}
    OBVIOUS
  <2>4. Standing(l, 1, 0) = {}
    BY <2>2, <2>3 DEF Standing
  <2> QED
    BY <2>4 DEF Loose
<1>5. Stands(cs, Built(l, 1, 0), Loose(l, 1, 0))
  BY <1>3, <1>4
<1>6. CASE SavedColumns(l) = <<>>
  <2>1. Len(SavedColumns(l)) + 1 = 1
    BY <1>6
  <2>2. Loose(l, 1, 0) \ {} = Loose(l, 1, 0)
    OBVIOUS
  <2> QED
    BY <1>2, <1>5, <1>6, <2>1, <2>2 DEF AllBuilt
<1>7. CASE SavedColumns(l) # <<>>
  <2>1. SavedColumns(l) \in Seq({l[w].column : w \in TiledIn(l)})
    BY SavedColumnsListed
  <2>2. 1 \in DOMAIN SavedColumns(l)
    <3> DEFINE X == {l[w].column : w \in TiledIn(l)}
    <3> HIDE DEF X
    <3>1. SavedColumns(l) \in Seq(X)
      BY <2>1 DEF X
    <3> QED
      BY <1>7, <3>1
  <2>3. Tiles(l, 1) \in Seq(TiledIn(l)) /\ Len(Tiles(l, 1)) \in Nat \ {0}
    BY <2>2, SavedColumnsListed
  <2>4. 1 \in DOMAIN Tiles(l, 1) /\ 1 - 1 = 0
    BY <2>3
  <2> QED
    BY <1>2, <1>5, <1>7, <2>2, <2>4 DEF BuildingAt
<1> QED
  BY <1>6, <1>7
-----------------------------------------------------------------------------
(* Where arrange_workspace is, and what stands then. *)

\* Before it starts, new windows are columns behind the open ones, and the focus is on the
\* last open column or behind it, so that the next one lands there too.
Landing ==
  step = "idle" =>
    /\ floated = {} /\ Stands(cols, Open, DOMAIN layout \ arriving)
    /\ active = 0 => cols = <<>>
    /\ active # 0 => \E i \in DOMAIN cols : i >= Len(Open) /\ active \in ToSet(cols[i])

\* While it works, the tiles before this one are in place; the one to be consumed stands
\* right behind them, and the column to be moved or to consume has the focus.
Rebuilding ==
  /\ step # "idle" => arriving = {} /\ offset = Len(Open)
  /\ step \in {"focus", "move", "seed", "consume"} =>
       floated = {} /\ BuildingAt(layout, rank, tile, cols)
  /\ step = "move" => active = Tiles(layout, rank)[tile]
  /\ step \in {"seed", "consume"} =>
       /\ tile # 1 /\ Len(Open) + rank + 1 <= Len(cols)
       /\ cols[Len(Open) + rank + 1] = <<Tiles(layout, rank)[tile]>>
  /\ step = "consume" => active = Tiles(layout, rank)[1]
  /\ step \in {"float", "done"} => AllBuilt(layout, cols, floated)

Arranging ==
  /\ layout \in Layouts /\ arriving \subseteq DOMAIN layout /\ cols \in Seq(Seq(AllWindows(layout)))
  /\ step \in {"idle", "focus", "move", "seed", "consume", "float", "done"}
  /\ Landing /\ Rebuilding

LEMMA ArrangingInit ==
  ASSUME Focused \subseteq {Len(Open)}
  PROVE  ArrangeInit => Arranging
<1> SUFFICES ASSUME ArrangeInit PROVE Arranging
  OBVIOUS
<1> USE DEF ArrangeInit
<1>1. /\ Open \in Seq(Seq(Protected)) /\ Len(Open) \in Nat /\ DOMAIN Open = 1 .. Len(Open)
      /\ \A i \in 1 .. Len(Open) : Len(Open[i]) \in Nat \ {0} /\ ToSet(Open[i]) \subseteq Protected
  BY OpenColumns
<1>2. cols \in Seq(Seq(AllWindows(layout)))
  <2> DEFINE W == AllWindows(layout)
  <2>1. Protected \subseteq W /\ cols = Open
    BY DEF AllWindows
  <2> HIDE DEF W
  <2>2. Seq(Protected) \subseteq Seq(W)
    BY <2>1
  <2> DEFINE P == Seq(Protected)
             Q == Seq(W)
  <2>3. P \subseteq Q /\ Open \in Seq(P)
    BY <1>1, <2>2
  <2> HIDE DEF P, Q
  <2>4. Open \in Seq(Q)
    BY <2>3
  <2> QED
    BY <2>1, <2>4 DEF Q, W
<1>3. Stands(cols, Open, DOMAIN layout \ arriving)
  <2>1. Once(Open)
    BY OpenAssumption
  <2>2. DOMAIN layout \ arriving = {} /\ Len(Open) + 1 .. Len(Open) = {}
    BY <1>1
  <2> QED
    BY <1>1, <2>1, <2>2 DEF Stands
<1>4. CASE Open = <<>> /\ active = 0
  BY <1>2, <1>3, <1>4 DEF Arranging, Landing, Rebuilding
<1>5. ASSUME NEW i \in Focused, active = Open[i][1]
      PROVE  Arranging
  <2>1. i = Len(Open) /\ i \in DOMAIN Open
    BY OpenAssumption
  <2>2. Open[i] \in Seq(Protected) /\ Len(Open[i]) \in Nat \ {0}
    BY <1>1, <2>1
  <2>3. Open[i][1] \in ToSet(Open[i]) /\ Open[i][1] \in Protected
    BY <2>2 DEF ToSet
  <2>4. active # 0
    BY <1>5, <2>3, OpenAssumption
  <2>5. i \in DOMAIN cols /\ i >= Len(Open) /\ active \in ToSet(cols[i])
    BY <1>1, <1>5, <2>1, <2>3
  <2> QED
    BY <1>2, <1>3, <2>4, <2>5 DEF Arranging, Landing, Rebuilding
<1> QED
  BY <1>4, <1>5

\* A window that arrives was nowhere.
LEMMA NowhereYet ==
  ASSUME NEW l \in Layouts, NEW arr \in SUBSET DOMAIN l, NEW cs, Len(cs) \in Nat, DOMAIN cs = 1 .. Len(cs),
         Stands(cs, Open, DOMAIN l \ arr), NEW w \in arr
  PROVE  w \notin Windows(cs)
<1> SUFFICES ASSUME NEW i \in 1 .. Len(cs), w \in ToSet(cs[i]) PROVE FALSE
  BY DEF Windows
<1>1. w \notin Protected
  BY LayoutAssumption
<1>2. CASE i <= Len(Open)
  <2>1. i \in 1 .. Len(Open)
    BY <1>2, OpenColumns
  <2>2. cs[i] = Open[i]
    BY <2>1 DEF Stands
  <2> QED
    BY <1>1, <2>1, <2>2, OpenColumns
<1>3. CASE ~(i <= Len(Open))
  <2>1. i \in Len(Open) + 1 .. Len(cs)
    BY <1>3, OpenColumns
  <2>2. PICK v \in DOMAIN l \ arr : cs[i] = <<v>>
    BY <2>1 DEF Stands
  <2>3. ToSet(cs[i]) = {v}
    BY <2>2 DEF ToSet
  <2> QED
    BY <2>3
<1> QED
  BY <1>2, <1>3

LEMMA ArriveStep == Arranging /\ Arrive => Arranging'
<1> SUFFICES ASSUME Arranging, Arrive PROVE Arranging'
  OBVIOUS
<1> DEFINE l == layout
           W == AllWindows(l)
           here == IF active = 0 THEN 0 ELSE ColumnOf(cols, active)
           c == here + 1
<1>1. PICK w \in arriving :
        /\ cols' = InsertAt(cols, c, <<w>>)
        /\ active' \in {w, IF active = 0 THEN w ELSE active}
        /\ arriving' = arriving \ {w}
  BY DEF Arrive
<1>2. layout' = layout /\ floated' = floated /\ step' = step /\ offset' = offset /\ rank' = rank /\ tile' = tile
  BY DEF Arrive, placing
<1>3. step = "idle" /\ floated = {} /\ l \in Layouts /\ arriving \subseteq DOMAIN l /\ cols \in Seq(Seq(W))
  BY <1>1 DEF Arranging, Rebuilding, Landing
<1>4. /\ Stands(cols, Open, DOMAIN l \ arriving) /\ (active = 0 => cols = <<>>)
      /\ active # 0 => \E i \in DOMAIN cols : i >= Len(Open) /\ active \in ToSet(cols[i])
  BY <1>3 DEF Arranging, Landing
<1>5. w \in W /\ w \in DOMAIN l /\ w # 0 /\ w \notin Windows(cols)
  <2>1. w \in DOMAIN l /\ w \in W
    BY <1>3 DEF AllWindows
  <2>2. w # 0
    BY <1>3, <2>1, LayoutAssumption
  <2>3. Len(cols) \in Nat /\ DOMAIN cols = 1 .. Len(cols)
    BY <1>3
  <2>4. w \notin Windows(cols)
    <3>1. arriving \in SUBSET DOMAIN l
      BY <1>3
    <3> HIDE DEF l
    <3> QED
      BY <1>3, <1>4, <2>3, <3>1, NowhereYet
  <2> QED
    BY <2>1, <2>2, <2>4
<1>6. /\ here \in Len(Open) .. Len(cols) /\ Len(Open) \in Nat /\ Len(cols) \in Nat /\ DOMAIN cols = 1 .. Len(cols)
      /\ active # 0 => here \in DOMAIN cols /\ active \in ToSet(cols[here])
  <2>1. Len(Open) \in Nat /\ Len(cols) \in Nat /\ DOMAIN cols = 1 .. Len(cols)
    BY <1>3, OpenColumns
  <2>2. CASE active = 0
    <3>1. Len(cols) = 0
      BY <1>4, <2>2
    <3>2. Len(Open) <= Len(cols)
      BY <1>4 DEF Stands
    <3> QED
      BY <2>1, <2>2, <3>1, <3>2
  <2>3. CASE active # 0
    <3>1. PICK i \in DOMAIN cols : i >= Len(Open) /\ active \in ToSet(cols[i])
      BY <1>4, <2>3
    <3>2. ColumnOf(cols, active) = i
      BY <1>4, <3>1, ColumnIs DEF Stands
    <3> QED
      BY <2>1, <2>3, <3>1, <3>2
  <2> QED
    BY <2>2, <2>3
<1> HIDE DEF here
<1>7. c \in Len(Open) + 1 .. Len(cols) + 1
  BY <1>6
<1> HIDE DEF c
<1>8. /\ cols' \in Seq(Seq(W)) /\ Stands(cols', Open, (DOMAIN l \ arriving) \cup {w})
      /\ c \in DOMAIN cols' /\ cols'[c] = <<w>> /\ Len(cols') = Len(cols) + 1
      /\ \A i \in DOMAIN cols : i < c => cols'[i] = cols[i]
  <2> DEFINE loose == DOMAIN l \ arriving
             r == InsertAt(cols, c, <<w>>)
  <2>1. /\ cols \in Seq(Seq(W)) /\ Len(Open) \in Nat /\ Stands(cols, Open, loose)
        /\ w \in W /\ w \notin Windows(cols)
    BY <1>3, <1>4, <1>5, <1>6
  <2> HIDE DEF W, loose
  <2>2. r \in Seq(Seq(W)) /\ Stands(r, Open, loose \cup {w}) /\ LandsAt(r, cols, c, w)
    BY <1>7, <2>1, ArriveStands
  <2> QED
    BY <1>1, <2>2 DEF LandsAt, loose
<1>9. (DOMAIN l \ arriving) \cup {w} = DOMAIN l \ arriving'
  BY <1>1, <1>5
<1>10. active' # 0 /\ \E i \in DOMAIN cols' : i >= Len(Open) /\ active' \in ToSet(cols'[i])
  <2>1. CASE active' = w
    <3>1. w \in ToSet(cols'[c])
      <4>1. 1 \in DOMAIN cols'[c] /\ cols'[c][1] = w
        BY <1>8
      <4> QED
        BY <4>1 DEF ToSet
    <3>2. c >= Len(Open)
      BY <1>6, <1>7
    <3> QED
      BY <1>5, <1>8, <2>1, <3>1, <3>2
  <2>2. CASE active' # w
    <3>1. active # 0 /\ active' = active
      BY <1>1, <2>2
    <3>2. here \in DOMAIN cols /\ active \in ToSet(cols[here]) /\ here < c /\ here >= Len(Open)
      BY <1>6, <3>1 DEF c
    <3>3. here \in DOMAIN cols'
      BY <1>6, <1>8, <3>2
    <3> QED
      BY <1>8, <3>1, <3>2, <3>3
  <2> QED
    BY <2>1, <2>2
<1> QED
  BY <1>1, <1>2, <1>3, <1>8, <1>9, <1>10 DEF Arranging, Landing, Rebuilding

\* The place of tile t of column r: right behind what stands.
PlaceOf(r, t) == IF t = 1 THEN Len(Open) + r ELSE Len(Open) + r + 1

LEMMA BuildingFacts ==
  ASSUME NEW l \in Layouts, NEW r, NEW t, NEW cs, BuildingAt(l, r, t, cs)
  PROVE  /\ r \in DOMAIN SavedColumns(l) /\ t \in DOMAIN Tiles(l, r) /\ t - 1 \in 0 .. Len(Tiles(l, r)) - 1
         /\ t \in Nat \ {0} /\ r \in Nat \ {0} /\ t - 1 + 1 = t
         /\ Built(l, r, t - 1) \in Seq(Seq(AllWindows(l)))
         /\ Len(Built(l, r, t - 1)) \in Nat \ {0} \/ t = 1
         /\ Len(Built(l, r, t - 1)) + 1 = PlaceOf(r, t)
         /\ t # 1 => Built(l, r, t - 1)[Len(Built(l, r, t - 1))] = SubSeq(Tiles(l, r), 1, t - 1)
         /\ Tiles(l, r)[t] \in Loose(l, r, t - 1) /\ Loose(l, r, t) = Loose(l, r, t - 1) \ {Tiles(l, r)[t]}
         /\ Tiles(l, r)[t] \in AllWindows(l)
<1> DEFINE n == t - 1
           B == Built(l, r, n)
<1>1. r \in DOMAIN SavedColumns(l) /\ t \in DOMAIN Tiles(l, r)
  BY DEF BuildingAt
<1>2. /\ Tiles(l, r) \in Seq(TiledIn(l)) /\ Len(Tiles(l, r)) \in Nat \ {0}
      /\ DOMAIN SavedColumns(l) = 1 .. Len(SavedColumns(l)) /\ Len(SavedColumns(l)) \in Nat
  <2>1. Tiles(l, r) \in Seq(TiledIn(l)) /\ Len(Tiles(l, r)) \in Nat \ {0}
    BY <1>1, SavedColumnsListed
  <2>2. DOMAIN SavedColumns(l) = 1 .. Len(SavedColumns(l)) /\ Len(SavedColumns(l)) \in Nat
    BY SavedColumnsListed
  <2> QED
    BY <2>1, <2>2
<1>3. /\ t \in 1 .. Len(Tiles(l, r)) /\ r \in 1 .. Len(SavedColumns(l)) + 1 /\ r \in Nat \ {0}
      /\ Tiles(l, r)[t] \in TiledIn(l) /\ Len(Open) \in Nat
  BY <1>1, <1>2, OpenColumns
<1>4. n \in 0 .. Len(Tiles(l, r)) - 1 /\ n + 1 = t /\ t \in Nat \ {0} /\ n \in Nat /\ (n = 0 <=> t = 1)
      /\ n <= Len(Tiles(l, r))
  BY <1>2, <1>3
<1> HIDE DEF n
<1>5. /\ B \in Seq(Seq(AllWindows(l))) /\ Len(B) = IF n = 0 THEN Len(Open) + r - 1 ELSE Len(Open) + r
      /\ n # 0 => B[Len(Open) + r] = SubSeq(Tiles(l, r), 1, n)
  <2>1. n \in Nat /\ r \in 1 .. Len(SavedColumns(l)) + 1
        /\ (n # 0 => r \in DOMAIN SavedColumns(l) /\ n <= Len(Tiles(l, r)))
    BY <1>1, <1>3, <1>4
  <2> QED
    BY <2>1, FrontIs
<1> HIDE DEF B
<1>6. Len(B) + 1 = PlaceOf(r, t) /\ (Len(B) \in Nat \ {0} \/ t = 1)
  BY <1>3, <1>4, <1>5 DEF PlaceOf
<1>7. t # 1 => B[Len(B)] = SubSeq(Tiles(l, r), 1, n)
  BY <1>4, <1>5
<1>8. Tiles(l, r)[n + 1] \in Loose(l, r, n) /\ Loose(l, r, n + 1) = Loose(l, r, n) \ {Tiles(l, r)[n + 1]}
  BY <1>1, <1>4, StandingGrows
<1>9. Tiles(l, r)[t] \in AllWindows(l)
  BY <1>3 DEF TiledIn, AllWindows
<1> QED
  BY <1>1, <1>3, <1>4, <1>5, <1>6, <1>7, <1>8, <1>9 DEF n, B

\* Moving the column of a tile to its place.
LEMMA TileMoves ==
  ASSUME NEW l \in Layouts, NEW r, NEW t, NEW cs \in Seq(Seq(AllWindows(l))), BuildingAt(l, r, t, cs)
  PROVE  /\ WithMoved(cs, Tiles(l, r)[t], PlaceOf(r, t)) \in Seq(Seq(AllWindows(l)))
         /\ BuildingAt(l, r, t, WithMoved(cs, Tiles(l, r)[t], PlaceOf(r, t)))
         /\ PlaceOf(r, t) <= Len(WithMoved(cs, Tiles(l, r)[t], PlaceOf(r, t)))
         /\ WithMoved(cs, Tiles(l, r)[t], PlaceOf(r, t))[PlaceOf(r, t)] = <<Tiles(l, r)[t]>>
         /\ t = 1 => Stands(WithMoved(cs, Tiles(l, r)[t], PlaceOf(r, t)), Built(l, r, t), Loose(l, r, t))
<1> DEFINE n == t - 1
           w == Tiles(l, r)[t]
           B == Built(l, r, n)
           W == AllWindows(l)
           q == WithMoved(cs, w, PlaceOf(r, t))
<1>1. /\ r \in DOMAIN SavedColumns(l) /\ t \in DOMAIN Tiles(l, r) /\ n \in 0 .. Len(Tiles(l, r)) - 1 /\ n + 1 = t
      /\ B \in Seq(Seq(W)) /\ Len(B) + 1 = PlaceOf(r, t)
      /\ w \in Loose(l, r, n) /\ Loose(l, r, t) = Loose(l, r, n) \ {w} /\ w \in W
  <2>1. r \in DOMAIN SavedColumns(l) /\ t \in DOMAIN Tiles(l, r) /\ n \in 0 .. Len(Tiles(l, r)) - 1 /\ n + 1 = t
    BY BuildingFacts
  <2>2. B \in Seq(Seq(W)) /\ Len(B) + 1 = PlaceOf(r, t)
    BY BuildingFacts
  <2>3. w \in Loose(l, r, n) /\ Loose(l, r, t) = Loose(l, r, n) \ {w} /\ w \in W
    BY BuildingFacts
  <2> QED
    BY <2>1, <2>2, <2>3
<1>2. Stands(cs, B, Loose(l, r, n))
  BY DEF BuildingAt
<1> HIDE DEF n, w, B, W
<1>3. cs \in Seq(Seq(W)) /\ Len(B) \in Nat
  BY <1>1 DEF W
<1>4. q \in Seq(Seq(W)) /\ Stands(q, B, Loose(l, r, n)) /\ Len(B) + 1 <= Len(q) /\ q[Len(B) + 1] = <<w>>
  <2> DEFINE p == WithMoved(cs, w, Len(B) + 1)
             X == Loose(l, r, n)
  <2>1. w \in X /\ Stands(cs, B, X)
    BY <1>1, <1>2
  <2> HIDE DEF X
  <2>2. p \in Seq(Seq(W)) /\ Stands(p, B, X) /\ Len(B) + 1 <= Len(p) /\ p[Len(B) + 1] = <<w>>
    BY <1>3, <2>1, MoveStands
  <2> QED
    BY <1>1, <2>2 DEF X
<1> HIDE DEF q
<1>5. ASSUME t = 1 PROVE Stands(q, Built(l, r, t), Loose(l, r, t))
  <2>1. Stands(q, Append(B, <<w>>), Loose(l, r, n) \ {w})
    BY <1>1, <1>4, SeedStands
  <2>2. Built(l, r, n + 1) = Append(B, <<Tiles(l, r)[n + 1]>>)
    <3>1. n = 0
      BY <1>5 DEF n
    <3> QED
      BY <1>1, <3>1, BuiltGrows DEF B
  <2> QED
    BY <1>1, <2>1, <2>2 DEF w
<1> QED
  BY <1>1, <1>4, <1>5 DEF q, W, w, B, n, BuildingAt

\* The seed consumes the tile that stands right behind its column.
LEMMA TileConsumed ==
  ASSUME NEW l \in Layouts, NEW r, NEW t, NEW cs \in Seq(Seq(AllWindows(l))), BuildingAt(l, r, t, cs), t # 1,
         PlaceOf(r, t) <= Len(cs), cs[PlaceOf(r, t)] = <<Tiles(l, r)[t]>>
  PROVE  /\ WithConsumed(cs, Tiles(l, r)[1]) \in Seq(Seq(AllWindows(l)))
         /\ Stands(WithConsumed(cs, Tiles(l, r)[1]), Built(l, r, t), Loose(l, r, t))
<1> DEFINE n == t - 1
           w == Tiles(l, r)[t]
           s == Tiles(l, r)[1]
           B == Built(l, r, n)
           W == AllWindows(l)
           q == WithConsumed(cs, s)
<1>1. /\ r \in DOMAIN SavedColumns(l) /\ t \in DOMAIN Tiles(l, r) /\ n \in 0 .. Len(Tiles(l, r)) - 1 /\ n + 1 = t
      /\ B \in Seq(Seq(W)) /\ Len(B) + 1 = PlaceOf(r, t) /\ Len(B) \in Nat \ {0}
      /\ w \in Loose(l, r, n) /\ Loose(l, r, t) = Loose(l, r, n) \ {w} /\ w \in W
      /\ B[Len(B)] = SubSeq(Tiles(l, r), 1, n) /\ t \in Nat \ {0}
  <2>1. /\ r \in DOMAIN SavedColumns(l) /\ t \in DOMAIN Tiles(l, r) /\ n \in 0 .. Len(Tiles(l, r)) - 1
        /\ n + 1 = t /\ t \in Nat \ {0}
    BY BuildingFacts
  <2>2. B \in Seq(Seq(W)) /\ Len(B) + 1 = PlaceOf(r, t) /\ Len(B) \in Nat \ {0}
    BY BuildingFacts
  <2>3. w \in Loose(l, r, n) /\ Loose(l, r, t) = Loose(l, r, n) \ {w} /\ w \in W
    BY BuildingFacts
  <2>4. B[Len(B)] = SubSeq(Tiles(l, r), 1, n)
    BY BuildingFacts
  <2> QED
    BY <2>1, <2>2, <2>3, <2>4
<1>2. Stands(cs, B, Loose(l, r, n))
  BY DEF BuildingAt
<1>3. n # 0 /\ n \in Nat
  BY <1>1
<1>4. s \in ToSet(B[Len(B)])
  <2>1. Tiles(l, r) \in Seq(TiledIn(l)) /\ n \in 1 .. Len(Tiles(l, r))
    <3>1. Tiles(l, r) \in Seq(TiledIn(l)) /\ Len(Tiles(l, r)) \in Nat
      BY <1>1, SavedColumnsListed
    <3> QED
      BY <1>1, <1>3, <3>1
  <2> DEFINE T == Tiles(l, r)
             p == SubSeq(T, 1, n)
  <2> HIDE DEF T, n
  <2>2. 1 \in DOMAIN p /\ p[1] = T[1]
    BY <2>1 DEF T
  <2> HIDE DEF p
  <2>3. T[1] \in ToSet(p)
    BY <2>2 DEF ToSet
  <2> QED
    BY <1>1, <2>3 DEF p, T
<1> HIDE DEF n, w, s, B, W
<1>5. cs \in Seq(Seq(W)) /\ Len(B) + 1 <= Len(cs) /\ cs[Len(B) + 1] = <<w>> /\ Len(B) > 0
  BY <1>1 DEF W, w
<1>6. q \in Seq(Seq(W)) /\ Stands(q, [B EXCEPT ![Len(B)] = Append(@, w)], Loose(l, r, n) \ {w})
  BY <1>1, <1>2, <1>4, <1>5, ConsumeStands
<1> HIDE DEF q
<1>7. Built(l, r, n + 1) = [B EXCEPT ![Len(B)] = Append(@, Tiles(l, r)[n + 1])]
  BY <1>1, <1>3, BuiltGrows DEF B
<1> QED
  BY <1>1, <1>6, <1>7 DEF q, W, w, s
-----------------------------------------------------------------------------
(* The steps of arrange_workspace. *)

LEMMA BeginStep == Arranging /\ BeginArranging => Arranging'
<1> SUFFICES ASSUME Arranging, BeginArranging PROVE Arranging'
  OBVIOUS
<1>1. /\ step = "idle" /\ arriving = {} /\ offset' = Offset(cols) /\ rank' = 1 /\ tile' = 1
      /\ step' = IF SavedColumns(layout) = <<>> THEN "float" ELSE "focus"
      /\ layout' = layout /\ arriving' = arriving /\ cols' = cols /\ active' = active /\ floated' = floated
  BY DEF BeginArranging
<1>2. /\ layout \in Layouts /\ cols \in Seq(Seq(AllWindows(layout))) /\ arriving \subseteq DOMAIN layout
      /\ floated = {} /\ Stands(cols, Open, DOMAIN layout \ arriving)
  BY <1>1 DEF Arranging, Landing
<1>3. Len(cols) \in Nat /\ DOMAIN cols = 1 .. Len(cols) /\ Stands(cols, Open, DOMAIN layout)
  <2>1. DOMAIN layout \ arriving = DOMAIN layout
    BY <1>1
  <2> QED
    BY <1>2, <2>1
<1>4. /\ Offset(cols) = Len(Open) /\ (SavedColumns(layout) = <<>> => AllBuilt(layout, cols, {}))
      /\ SavedColumns(layout) # <<>> => BuildingAt(layout, 1, 1, cols)
  BY <1>2, <1>3, BeginStands
<1> QED
  BY <1>1, <1>2, <1>4 DEF Arranging, Landing, Rebuilding

LEMMA FocusStep == Arranging /\ FocusTile => Arranging'
<1> SUFFICES ASSUME Arranging, FocusTile PROVE Arranging'
  OBVIOUS
<1> USE DEF FocusTile
<1> QED
  BY DEF Arranging, Landing, Rebuilding

LEMMA FocusSeedStep == Arranging /\ FocusSeed => Arranging'
<1> SUFFICES ASSUME Arranging, FocusSeed PROVE Arranging'
  OBVIOUS
<1> USE DEF FocusSeed
<1> QED
  BY DEF Arranging, Landing, Rebuilding

\* Once a tile is in place the next one follows, or every column is built.
LEMMA NextTileStep ==
  ASSUME layout \in Layouts, rank \in DOMAIN SavedColumns(layout), tile \in DOMAIN Tiles(layout, rank),
         Stands(cols', Built(layout, rank, tile), Loose(layout, rank, tile)), NextTile
  PROVE  \/ step' = "focus" /\ BuildingAt(layout, rank', tile', cols')
         \/ step' = "float" /\ AllBuilt(layout, cols', {})
<1> DEFINE q == cols'
           K == Len(SavedColumns(layout))
           n == Len(Tiles(layout, rank))
<1>1. /\ tile < n => BuildingAt(layout, rank, tile + 1, q)
      /\ tile >= n /\ rank < K => BuildingAt(layout, rank + 1, 1, q)
      /\ tile >= n /\ rank >= K => AllBuilt(layout, q, {})
  <2> HIDE DEF q
  <2>1. Stands(q, Built(layout, rank, tile), Loose(layout, rank, tile))
    BY DEF q
  <2> QED
    BY <2>1, NextPlace
<1> HIDE DEF q
<1>2. \/ tile < n /\ step' = "focus" /\ tile' = tile + 1 /\ rank' = rank
      \/ tile >= n /\ rank < K /\ step' = "focus" /\ tile' = 1 /\ rank' = rank + 1
      \/ tile >= n /\ rank >= K /\ step' = "float"
  BY DEF NextTile
<1> HIDE DEF n, K
<1> QED
  BY <1>1, <1>2 DEF q

LEMMA MoveStep == Arranging /\ MoveColumnToIndex => Arranging'
<1> SUFFICES ASSUME Arranging, MoveColumnToIndex PROVE Arranging'
  OBVIOUS
<1> DEFINE w == Tiles(layout, rank)[tile]
<1>1. /\ step = "move" /\ cols' = WithMoved(cols, active, TileIndex)
      /\ layout' = layout /\ arriving' = arriving /\ active' = active /\ floated' = floated /\ offset' = offset
      /\ IF tile = 1 THEN NextTile ELSE step' = "seed" /\ rank' = rank /\ tile' = tile
  BY DEF MoveColumnToIndex
<1>2. /\ layout \in Layouts /\ cols \in Seq(Seq(AllWindows(layout))) /\ arriving = {}
      /\ floated = {} /\ offset = Len(Open) /\ BuildingAt(layout, rank, tile, cols) /\ active = w
  BY <1>1 DEF Arranging, Rebuilding
<1>3. cols' = WithMoved(cols, w, PlaceOf(rank, tile))
  BY <1>1, <1>2 DEF TileIndex, PlaceOf
<1>4. /\ cols' \in Seq(Seq(AllWindows(layout))) /\ BuildingAt(layout, rank, tile, cols')
      /\ PlaceOf(rank, tile) <= Len(cols') /\ cols'[PlaceOf(rank, tile)] = <<w>>
      /\ tile = 1 => Stands(cols', Built(layout, rank, tile), Loose(layout, rank, tile))
  BY <1>2, <1>3, TileMoves
<1> HIDE DEF w
<1>5. CASE tile = 1
  <2>1. rank \in DOMAIN SavedColumns(layout) /\ tile \in DOMAIN Tiles(layout, rank)
    BY <1>2 DEF BuildingAt
  <2>2. \/ step' = "focus" /\ BuildingAt(layout, rank', tile', cols')
        \/ step' = "float" /\ AllBuilt(layout, cols', {})
    BY <1>1, <1>2, <1>4, <1>5, <2>1, NextTileStep
  <2> QED
    BY <1>1, <1>2, <1>4, <2>2 DEF Arranging, Landing, Rebuilding
<1>6. CASE tile # 1
  <2>1. step' = "seed" /\ rank' = rank /\ tile' = tile /\ PlaceOf(rank, tile) = Len(Open) + rank + 1
    BY <1>1, <1>6 DEF PlaceOf
  <2> QED
    BY <1>1, <1>2, <1>4, <1>6, <2>1 DEF Arranging, Landing, Rebuilding, w
<1> QED
  BY <1>5, <1>6

LEMMA ConsumeStep == Arranging /\ ConsumeWindowIntoColumn => Arranging'
<1> SUFFICES ASSUME Arranging, ConsumeWindowIntoColumn PROVE Arranging'
  OBVIOUS
<1>1. /\ step = "consume" /\ cols' = WithConsumed(cols, active) /\ NextTile
      /\ layout' = layout /\ arriving' = arriving /\ active' = active /\ floated' = floated /\ offset' = offset
  BY DEF ConsumeWindowIntoColumn
<1>2. /\ layout \in Layouts /\ cols \in Seq(Seq(AllWindows(layout))) /\ arriving = {}
      /\ floated = {} /\ offset = Len(Open) /\ BuildingAt(layout, rank, tile, cols) /\ tile # 1
      /\ PlaceOf(rank, tile) <= Len(cols) /\ cols[PlaceOf(rank, tile)] = <<Tiles(layout, rank)[tile]>>
      /\ active = Tiles(layout, rank)[1]
  BY <1>1 DEF Arranging, Rebuilding, PlaceOf
<1>3. /\ cols' \in Seq(Seq(AllWindows(layout)))
      /\ Stands(cols', Built(layout, rank, tile), Loose(layout, rank, tile))
  BY <1>1, <1>2, TileConsumed
<1>4. rank \in DOMAIN SavedColumns(layout) /\ tile \in DOMAIN Tiles(layout, rank)
  BY <1>2 DEF BuildingAt
<1>5. \/ step' = "focus" /\ BuildingAt(layout, rank', tile', cols')
      \/ step' = "float" /\ AllBuilt(layout, cols', {})
  BY <1>1, <1>2, <1>3, <1>4, NextTileStep
<1> QED
  BY <1>1, <1>2, <1>3, <1>5 DEF Arranging, Landing, Rebuilding

LEMMA FloatStep == Arranging /\ MoveWindowToFloating => Arranging'
<1> SUFFICES ASSUME Arranging, MoveWindowToFloating PROVE Arranging'
  OBVIOUS
<1> DEFINE k == Len(SavedColumns(layout)) + 1
           F == Built(layout, k, 0)
           X == Loose(layout, k, 0)
           W == AllWindows(layout)
<1>1. PICK w \in ToFloat : cols' = WithoutWindow(cols, w) /\ floated' = floated \cup {w}
  BY DEF MoveWindowToFloating
<1>2. /\ step = "float" /\ layout' = layout /\ arriving' = arriving /\ step' = step /\ offset' = offset
      /\ rank' = rank /\ tile' = tile
  BY DEF MoveWindowToFloating, placing
<1>3. /\ layout \in Layouts /\ cols \in Seq(Seq(W)) /\ arriving = {} /\ offset = Len(Open)
      /\ Stands(cols, F, X \ floated)
  BY <1>2 DEF Arranging, Rebuilding, AllBuilt
<1>4. w \in X \ floated
  <2>1. w \in DOMAIN layout /\ layout[w].floating /\ w \notin floated
    BY <1>1 DEF ToFloat
  <2>2. w \notin TiledIn(layout)
    BY <2>1 DEF TiledIn
  <2> QED
    BY <2>1, <2>2 DEF Loose, Standing
<1>5. Len(F) \in Nat
  <2>1. Len(SavedColumns(layout)) \in Nat
    BY <1>3, SavedColumnsListed
  <2>2. k \in 1 .. Len(SavedColumns(layout)) + 1
    BY <2>1
  <2> HIDE DEF k
  <2>3. F \in Seq(Seq(W))
    BY <1>3, <2>2, FrontIs
  <2> QED
    BY <2>3
<1> HIDE DEF F, X, W
<1>6. cols' \in Seq(Seq(W)) /\ Stands(cols', F, (X \ floated) \ {w})
  BY <1>1, <1>3, <1>4, <1>5, FloatStands
<1>7. (X \ floated) \ {w} = X \ floated'
  BY <1>1
<1>8. AllBuilt(layout, cols', floated')
  BY <1>6, <1>7 DEF AllBuilt, F, X
<1> QED
  BY <1>2, <1>3, <1>6, <1>8 DEF Arranging, Landing, Rebuilding, W

LEMMA ArrangingNext == Arranging /\ [ArrangeNext]_arrangeVars => Arranging'
<1> SUFFICES ASSUME Arranging, [ArrangeNext]_arrangeVars PROVE Arranging'
  OBVIOUS
<1>1. CASE EndArranging
  BY <1>1 DEF EndArranging, Arranging, Landing, Rebuilding
<1>2. CASE UNCHANGED arrangeVars
  BY <1>2 DEF arrangeVars, placing, Arranging, Landing, Rebuilding
<1>3. Arranged => UNCHANGED arrangeVars
  BY DEF Arranged
<1> QED
  BY <1>1, <1>2, <1>3, ArriveStep, BeginStep, FocusStep, MoveStep, FocusSeedStep, ConsumeStep, FloatStep
     DEF ArrangeNext

\* The last open column is active when the run starts, so that every new window lands behind the
\* open ones.
LEMMA ArrangingHolds == Focused \subseteq {Len(Open)} => (ArrangeSpec => []Arranging)
<1> SUFFICES ASSUME Focused \subseteq {Len(Open)} PROVE ArrangeSpec => []Arranging
  OBVIOUS
<1>1. ArrangeInit => Arranging
  BY ArrangingInit
<1>2. Arranging /\ [ArrangeNext]_arrangeVars => Arranging'
  BY ArrangingNext
<1> QED
  BY <1>1, <1>2, PTL DEF ArrangeSpec

\* When arrange_workspace is done, what stands is what the layout says.
LEMMA BuiltColumns == Arranging => RebuiltInOrder
<1> SUFFICES ASSUME Arranging, step = "done" PROVE
      IsPrefix(Open \o [r \in DOMAIN SavedColumns(layout) |-> Tiles(layout, r)], cols)
  BY DEF RebuiltInOrder
<1> DEFINE l == layout
           N == Len(Open)
           K == Len(SavedColumns(l))
           F == Built(l, K + 1, 0)
           S == [r \in DOMAIN SavedColumns(l) |-> Tiles(l, r)]
           W == AllWindows(l)
           G == Open \o S
<1>1. l \in Layouts /\ cols \in Seq(Seq(W)) /\ Stands(cols, F, Loose(l, K + 1, 0) \ floated)
  BY DEF Arranging, Rebuilding, AllBuilt
<1>2. /\ N \in Nat /\ K \in Nat /\ DOMAIN SavedColumns(l) = 1 .. K /\ Open \in Seq(Seq(Protected))
      /\ DOMAIN Open = 1 .. N
  BY <1>1, OpenColumns, SavedColumnsListed
<1> HIDE DEF l, K, W
<1>3. /\ Len(F) = N + K /\ \A i \in 1 .. N + K : F[i] = Whole(l, i)
  <2> DEFINE k == K + 1
  <2>1. k \in 1 .. Len(SavedColumns(l)) + 1 /\ N + k - 1 = N + K
    BY <1>2 DEF K
  <2> HIDE DEF k, N
  <2>2. /\ Len(Built(l, k, 0)) = Len(Open) + k - 1
        /\ \A i \in 1 .. Len(Open) + k - 1 : Built(l, k, 0)[i] = Whole(l, i)
    BY <1>1, <2>1, FrontIs
  <2> QED
    BY <2>1, <2>2 DEF k, N
<1>4. /\ Len(G) = N + K /\ DOMAIN G = 1 .. N + K
      /\ \A i \in 1 .. N + K : G[i] = IF i <= N THEN Open[i] ELSE Tiles(l, i - N)
  <2> DEFINE A == Seq(Protected)
             D == {Tiles(l, r) : r \in 1 .. K}
             E == A \cup D
  <2>1. S \in [1 .. K -> D] /\ Open \in Seq(A)
    BY <1>2
  <2>2. \A i \in 1 .. K : S[i] = Tiles(l, i)
    BY <1>2
  <2> HIDE DEF A, D, S, N
  <2>3. S \in Seq(D) /\ Len(S) = K
    BY <1>2, <2>1
  <2>4. S \in Seq(E) /\ Open \in Seq(E)
    <3>1. A \subseteq E /\ D \subseteq E
      OBVIOUS
    <3> HIDE DEF E
    <3> QED
      BY <2>1, <2>3, <3>1
  <2> HIDE DEF E
  <2>5. /\ G \in Seq(E) /\ Len(G) = N + K
        /\ \A i \in 1 .. N + K : G[i] = IF i <= N THEN Open[i] ELSE S[i - N]
    BY <2>3, <2>4 DEF N
  <2> HIDE DEF G
  <2>6. \A i \in 1 .. N + K : ~(i <= N) => i - N \in 1 .. K
    BY <1>2
  <2> QED
    BY <2>2, <2>5, <2>6
<1> HIDE DEF G, F, N, S
<1>5. N + K <= Len(cols) /\ \A i \in 1 .. N + K : cols[i] = F[i]
  BY <1>1, <1>3 DEF Stands
<1>6. \A i \in 1 .. N + K : G[i] = cols[i]
  BY <1>3, <1>4, <1>5 DEF Whole, N
<1>7. IsPrefix(G, cols)
  BY <1>2, <1>1, <1>4, <1>5, <1>6 DEF IsPrefix
<1> QED
  BY <1>7 DEF G, S, l

\* Whatever is built, the open columns are the first ones.
LEMMA OpenColumnsFirst ==
  ASSUME Arranging
  PROVE  /\ cols \in Seq(Seq(AllWindows(layout))) /\ Once(cols) /\ Len(Open) <= Len(cols)
         /\ \A i \in 1 .. Len(Open) : cols[i] = Open[i]
<1> DEFINE l == layout
           K == Len(SavedColumns(l))
<1>1. l \in Layouts /\ cols \in Seq(Seq(AllWindows(l))) /\ Len(Open) \in Nat
  BY OpenColumns DEF Arranging
<1>2. K \in Nat /\ DOMAIN SavedColumns(l) = 1 .. K
  BY <1>1, SavedColumnsListed
<1>3. CASE step = "idle"
  BY <1>1, <1>3 DEF Arranging, Landing, Stands
<1> HIDE DEF l
<1>4. ASSUME NEW r \in 1 .. K + 1, NEW n \in Nat, NEW X, Stands(cols, Built(l, r, n), X),
             n # 0 => r \in DOMAIN SavedColumns(l) /\ n <= Len(Tiles(l, r))
      PROVE  Once(cols) /\ Len(Open) <= Len(cols) /\ \A i \in 1 .. Len(Open) : cols[i] = Open[i]
  <2>1. /\ Len(Built(l, r, n)) = IF n = 0 THEN Len(Open) + r - 1 ELSE Len(Open) + r
        /\ \A i \in 1 .. Len(Open) + r - 1 : Built(l, r, n)[i] = Whole(l, i)
    BY <1>1, <1>4, FrontIs
  <2> DEFINE B == Built(l, r, n)
  <2> HIDE DEF B, K
  <2>2. /\ Len(B) \in Nat /\ Len(Open) <= Len(B) /\ \A i \in 1 .. Len(Open) : i \in 1 .. Len(B) /\ B[i] = Open[i]
    <3>1. Len(B) \in Nat /\ Len(Open) <= Len(B) /\ Len(Open) <= Len(Open) + r - 1
      BY <1>1, <1>2, <2>1 DEF B
    <3> SUFFICES ASSUME NEW i \in 1 .. Len(Open) PROVE i \in 1 .. Len(B) /\ B[i] = Open[i]
      BY <3>1
    <3>2. i \in 1 .. Len(B) /\ i \in 1 .. Len(Open) + r - 1 /\ i <= Len(Open)
      BY <1>1, <1>2, <3>1
    <3> QED
      BY <2>1, <3>2 DEF Whole, B
  <2>3. Once(cols) /\ Len(B) <= Len(cols) /\ \A i \in 1 .. Len(B) : cols[i] = B[i]
    BY <1>4 DEF Stands, B
  <2> QED
    BY <1>1, <2>2, <2>3
<1> HIDE DEF K
<1>5. CASE step \in {"focus", "move", "seed", "consume"}
  <2>1. BuildingAt(l, rank, tile, cols)
    BY <1>5 DEF Arranging, Rebuilding, l
  <2>2. /\ rank \in DOMAIN SavedColumns(l) /\ tile - 1 \in 0 .. Len(Tiles(l, rank)) - 1 /\ tile \in Nat \ {0}
    BY <1>1, <2>1, BuildingFacts
  <2>3. Len(Tiles(l, rank)) \in Nat
    BY <1>1, <2>2, SavedColumnsListed
  <2>4. rank \in 1 .. K + 1 /\ tile - 1 \in Nat /\ tile - 1 <= Len(Tiles(l, rank))
    BY <1>2, <2>2, <2>3
  <2>5. Stands(cols, Built(l, rank, tile - 1), Loose(l, rank, tile - 1))
    BY <2>1 DEF BuildingAt
  <2> QED
    BY <1>1, <1>4, <2>2, <2>4, <2>5 DEF l
<1>6. CASE step \in {"float", "done"}
  <2>1. Stands(cols, Built(l, K + 1, 0), Loose(l, K + 1, 0) \ floated)
    BY <1>6 DEF Arranging, Rebuilding, AllBuilt, l, K
  <2>2. K + 1 \in 1 .. K + 1
    BY <1>2
  <2> QED
    BY <1>1, <1>4, <2>1, <2>2 DEF l
<1>7. step \in {"idle", "focus", "move", "seed", "consume", "float", "done"}
  BY DEF Arranging
<1> QED
  BY <1>3, <1>5, <1>6, <1>7

\* A window of theirs is in no other column, as no window is in two.
LEMMA OpenColumnsStand == Arranging => OpenColumnsUndisturbed
<1> SUFFICES ASSUME Arranging PROVE OpenColumnsUndisturbed
  OBVIOUS
<1> DEFINE at == [i \in DOMAIN Open |-> i]
<1>1. /\ cols \in Seq(Seq(AllWindows(layout))) /\ Once(cols) /\ Len(Open) <= Len(cols)
      /\ \A i \in 1 .. Len(Open) : cols[i] = Open[i]
  BY OpenColumnsFirst
<1>2. Len(Open) \in Nat /\ DOMAIN Open = 1 .. Len(Open)
  BY OpenColumns
<1>3. Len(cols) \in Nat /\ DOMAIN cols = 1 .. Len(cols)
  BY <1>1
<1>4. at \in [DOMAIN Open -> DOMAIN cols] /\ \A i \in DOMAIN Open : at[i] = i /\ cols[at[i]] = Open[i]
  BY <1>1, <1>2, <1>3
<1>5. ASSUME NEW n \in DOMAIN cols, n \notin {at[i] : i \in DOMAIN Open}, NEW w \in ToSet(cols[n]) \cap Protected
      PROVE  FALSE
  <2>1. PICK i \in DOMAIN Open : w \in ToSet(Open[i])
    BY <1>5 DEF Protected, Windows
  <2>2. i \in DOMAIN cols /\ cols[i] = Open[i] /\ i # n
    BY <1>2, <1>3, <1>4, <1>5
  <2>3. ColumnOf(cols, w) = i /\ ColumnOf(cols, w) = n
    BY <1>1, <1>5, <2>1, <2>2, ColumnIs
  <2> QED
    BY <2>2, <2>3
<1> HIDE DEF at
<1>6. \A i, j \in DOMAIN Open : i < j => at[i] < at[j]
  BY <1>4
<1> QED
  BY <1>4, <1>5, <1>6 DEF OpenColumnsUndisturbed

\* reopen.arrange_workspace rebuilds what was saved, whatever the layout and wherever the new
\* windows landed: when it is done the open columns come first, then every saved column in the
\* saved order, each with its tiles in theirs.  The last open column must be active when the run
\* starts: a window that lands between two open columns is counted among them by the offset.
THEOREM SavedColumnsRebuilt == Focused \subseteq {Len(Open)} => (ArrangeSpec => []RebuiltInOrder)
<1> SUFFICES ASSUME Focused \subseteq {Len(Open)} PROVE ArrangeSpec => []RebuiltInOrder
  OBVIOUS
<1> QED
  BY ArrangingHolds, BuiltColumns, PTL

\* At every step of it, arrival, move, consume or float, the columns that were open before stand
\* in their order with their tiles, and no other column holds a window of theirs.
THEOREM OpenColumnsStay == Focused \subseteq {Len(Open)} => (ArrangeSpec => []OpenColumnsUndisturbed)
<1> SUFFICES ASSUME Focused \subseteq {Len(Open)} PROVE ArrangeSpec => []OpenColumnsUndisturbed
  OBVIOUS
<1> QED
  BY ArrangingHolds, OpenColumnsStand, PTL
=============================================================================
