--------------------------- MODULE RecoveryProofs ---------------------------
(***************************************************************************)
(* For any approvals, state roots, conversations and compositor sessions:  *)
(* nothing is begun over an unresolved attempt, a worker only ever makes   *)
(* the journalled effects, in their order, and what counts as verified was *)
(* done in full.                                                           *)
(*                                                                         *)
(* None is inductive.  The first rests on the attempt under way being   *)
(* the unresolved one (Claimed).  The second ties the three histories of   *)
(* an attempt to one another (Journalled) and to the place of the command  *)
(* (Underway): only there is it known that the worker owes nothing when    *)
(* the next intent is journalled, and that no permit is out.  The third    *)
(* adds what the command has heard when it takes the final frame (Heard).  *)
(***************************************************************************)
EXTENDS Recovery, FiniteSetTheorems, TLAPS

Early == {"consume", "ready", "start"}

Claimed ==
  /\ \A a \in Approval \ prepared : terminal[a] = "none"
  /\ pc \notin {"idle", "prepare"} => attempt \in prepared /\ terminal[attempt] = "none"

\* The worker is at most one effect behind the intents, the results at most one behind them.
Tied(is, rs, ms, p) ==
  /\ Len(rs) <= Len(is) /\ Len(is) <= Len(rs) + 1
  /\ Len(ms) <= Len(is) /\ Len(is) <= Len(ms) + 1
  /\ \A i \in 1 .. Len(ms) : ms[i] = is[i]
  /\ p # NoTarget => Len(is) = Len(ms) + 1 /\ p = is[Len(is)]

Journalled == \A a \in Approval : Tied(intents[a], results[a], made[a], permit[a])

\* Nothing is on file before the worker is started.
Unstarted ==
  \A a \in Approval : a \notin prepared \/ (pc \in Early /\ a = attempt) =>
    Len(intents[a]) = 0 /\ permit[a] = NoTarget

Underway ==
  /\ pc = "call" => Len(results[attempt]) <= Len(made[attempt])
  /\ pc = "intent" => /\ Len(results[attempt]) = Len(intents[attempt])
                      /\ Len(made[attempt]) = Len(intents[attempt]) /\ asked \in Target
  /\ pc = "permit" =>
       /\ Len(results[attempt]) = Len(made[attempt]) /\ permit[attempt] = NoTarget
       /\ Len(intents[attempt]) = Len(made[attempt]) + 1 /\ asked \in Target
       /\ asked = intents[attempt][Len(intents[attempt])]

IInv == TypeOK /\ Claimed /\ UnresolvedBlocks /\ Journalled /\ Unstarted /\ Underway
-----------------------------------------------------------------------------
LEMMA InitIInv == Init => IInv
<1> SUFFICES ASSUME Init PROVE IInv
  OBVIOUS
<1>1. NoTarget \notin Target
  BY RecoveryAssumption DEF Target
<1>2. \A a \in Approval :
        /\ terminal[a] = "none" /\ permit[a] = NoTarget
        /\ Len(intents[a]) = 0 /\ Len(results[a]) = 0 /\ Len(made[a]) = 0
  BY DEF Init
<1>3. /\ schema \in {"additive", "replacement"} /\ missing \subseteq Ref
      /\ other \in BOOLEAN /\ expired \subseteq Approval
      /\ approved \subseteq Root \X Approval /\ used \subseteq Root \X Approval
      /\ prepared \subseteq Approval /\ ready \subseteq Approval
      /\ root \in Root /\ attempt \in Approval /\ seen \in Nat
  BY DEF Init
<1>4. session \in 0 .. MaxSession /\ planned \in [Approval -> 0 .. MaxSession]
  BY RecoveryAssumption DEF Init
<1>5. terminal \in [Approval -> Statuses \cup {"none"}] /\ reported \in [Approval -> Nat]
  BY DEF Init, Statuses
<1>6. /\ intents \in [Approval -> Seq(Target)] /\ made \in [Approval -> Seq(Target)]
      /\ results \in [Approval -> Seq({"observed", "indeterminate"})]
  <2> \A S : <<>> \in Seq(S)
    OBVIOUS
  <2> QED
    BY DEF Init
<1>7. /\ worker \in [Approval -> {"none", "live", "ok", "failed"}]
      /\ permit \in [Approval -> Target \cup {NoTarget}]
  BY DEF Init
<1>8. /\ pc \in {"idle", "prepare", "consume", "ready", "start", "call", "intent", "permit",
                 "exit", "close", "finish"}
      /\ asked \in Target \cup {NoTarget}
      /\ proof \in {"none", "complete", "incomplete", "interrupted"}
  BY DEF Init
<1>9. TypeOK
  BY <1>3, <1>4, <1>5, <1>6, <1>7, <1>8 DEF TypeOK
<1>10. prepared = {} /\ pc = "idle"
  BY DEF Init
<1>11. Claimed /\ UnresolvedBlocks /\ Unstarted /\ Underway
  BY <1>2, <1>10 DEF Claimed, UnresolvedBlocks, Unstarted, Underway, Early
<1>12. Journalled
  BY <1>2 DEF Journalled, Tied
<1> QED
  BY <1>9, <1>11, <1>12 DEF IInv
-----------------------------------------------------------------------------
\* Steps keep the types.
LEMMA TypeStep ==
  ASSUME TypeOK, Underway, [Next]_vars
  PROVE  TypeOK'
<1> USE RecoveryAssumption
    DEF TypeOK, rigid, outside, filed, ledger, journal, locals, command, effects
<1>1. CASE Prepare
  BY <1>1 DEF Prepare, Goto
<1>2. CASE Consume
  <2>1. used' \subseteq Root \X Approval
    BY <1>2 DEF Consume
  <2>2. /\ pc' \in {"ready", "idle"} /\ root' = root /\ attempt' = attempt
        /\ asked' \in Target \cup {NoTarget} /\ seen' \in Nat
        /\ proof' \in {"none", "complete", "incomplete", "interrupted"}
    BY <1>2 DEF Consume, Over
  <2> QED
    BY <1>2, <2>1, <2>2 DEF Consume
<1>3. CASE Ready
  BY <1>3 DEF Ready, Goto
<1>4. CASE Dies
  BY <1>4 DEF Dies, Over
<1>5. CASE Finish
  BY <1>5 DEF Finish, Over, Verdict, ReceiptStatus, Statuses
<1>6. CASE Start \/ StartFails
  BY <1>6 DEF Start, StartFails, Goto
<1>7. CASE Result \/ WorkerEnded \/ Close
  BY <1>7 DEF Result, WorkerEnded, Close, Goto
<1>8. CASE \E t \in Target : Effect(t)
  BY <1>8 DEF Effect
<1>9. CASE JournalIntent
  <2>1. asked \in Target
    BY <1>9 DEF JournalIntent, Goto, Underway
  <2>2. Append(intents[attempt], asked) \in Seq(Target)
    BY <2>1
  <2>3. intents' \in [Approval -> Seq(Target)]
    BY <1>9, <2>2 DEF JournalIntent, IntentOnFile
  <2> QED
    BY <1>9, <2>3 DEF JournalIntent, Goto
<1>10. CASE Permit
  BY <1>10 DEF Permit, Goto
<1>11. CASE \E o \in {"observed", "indeterminate"} : EffectResult(o)
  <2>1. PICK o \in {"observed", "indeterminate"} : EffectResult(o)
    BY <1>11
  <2>2. Append(results[attempt], o) \in Seq({"observed", "indeterminate"})
    OBVIOUS
  <2>3. results' \in [Approval -> Seq({"observed", "indeterminate"})]
    BY <2>1, <2>2 DEF EffectResult
  <2>4. permit' \in [Approval -> Target \cup {NoTarget}]
    BY <2>1 DEF EffectResult
  <2>5. pc' \in {"call", "close"} /\ seen' \in Nat
    BY <2>1 DEF EffectResult
  <2> QED
    BY <2>1, <2>3, <2>4, <2>5 DEF EffectResult
<1>12. CASE Breaks
  <2>1. intents' \in [Approval -> Seq(Target)]
    <3>1. CASE pc = "intent" /\ Appended(intents, asked)
      <4>1. Append(intents[attempt], asked) \in Seq(Target)
        BY <3>1 DEF Underway
      <4> QED
        BY <3>1, <4>1 DEF Appended
    <3>2. CASE UNCHANGED intents
      BY <3>2
    <3> QED
      BY <1>12, <3>1, <3>2 DEF Breaks
  <2>2. results' \in [Approval -> Seq({"observed", "indeterminate"})]
    <3>1. CASE Appended(results, "observed")
      <4>1. Append(results[attempt], "observed") \in Seq({"observed", "indeterminate"})
        OBVIOUS
      <4> QED
        BY <3>1, <4>1 DEF Appended
    <3>2. CASE UNCHANGED results
      BY <3>2
    <3> QED
      BY <1>12, <3>1, <3>2 DEF Breaks
  <2>3. permit' \in [Approval -> Target \cup {NoTarget}]
    BY <1>12 DEF Breaks
  <2>4. pc' = "close" /\ proof' = "none" /\ asked' = NoTarget
    BY <1>12 DEF Breaks
  <2>5. UNCHANGED <<rigid, outside, filed, ledger, worker, made, root, attempt, seen>>
    BY <1>12 DEF Breaks
  <2> QED
    BY <2>1, <2>2, <2>3, <2>4, <2>5
<1>13. CASE OtherWriter
  <2>1. /\ other' = ~other
        /\ UNCHANGED <<rigid, session, expired, filed, ledger, journal, command, effects>>
    BY <1>13, Zenon DEF OtherWriter
  <2>2. other' \in BOOLEAN
    BY <2>1, Zenon
  <2> QED
    BY <2>1, <2>2
<1>14. CASE \E a \in Approval : Expire(a)
  BY <1>14 DEF Expire
<1>15. CASE \E a \in Approval : Acts(a)
  <2>1. PICK a \in Approval : Acts(a)
    BY <1>15
  <2>2. Append(made[a], permit[a]) \in Seq(Target)
    BY <2>1 DEF Acts
  <2>3. made' \in [Approval -> Seq(Target)]
    BY <2>1, <2>2 DEF Acts
  <2>4. permit' \in [Approval -> Target \cup {NoTarget}]
    BY <2>1 DEF Acts
  <2> QED
    BY <2>1, <2>3, <2>4 DEF Acts
<1>16. CASE \E a \in Approval : Exits(a)
  <2>1. PICK a \in Approval : Exits(a)
    BY <1>16
  <2>2. worker' \in [Approval -> {"none", "live", "ok", "failed"}]
    BY <2>1 DEF Exits
  <2>3. permit' \in [Approval -> Target \cup {NoTarget}]
    BY <2>1 DEF Exits
  <2> QED
    BY <2>1, <2>2, <2>3 DEF Exits
<1>17. CASE \E r \in Root : RootRemoved(r)
  BY <1>17 DEF RootRemoved
<1>18. CASE \E a \in Approval : Propose(a)
  <2>1. PICK a \in Approval : Propose(a)
    BY <1>18
  <2>2. planned' \in [Approval -> 0 .. MaxSession]
    BY <2>1 DEF Propose
  <2> QED
    BY <2>1, <2>2 DEF Propose
<1>19. CASE \E a \in Approval, r \in Root : Approve(r, a)
  <2>1. PICK a \in Approval, r \in Root : Approve(r, a)
    BY <1>19
  <2>2. approved' \subseteq Root \X Approval
    BY <2>1 DEF Approve
  <2> QED
    BY <2>1, <2>2 DEF Approve
<1>20. CASE \E a \in Approval, r \in Root : Execute(r, a)
  BY <1>20 DEF Execute
<1>21. CASE CompositorRestarts
  <2>1. session' = session + 1 /\ session < MaxSession /\ other' = FALSE
    BY <1>21 DEF CompositorRestarts
  <2>2. UNCHANGED <<rigid, expired, filed, ledger, journal, command, effects>>
    BY <1>21, Zenon DEF CompositorRestarts
  <2>3. session' \in 0 .. MaxSession
    BY <2>1
  <2>4. other' \in BOOLEAN
    BY <2>1
  <2> QED
    BY <2>2, <2>3, <2>4
<1>22. CASE UNCHANGED vars
  BY <1>22 DEF vars
<1> QED
  BY <1>1, <1>2, <1>3, <1>4, <1>5, <1>6, <1>7, <1>8, <1>9, <1>10, <1>11,
     <1>12, <1>13, <1>14, <1>15, <1>16, <1>17, <1>18, <1>19, <1>20,
     <1>21, <1>22
     DEF Next, Reconstruct, Call, Outside
-----------------------------------------------------------------------------
\* What the other actions leave of the claim: they go on with it, or give it up.
KeepsClaim ==
  /\ UNCHANGED <<prepared, terminal>>
  /\ \/ pc' \in {"idle", "prepare"}
     \/ UNCHANGED attempt /\ (pc' = pc \/ pc \notin {"idle", "prepare"})

LEMMA OthersKeepClaim ==
  ASSUME Next, ~Prepare, ~Finish
  PROVE  KeepsClaim
<1> USE DEF KeepsClaim, ledger, locals, command
<1>1. CASE Consume \/ Ready \/ Dies
  BY <1>1 DEF Consume, Ready, Dies, Over, Goto
<1>2. CASE Start \/ StartFails \/ Result \/ WorkerEnded \/ Close
  BY <1>2 DEF Start, StartFails, Result, WorkerEnded, Close, Goto
<1>3. CASE JournalIntent \/ Permit \/ Breaks
  BY <1>3 DEF JournalIntent, Permit, Breaks, Goto
<1>4. CASE \E t \in Target : Effect(t)
  BY <1>4 DEF Effect, Frame
<1>5. CASE \E o \in {"observed", "indeterminate"} : EffectResult(o)
  BY <1>5 DEF EffectResult, Reports, Frame
<1>6. CASE OtherWriter \/ CompositorRestarts
  BY <1>6 DEF OtherWriter, CompositorRestarts
<1>7. CASE \E a \in Approval : Expire(a) \/ Acts(a) \/ Exits(a)
  BY <1>7 DEF Expire, Acts, Exits
<1>8. CASE \E r \in Root : RootRemoved(r)
  BY <1>8 DEF RootRemoved
<1>9. CASE \E a \in Approval : Propose(a) \/ \E r \in Root : Approve(r, a) \/ Execute(r, a)
  BY <1>9 DEF Propose, Approve, Execute
<1> QED
  BY <1>1, <1>2, <1>3, <1>4, <1>5, <1>6, <1>7, <1>8, <1>9 DEF Next, Reconstruct, Call, Outside

\* An attempt is claimed only when every earlier one is a proved success.
LEMMA ClaimStep ==
  ASSUME TypeOK, Claimed, UnresolvedBlocks, [Next]_vars
  PROVE  Claimed' /\ UnresolvedBlocks'
<1>1. CASE Prepare
  <2>1. \A a \in prepared : terminal[a] = "verified"
    BY <1>1 DEF Prepare, Available, Admissible, Succeeded, AttemptStatus
  <2>2. /\ attempt \notin prepared /\ prepared' = prepared \cup {attempt}
        /\ terminal' = terminal /\ attempt' = attempt
    BY <1>1 DEF Prepare, Unclaimed, locals
  <2>3. attempt \in Approval
    BY DEF TypeOK
  <2> QED
    BY <2>1, <2>2, <2>3 DEF Claimed, UnresolvedBlocks
<1>2. CASE Finish
  <2>1. /\ attempt \in prepared /\ prepared' = prepared /\ pc' = "idle"
        /\ terminal' = [terminal EXCEPT ![attempt] = Verdict]
    BY <1>2 DEF Finish, Over, Claimed
  <2>2. \A a \in prepared \ {attempt} : terminal[a] = "verified"
    BY <1>2, <2>1 DEF Finish, Claimed, UnresolvedBlocks
  <2>3. \A a \in Approval \ {attempt} : terminal'[a] = terminal[a]
    BY <2>1 DEF TypeOK
  <2>4. Claimed'
    BY <2>1, <2>3 DEF Claimed, TypeOK
  <2>5. UnresolvedBlocks'
    BY <2>1, <2>2, <2>3 DEF UnresolvedBlocks, TypeOK
  <2> QED
    BY <2>4, <2>5
<1>3. CASE KeepsClaim
  BY <1>3 DEF KeepsClaim, Claimed, UnresolvedBlocks
<1>4. CASE UNCHANGED vars
  BY <1>4 DEF vars, ledger, command, locals, Claimed, UnresolvedBlocks
<1> QED
  BY <1>1, <1>2, <1>3, <1>4, OthersKeepClaim
-----------------------------------------------------------------------------
\* The histories of an attempt are tied by each of the ways in which they grow.
LEMMA TiedByIntent ==
  ASSUME NEW is \in Seq(Target), NEW rs \in Seq({"observed", "indeterminate"}),
         NEW ms \in Seq(Target), NEW p \in Target \cup {NoTarget}, NEW t \in Target,
         Tied(is, rs, ms, p), Len(rs) = Len(is), Len(ms) = Len(is)
  PROVE  /\ Tied(Append(is, t), rs, ms, p) /\ p = NoTarget
         /\ Len(Append(is, t)) = Len(is) + 1 /\ Append(is, t)[Len(is) + 1] = t
<1>1. /\ Len(Append(is, t)) = Len(is) + 1 /\ Append(is, t)[Len(is) + 1] = t
      /\ \A i \in 1 .. Len(is) : Append(is, t)[i] = is[i]
  OBVIOUS
<1>2. p = NoTarget /\ Len(is) \in Nat
  BY DEF Tied
<1> QED
  BY <1>1, <1>2 DEF Tied

LEMMA TiedByResult ==
  ASSUME NEW is \in Seq(Target), NEW rs \in Seq({"observed", "indeterminate"}),
         NEW ms \in Seq(Target), NEW p \in Target \cup {NoTarget},
         NEW o \in {"observed", "indeterminate"},
         Tied(is, rs, ms, p), Len(is) # Len(rs)
  PROVE  /\ Tied(is, Append(rs, o), ms, p) /\ Tied(is, Append(rs, o), ms, NoTarget)
         /\ Len(Append(rs, o)) = Len(is)
<1>1. Len(Append(rs, o)) = Len(rs) + 1
  OBVIOUS
<1>2. Len(is) \in Nat /\ Len(rs) \in Nat
  OBVIOUS
<1> QED
  BY <1>1, <1>2 DEF Tied

LEMMA TiedByEffect ==
  ASSUME NEW is \in Seq(Target), NEW rs \in Seq({"observed", "indeterminate"}),
         NEW ms \in Seq(Target), NEW p \in Target, p # NoTarget, Tied(is, rs, ms, p)
  PROVE  Tied(is, rs, Append(ms, p), NoTarget) /\ Len(Append(ms, p)) = Len(ms) + 1
<1>1. /\ Len(Append(ms, p)) = Len(ms) + 1 /\ Append(ms, p)[Len(ms) + 1] = p
      /\ \A i \in 1 .. Len(ms) : Append(ms, p)[i] = ms[i]
  OBVIOUS
<1>2. Len(is) = Len(ms) + 1 /\ p = is[Len(is)] /\ Len(ms) \in Nat
  BY DEF Tied
<1>3. \A i \in 1 .. Len(ms) + 1 : Append(ms, p)[i] = is[i]
  <2> TAKE i \in 1 .. Len(ms) + 1
  <2>1. CASE i = Len(ms) + 1
    BY <1>1, <1>2, <2>1
  <2>2. CASE i \in 1 .. Len(ms)
    BY <1>1, <2>2 DEF Tied
  <2> QED
    BY <1>2, <2>1, <2>2
<1> QED
  BY <1>1, <1>2, <1>3 DEF Tied
-----------------------------------------------------------------------------
\* The steps that leave the histories alone and owe nothing afterwards that was not owed before.
Idles ==
  /\ UNCHANGED <<prepared, journal, permit, made>>
  /\ pc' \notin {"call", "intent", "permit"} \/ UNCHANGED <<pc, attempt, asked>>
  /\ pc' \in Early => pc \in Early /\ attempt' = attempt

Bookkeeping ==
  \/ Consume \/ Ready \/ Dies \/ Finish \/ StartFails \/ Result \/ WorkerEnded \/ Close
  \/ OtherWriter \/ CompositorRestarts
  \/ \E a \in Approval : Expire(a) \/ Propose(a)
  \/ \E r \in Root : RootRemoved(r)
  \/ \E a \in Approval, r \in Root : Approve(r, a) \/ Execute(r, a)

LEMMA BookkeepingIdles == ASSUME Bookkeeping PROVE Idles
<1> USE DEF Idles, Early, ledger, journal, effects, locals, command
<1>1. CASE Consume \/ Ready \/ Dies \/ Finish
  BY <1>1 DEF Consume, Ready, Dies, Finish, Over, Goto
<1>2. CASE StartFails \/ Result \/ WorkerEnded \/ Close
  BY <1>2 DEF StartFails, Result, WorkerEnded, Close, Goto
<1>3. CASE OtherWriter \/ CompositorRestarts
  BY <1>3 DEF OtherWriter, CompositorRestarts
<1>4. CASE \E a \in Approval : Expire(a) \/ Propose(a)
  BY <1>4 DEF Expire, Propose
<1>5. CASE \E r \in Root : RootRemoved(r)
  BY <1>5 DEF RootRemoved
<1>6. CASE \E a \in Approval, r \in Root : Approve(r, a) \/ Execute(r, a)
  BY <1>6 DEF Approve, Execute
<1> QED
  BY <1>1, <1>2, <1>3, <1>4, <1>5, <1>6 DEF Bookkeeping

LEMMA IdlesStep ==
  ASSUME Journalled, Unstarted, Underway, Idles
  PROVE  Journalled' /\ Unstarted' /\ Underway'
<1>1. UNCHANGED <<prepared, intents, results, permit, made>>
  BY DEF Idles, journal
<1>2. Journalled'
  BY <1>1 DEF Journalled
<1>3. Unstarted'
  BY <1>1 DEF Unstarted, Idles
<1>4. Underway'
  BY <1>1 DEF Underway, Idles
<1> QED
  BY <1>2, <1>3, <1>4

\* The steps that begin something: a claim, the worker, an effect.
LEMMA BeginningStep ==
  ASSUME TypeOK, Claimed, Journalled, Unstarted, Underway,
         Prepare \/ Start \/ \E t \in Target : Effect(t)
  PROVE  Journalled' /\ Unstarted' /\ Underway'
<1> USE DEF ledger, journal, effects, locals
<1>1. /\ UNCHANGED <<intents, results, permit, made>> /\ attempt' = attempt
      /\ attempt \in Approval
  BY DEF Prepare, Start, Effect, TypeOK
<1>2. Journalled'
  BY <1>1 DEF Journalled
<1>3. Tied(intents[attempt], results[attempt], made[attempt], permit[attempt])
  BY <1>1 DEF Journalled
<1>4. /\ Len(intents[attempt]) \in Nat /\ Len(results[attempt]) \in Nat
      /\ Len(made[attempt]) \in Nat
  BY <1>1 DEF TypeOK
<1>5. CASE Prepare
  <2>1. /\ attempt \notin prepared /\ prepared' = prepared \cup {attempt}
        /\ pc' = "consume"
    BY <1>5 DEF Prepare, Unclaimed, Goto
  <2> QED
    BY <1>1, <1>2, <2>1 DEF Unstarted, Underway
<1>6. CASE Start
  <2>1. pc = "start" /\ pc' = "call" /\ UNCHANGED prepared
    BY <1>6 DEF Start, Goto
  <2>2. Len(intents[attempt]) = 0
    BY <1>1, <2>1 DEF Unstarted, Early
  <2>3. Len(results[attempt]) <= Len(made[attempt])
    BY <1>3, <1>4, <2>2 DEF Tied
  <2> QED
    BY <1>1, <1>2, <2>1, <2>3 DEF Unstarted, Underway, Early
<1>7. CASE \E t \in Target : Effect(t)
  <2>1. /\ pc = "call" /\ pc' = "intent" /\ asked' \in Target /\ UNCHANGED prepared
        /\ Len(intents[attempt]) = Len(results[attempt])
    BY <1>7 DEF Effect, Frame, Pending
  <2>2. Len(made[attempt]) = Len(intents[attempt])
    BY <1>3, <1>4, <2>1 DEF Underway, Tied
  <2> QED
    BY <1>1, <1>2, <2>1, <2>2 DEF Unstarted, Underway, Early
<1> QED
  BY <1>5, <1>6, <1>7

\* The steps of the command that touch the histories touch only those of its attempt.
LEMMA OneStep ==
  ASSUME TypeOK, Claimed, Journalled, Unstarted, UNCHANGED <<prepared, attempt>>,
         pc \notin Early \cup {"idle", "prepare"}, pc' \notin Early,
         \A a \in Approval \ {attempt} :
           /\ intents'[a] = intents[a] /\ results'[a] = results[a]
           /\ made'[a] = made[a] /\ permit'[a] = permit[a],
         Tied(intents'[attempt], results'[attempt], made'[attempt], permit'[attempt])
  PROVE  Journalled' /\ Unstarted'
<1>1. attempt \in prepared
  BY DEF Claimed
<1>2. Journalled'
  BY DEF Journalled
<1>3. Unstarted'
  BY <1>1 DEF Unstarted
<1> QED
  BY <1>2, <1>3

LEMMA CommandStep ==
  ASSUME TypeOK, Claimed, Journalled, Unstarted, Underway,
         \/ JournalIntent \/ Permit \/ Breaks
         \/ \E o \in {"observed", "indeterminate"} : EffectResult(o)
  PROVE  Journalled' /\ Unstarted' /\ Underway'
<1> DEFINE is == intents[attempt]
           rs == results[attempt]
           ms == made[attempt]
           p == permit[attempt]
<1>1. /\ attempt \in Approval /\ is \in Seq(Target) /\ ms \in Seq(Target)
      /\ rs \in Seq({"observed", "indeterminate"}) /\ p \in Target \cup {NoTarget}
  BY DEF TypeOK
<1>2. Tied(is, rs, ms, p)
  BY <1>1 DEF Journalled
<1>3. Len(is) \in Nat /\ Len(rs) \in Nat /\ Len(ms) \in Nat
  BY <1>1
<1>4. CASE JournalIntent
  <2>1. /\ pc = "intent" /\ pc' = "permit" /\ UNCHANGED <<prepared, attempt, asked>>
        /\ UNCHANGED <<results, made, permit>>
        /\ intents' = [intents EXCEPT ![attempt] = Append(@, asked)]
    BY <1>4 DEF JournalIntent, Goto, IntentOnFile, ledger, locals, effects
  <2>2. Len(rs) = Len(is) /\ Len(ms) = Len(is) /\ asked \in Target
    BY <2>1 DEF Underway
  <2>3. intents'[attempt] = Append(is, asked)
    BY <1>1, <2>1 DEF TypeOK
  <2>4. /\ Tied(Append(is, asked), rs, ms, p) /\ p = NoTarget
        /\ Len(Append(is, asked)) = Len(is) + 1 /\ Append(is, asked)[Len(is) + 1] = asked
    BY <1>1, <1>2, <2>2, TiedByIntent
  <2>5. Journalled' /\ Unstarted'
    BY <2>1, <2>3, <2>4, OneStep DEF TypeOK, Early
  <2>6. Underway'
    BY <2>1, <2>2, <2>3, <2>4 DEF Underway
  <2> QED
    BY <2>5, <2>6
<1>5. CASE Permit
  <2>1. /\ pc = "permit" /\ pc' = "call" /\ UNCHANGED <<prepared, attempt>>
        /\ UNCHANGED <<intents, results, made>>
        /\ permit' = [permit EXCEPT ![attempt] = asked]
    BY <1>5 DEF Permit, Goto, ledger, journal
  <2>2. Len(is) = Len(ms) + 1 /\ asked = is[Len(is)] /\ Len(rs) = Len(ms)
    BY <2>1 DEF Underway
  <2>3. Tied(is, rs, ms, asked)
    BY <1>2, <2>2 DEF Tied
  <2>4. Journalled' /\ Unstarted'
    BY <1>1, <2>1, <2>3, OneStep DEF TypeOK, Early
  <2>5. Underway'
    BY <1>3, <2>1, <2>2 DEF Underway
  <2> QED
    BY <2>4, <2>5
<1>6. CASE \E o \in {"observed", "indeterminate"} : EffectResult(o)
  <2>1. PICK o \in {"observed", "indeterminate"} : EffectResult(o)
    BY <1>6
  <2>2. /\ pc = "call" /\ Len(is) # Len(rs)
        /\ o = "observed" => Len(ms) = Len(is)
        /\ pc' = IF o = "observed" THEN "call" ELSE "close"
        /\ UNCHANGED <<prepared, attempt, intents, made>>
        /\ results' = [results EXCEPT ![attempt] = Append(@, o)]
        /\ permit' = [permit EXCEPT ![attempt] = NoTarget]
    BY <2>1 DEF EffectResult, Reports, Frame, Pending, ledger
  <2>3. results'[attempt] = Append(rs, o) /\ permit'[attempt] = NoTarget
    BY <1>1, <2>2 DEF TypeOK
  <2>4. Tied(is, Append(rs, o), ms, NoTarget) /\ Len(Append(rs, o)) = Len(is)
    BY <1>1, <1>2, <2>2, TiedByResult
  <2>5. Journalled' /\ Unstarted'
    BY <2>2, <2>3, <2>4, OneStep DEF TypeOK, Early
  <2>6. Underway'
    BY <1>3, <2>2, <2>3, <2>4 DEF Underway
  <2> QED
    BY <2>5, <2>6
<1>7. CASE Breaks
  <2>1. /\ pc \in {"call", "intent", "permit", "exit"} /\ pc' = "close"
        /\ UNCHANGED <<prepared, attempt, made>>
    BY <1>7 DEF Breaks, ledger
  <2>2. Underway'
    BY <2>1 DEF Underway
  <2>3. CASE UNCHANGED <<intents, results, permit>>
    <3>1. Tied(intents'[attempt], results'[attempt], made'[attempt], permit'[attempt])
      BY <1>2, <2>1, <2>3
    <3>2. Journalled' /\ Unstarted'
      BY <2>1, <2>3, <3>1, OneStep DEF Early
    <3> QED
      BY <2>2, <3>2
  <2>4. CASE pc = "intent" /\ Appended(intents, asked) /\ UNCHANGED <<results, permit>>
    <3>1. Len(rs) = Len(is) /\ Len(ms) = Len(is) /\ asked \in Target
      BY <2>4 DEF Underway
    <3>2. Tied(Append(is, asked), rs, ms, p)
      BY <1>1, <1>2, <3>1, TiedByIntent
    <3>3. /\ Tied(intents'[attempt], rs, ms, p)
          /\ \A a \in Approval \ {attempt} : intents'[a] = intents[a]
      BY <1>1, <1>2, <2>4, <3>2 DEF Appended, TypeOK
    <3> QED
      BY <2>1, <2>2, <2>4, <3>3, OneStep DEF Early
  <2>5. CASE /\ Reports("observed") /\ Appended(results, "observed")
             /\ UNCHANGED <<intents, permit>>
    <3>1. Len(is) # Len(rs)
      BY <2>5 DEF Reports, Pending
    <3>2. Tied(is, Append(rs, "observed"), ms, p)
      BY <1>1, <1>2, <3>1, TiedByResult
    <3>3. /\ Tied(is, results'[attempt], ms, p)
          /\ \A a \in Approval \ {attempt} : results'[a] = results[a]
      BY <1>1, <1>2, <2>5, <3>2 DEF Appended, TypeOK
    <3> QED
      BY <2>1, <2>2, <2>5, <3>3, OneStep DEF Early
  <2>6. CASE /\ pc = "permit" /\ permit' = [permit EXCEPT ![attempt] = asked]
             /\ UNCHANGED <<intents, results>>
    <3>1. Len(is) = Len(ms) + 1 /\ asked = is[Len(is)]
      BY <2>6 DEF Underway
    <3>2. Tied(is, rs, ms, asked)
      BY <1>2, <3>1 DEF Tied
    <3>3. /\ permit'[attempt] = asked
          /\ \A a \in Approval \ {attempt} : permit'[a] = permit[a]
      BY <1>1, <2>6 DEF TypeOK
    <3> QED
      BY <2>1, <2>2, <2>6, <3>2, <3>3, OneStep DEF Early
  <2> QED
    BY <1>7, <2>2, <2>3, <2>4, <2>5, <2>6 DEF Breaks
<1> QED
  BY <1>4, <1>5, <1>6, <1>7

\* A worker's effect is the one the last intent names.
LEMMA WorkerStep ==
  ASSUME TypeOK, Claimed, Journalled, Unstarted, Underway,
         NEW a \in Approval, Acts(a) \/ Exits(a)
  PROVE  Journalled' /\ Unstarted' /\ Underway'
<1>1. UNCHANGED <<prepared, intents, results, pc, attempt, asked>>
  BY DEF Acts, Exits, ledger, journal, command, locals
<1>2. Tied(intents[a], results[a], made[a], permit[a])
  BY DEF Journalled
<1>3. /\ attempt \in Approval /\ intents[a] \in Seq(Target) /\ made[a] \in Seq(Target)
      /\ results[a] \in Seq({"observed", "indeterminate"})
  BY DEF TypeOK
<1>4. ASSUME NEW b \in Approval
      PROVE  /\ Len(intents[b]) \in Nat /\ Len(results[b]) \in Nat /\ Len(made[b]) \in Nat
  <2>1. /\ intents[b] \in Seq(Target) /\ made[b] \in Seq(Target)
        /\ results[b] \in Seq({"observed", "indeterminate"})
    BY DEF TypeOK
  <2> QED
    BY <2>1
<1>5. CASE Acts(a)
  <2>1. /\ permit[a] # NoTarget /\ made' = [made EXCEPT ![a] = Append(@, permit[a])]
        /\ permit' = [permit EXCEPT ![a] = NoTarget]
    BY <1>5 DEF Acts
  <2>2. permit[a] \in Target
    BY <2>1 DEF TypeOK
  <2>3. /\ Tied(intents[a], results[a], Append(made[a], permit[a]), NoTarget)
        /\ Len(Append(made[a], permit[a])) = Len(made[a]) + 1
    BY <1>2, <1>3, <2>1, <2>2, TiedByEffect
  <2>4. /\ made'[a] = Append(made[a], permit[a]) /\ permit'[a] = NoTarget
        /\ \A b \in Approval \ {a} : made'[b] = made[b] /\ permit'[b] = permit[b]
    BY <2>1 DEF TypeOK
  <2>5. Journalled'
    BY <1>1, <2>3, <2>4 DEF Journalled
  <2>6. Unstarted'
    BY <1>1, <2>1, <2>4 DEF Unstarted
  <2>7. Len(intents[a]) = Len(made[a]) + 1
    BY <1>2, <2>1 DEF Tied
  <2>8. a = attempt => pc \notin {"intent", "permit"}
    BY <1>4, <2>1, <2>7 DEF Underway
  <2>9. Underway'
    BY <1>1, <1>3, <1>4, <2>3, <2>4, <2>8 DEF Underway
  <2> QED
    BY <2>5, <2>6, <2>9
<1>6. CASE Exits(a)
  <2>1. made' = made /\ permit' = [permit EXCEPT ![a] = NoTarget]
    BY <1>6 DEF Exits
  <2>2. permit'[a] = NoTarget /\ \A b \in Approval \ {a} : permit'[b] = permit[b]
    BY <2>1 DEF TypeOK
  <2>3. Tied(intents[a], results[a], made[a], NoTarget)
    BY <1>2 DEF Tied
  <2>4. Journalled'
    BY <1>1, <2>1, <2>2, <2>3 DEF Journalled
  <2>5. Unstarted' /\ Underway'
    BY <1>1, <1>3, <2>1, <2>2 DEF Unstarted, Underway
  <2> QED
    BY <2>4, <2>5
<1> QED
  BY <1>5, <1>6
-----------------------------------------------------------------------------
\* The inductive invariant holds of every reachable state, for all values of the constants.
THEOREM RecoveryInvariant == Spec => []IInv
<1>1. IInv /\ [Next]_vars => IInv'
  <2> SUFFICES ASSUME IInv, [Next]_vars PROVE IInv'
    OBVIOUS
  <2> USE DEF IInv
  <2>1. TypeOK' /\ Claimed' /\ UnresolvedBlocks'
    BY TypeStep, ClaimStep
  <2>2. Journalled' /\ Unstarted' /\ Underway'
    <3>1. CASE Bookkeeping
      BY <3>1, BookkeepingIdles, IdlesStep
    <3>2. CASE Prepare \/ Start \/ \E t \in Target : Effect(t)
      BY <3>2, BeginningStep
    <3>3. CASE \/ JournalIntent \/ Permit \/ Breaks
               \/ \E o \in {"observed", "indeterminate"} : EffectResult(o)
      BY <3>3, CommandStep
    <3>4. CASE \E a \in Approval : Acts(a) \/ Exits(a)
      BY <3>4, WorkerStep
    <3>5. CASE UNCHANGED vars
      <4>1. Idles
        BY <3>5 DEF vars, Idles, ledger, journal, effects, command, locals
      <4> QED
        BY <4>1, IdlesStep
    <3> QED
      BY <3>1, <3>2, <3>3, <3>4, <3>5 DEF Next, Reconstruct, Call, Outside, Bookkeeping
  <2> QED
    BY <2>1, <2>2
<1> QED
  BY <1>1, InitIInv, PTL DEF Spec

\* Ledger.available: at most one attempt of the account is not a proved success.
THEOREM UnresolvedStops == Spec => []UnresolvedBlocks
<1>1. IInv => UnresolvedBlocks
  BY DEF IInv
<1> QED
  BY <1>1, RecoveryInvariant, PTL

\* Adapter.call: workers make the journalled effects, in their order, and are at most one
\* ahead of or behind the results.
THEOREM EffectsFollowJournal == Spec => []EffectsJournalled
<1>1. IInv => EffectsJournalled
  <2> SUFFICES ASSUME IInv, NEW a \in Approval
               PROVE  /\ Len(results[a]) <= Len(made[a]) + 1
                      /\ Len(made[a]) <= Len(results[a]) + 1
                      /\ Len(made[a]) <= Len(intents[a])
                      /\ \A i \in DOMAIN made[a] : made[a][i] = intents[a][i]
    BY DEF EffectsJournalled
  <2>1. /\ made[a] \in Seq(Target) /\ intents[a] \in Seq(Target)
        /\ results[a] \in Seq({"observed", "indeterminate"})
    BY DEF IInv, TypeOK
  <2>2. DOMAIN made[a] = 1 .. Len(made[a])
    BY <2>1
  <2>3. Tied(intents[a], results[a], made[a], permit[a])
    BY DEF IInv, Journalled
  <2>4. /\ Len(made[a]) \in Nat /\ Len(intents[a]) \in Nat /\ Len(results[a]) \in Nat
    BY <2>1
  <2> QED
    BY <2>2, <2>3, <2>4 DEF Tied
<1> QED
  BY <1>1, RecoveryInvariant, PTL
-----------------------------------------------------------------------------
(* What a verified attempt did.  The histories of an attempt are settled when its worker sends *)
(* the final frame, and nothing can add to them any more.                                      *)

Done(a) ==
  /\ made[a] = intents[a] /\ Len(results[a]) = Len(intents[a])
  /\ TargetsOf(results[a]) \subseteq {"observed"}
  /\ schema = "additive" => CompleteEffects(a)

\* Additively: conversations that are missing, each once, and then the focus.
Sequenced(s) ==
  /\ \A i \in 1 .. Len(s) : s[i] \in missing \cup {Focus}
  /\ \A i, j \in 1 .. Len(s) : s[i] = s[j] => i = j
  /\ \A i \in 1 .. Len(s) : s[i] = Focus => i = Len(s) /\ missing # {}

Additive ==
  schema = "additive" =>
    /\ \A a \in Approval : Sequenced(intents[a])
    /\ pc = "intent" => Authorized(asked)

\* What the command has taken in, and its proof.
Heard ==
  /\ pc \in {"idle", "prepare"} \cup Early => seen = 0
  /\ pc \in {"call", "intent", "permit"} =>
       seen = Len(results[attempt]) /\ TargetsOf(results[attempt]) \subseteq {"observed"}
  /\ pc \notin {"exit", "finish"} => proof = "none"
  /\ pc = "exit" \/ proof # "none" => seen = Len(results[attempt]) /\ Done(attempt)

Concluded ==
  \A a \in Approval : terminal[a] = "verified" => Done(a) /\ reported[a] = Len(results[a])

CInv == Additive /\ Heard /\ Concluded

LEMMA InitCInv == Init => CInv
<1> SUFFICES ASSUME Init PROVE CInv
  OBVIOUS
<1>1. /\ pc = "idle" /\ seen = 0 /\ proof = "none"
      /\ \A a \in Approval : terminal[a] = "none" /\ Len(intents[a]) = 0
  BY DEF Init
<1> QED
  BY <1>1 DEF CInv, Additive, Sequenced, Heard, Concluded, Early

LEMMA RigidStep == ASSUME [Next]_vars PROVE UNCHANGED <<schema, missing>>
<1> USE DEF rigid
<1>1. CASE Prepare \/ Consume \/ Ready \/ Finish \/ Dies
  BY <1>1 DEF Prepare, Consume, Ready, Finish, Dies
<1>2. CASE Start \/ StartFails \/ JournalIntent \/ Permit \/ Result \/ WorkerEnded
  BY <1>2 DEF Start, StartFails, JournalIntent, Permit, Result, WorkerEnded
<1>3. CASE Breaks \/ Close \/ \E t \in Target : Effect(t)
  BY <1>3 DEF Breaks, Close, Effect
<1>4. CASE \E o \in {"observed", "indeterminate"} : EffectResult(o)
  BY <1>4 DEF EffectResult
<1>5. CASE Outside
  BY <1>5 DEF Outside, OtherWriter, CompositorRestarts, Expire, Acts, Exits, RootRemoved
<1>6. CASE \E a \in Approval : Propose(a) \/ \E r \in Root : Approve(r, a) \/ Execute(r, a)
  BY <1>6 DEF Propose, Approve, Execute
<1>7. CASE UNCHANGED vars
  BY <1>7 DEF vars
<1> QED
  BY <1>1, <1>2, <1>3, <1>4, <1>5, <1>6, <1>7 DEF Next, Reconstruct, Call

\* Nothing is added to the histories of an attempt that is done, unless its command is in a place
\* to ask for more.
LEMMA DoneStays ==
  ASSUME IInv, [Next]_vars, NEW a \in Approval, Done(a),
         a = attempt => pc \notin {"call", "intent"}
  PROVE  /\ intents'[a] = intents[a] /\ results'[a] = results[a] /\ made'[a] = made[a]
         /\ Done(a)'
<1> USE DEF IInv
<1>1. Tied(intents[a], results[a], made[a], permit[a])
  BY DEF Journalled
<1>2. permit[a] = NoTarget
  <2>1. intents[a] \in Seq(Target)
    BY DEF TypeOK
  <2>2. Len(intents[a]) \in Nat
    BY <2>1
  <2> QED
    BY <1>1, <2>2 DEF Tied, Done
<1>3. intents'[a] = intents[a] /\ results'[a] = results[a] /\ made'[a] = made[a]
  <2> USE DEF journal, effects
  <2>1. CASE Bookkeeping
    BY <2>1, BookkeepingIdles DEF Idles
  <2>2. CASE Prepare \/ Start \/ \E t \in Target : Effect(t)
    BY <2>2 DEF Prepare, Start, Effect
  <2>3. CASE JournalIntent
    <3>1. /\ a # attempt /\ UNCHANGED <<results, made>>
          /\ intents' = [intents EXCEPT ![attempt] = Append(@, asked)]
      BY <2>3 DEF JournalIntent, Goto, IntentOnFile
    <3> QED
      BY <3>1 DEF TypeOK
  <2>4. CASE Permit
    BY <2>4 DEF Permit
  <2>5. CASE \E o \in {"observed", "indeterminate"} : EffectResult(o)
    <3>1. PICK o \in {"observed", "indeterminate"} : EffectResult(o)
      BY <2>5
    <3>2. /\ a # attempt /\ UNCHANGED <<intents, made>>
          /\ results' = [results EXCEPT ![attempt] = Append(@, o)]
      BY <3>1 DEF EffectResult, Reports, Frame
    <3> QED
      BY <3>2 DEF TypeOK
  <2>6. CASE Breaks
    <3>1. made' = made
      BY <2>6 DEF Breaks
    <3>2. intents'[a] = intents[a]
      BY <2>6 DEF Breaks, Appended, TypeOK
    <3>3. results'[a] = results[a]
      BY <2>6 DEF Breaks, Appended, Reports, Frame, TypeOK
    <3> QED
      BY <3>1, <3>2, <3>3
  <2>7. CASE \E b \in Approval : Acts(b)
    <3>1. PICK b \in Approval : Acts(b)
      BY <2>7
    <3>2. a # b /\ UNCHANGED <<intents, results>> /\ made' = [made EXCEPT ![b] = Append(@, permit[b])]
      BY <1>2, <3>1 DEF Acts
    <3> QED
      BY <3>2 DEF TypeOK
  <2>8. CASE \E b \in Approval : Exits(b)
    BY <2>8 DEF Exits
  <2>9. CASE UNCHANGED vars
    BY <2>9 DEF vars
  <2> QED
    BY <2>1, <2>2, <2>3, <2>4, <2>5, <2>6, <2>7, <2>8, <2>9
       DEF Next, Reconstruct, Call, Outside, Bookkeeping
<1>4. UNCHANGED <<schema, missing>>
  BY RigidStep
<1> QED
  BY <1>3, <1>4 DEF Done, TargetsOf, CompleteEffects, Launched

\* An effect that the profile authorizes keeps the sequence what an additive plan asks for.
LEMMA AuthorizedNext ==
  ASSUME TypeOK, schema = "additive", Sequenced(intents[attempt]), NEW t \in Target, Authorized(t)
  PROVE  Sequenced(Append(intents[attempt], t))
<1> DEFINE s == intents[attempt]
           n == Len(s)
<1>1. s \in Seq(Target) /\ n \in Nat
  BY DEF TypeOK
<1>2. /\ Len(Append(s, t)) = n + 1 /\ Append(s, t)[n + 1] = t
      /\ \A i \in 1 .. n : Append(s, t)[i] = s[i]
  BY <1>1
<1>3. \A i \in 1 .. n : s[i] \in TargetsOf(s)
  BY <1>1 DEF TargetsOf
<1>4. Focus \notin missing
  BY RecoveryAssumption DEF TypeOK
<1>5. /\ \A i \in 1 .. n : s[i] # t /\ s[i] # Focus
      /\ t \in missing \cup {Focus} /\ (t = Focus => missing # {})
  BY <1>3, <1>4 DEF Authorized, Launched
<1> HIDE DEF s, n
<1>6. \A i \in 1 .. n + 1 : i \in 1 .. n \/ i = n + 1
  BY <1>1
<1> QED
  <2>1. \A i \in 1 .. n + 1 : Append(s, t)[i] \in missing \cup {Focus}
    BY <1>2, <1>5, <1>6 DEF Sequenced, s, n
  <2>2. \A i, j \in 1 .. n + 1 : Append(s, t)[i] = Append(s, t)[j] => i = j
    BY <1>2, <1>5, <1>6 DEF Sequenced, s, n
  <2>3. \A i \in 1 .. n + 1 : Append(s, t)[i] = Focus => i = n + 1 /\ missing # {}
    BY <1>2, <1>5, <1>6
  <2> QED
    BY <1>2, <2>1, <2>2, <2>3 DEF Sequenced, s

LEMMA AdditiveStep ==
  ASSUME IInv, Additive, [Next]_vars
  PROVE  Additive'
<1> USE DEF IInv
<1> SUFFICES ASSUME schema = "additive" PROVE Additive'
  BY RigidStep DEF Additive
<1>1. UNCHANGED <<schema, missing>>
  BY RigidStep
<1>2. ASSUME UNCHANGED intents, pc' = "intent" => UNCHANGED <<pc, asked, attempt>>
      PROVE  Additive'
  BY <1>1, <1>2 DEF Additive, Sequenced, Authorized, Launched, TargetsOf
<1>3. ASSUME intents' = [intents EXCEPT ![attempt] = Append(@, asked)], pc = "intent",
             pc' # "intent"
      PROVE  Additive'
  <2>1. asked \in Target /\ Authorized(asked) /\ attempt \in Approval
    BY <1>3 DEF Underway, Additive, TypeOK
  <2>2. Sequenced(Append(intents[attempt], asked))
    BY <2>1, AuthorizedNext DEF Additive
  <2>3. /\ intents'[attempt] = Append(intents[attempt], asked)
        /\ \A a \in Approval \ {attempt} : intents'[a] = intents[a]
    BY <1>3, <2>1 DEF TypeOK
  <2>4. \A a \in Approval : Sequenced(intents'[a])
    BY <2>2, <2>3 DEF Additive
  <2> QED
    BY <1>1, <1>3, <2>4 DEF Additive, Sequenced
<1> USE DEF journal, effects, command, locals
<1>4. CASE Bookkeeping
  <2>1. Idles
    BY <1>4, BookkeepingIdles
  <2> QED
    BY <1>2, <2>1 DEF Idles
<1>5. CASE Prepare \/ Start \/ Permit
  BY <1>2, <1>5 DEF Prepare, Start, Permit, Goto
<1>6. CASE \E t \in Target : Effect(t)
  <2>1. PICK t \in Target : Effect(t)
    BY <1>6
  <2>2. Authorized(t) /\ asked' = t /\ UNCHANGED <<intents, attempt>>
    BY <2>1 DEF Effect
  <2> QED
    BY <1>1, <2>2 DEF Additive, Sequenced, Authorized, Launched, TargetsOf
<1>7. CASE JournalIntent
  BY <1>3, <1>7 DEF JournalIntent, Goto, IntentOnFile
<1>8. CASE \E o \in {"observed", "indeterminate"} : EffectResult(o)
  <2>1. UNCHANGED intents /\ pc' # "intent"
    BY <1>8 DEF EffectResult
  <2> QED
    BY <1>2, <2>1
<1>9. CASE Breaks
  <2>1. pc' # "intent"
    BY <1>9 DEF Breaks
  <2>2. CASE UNCHANGED intents
    BY <1>2, <2>1, <2>2
  <2>3. CASE pc = "intent" /\ Appended(intents, asked)
    BY <1>2, <1>3, <2>1, <2>3 DEF Appended
  <2> QED
    BY <1>9, <2>2, <2>3 DEF Breaks
<1>10. CASE \E a \in Approval : Acts(a) \/ Exits(a)
  BY <1>2, <1>10 DEF Acts, Exits
<1>11. CASE UNCHANGED vars
  BY <1>2, <1>11 DEF vars
<1> QED
  BY <1>4, <1>5, <1>6, <1>7, <1>8, <1>9, <1>10, <1>11
     DEF Next, Reconstruct, Call, Outside, Bookkeeping

\* The final frame is taken only when the histories agree.
LEMMA ResultIsDone ==
  ASSUME IInv, Heard, Result
  PROVE  seen = Len(results[attempt]) /\ Done(attempt)
<1>1. /\ pc = "call" /\ Len(intents[attempt]) = Len(results[attempt])
      /\ schema = "additive" => CompleteEffects(attempt)
  BY DEF Result, Pending
<1>2. seen = Len(results[attempt]) /\ TargetsOf(results[attempt]) \subseteq {"observed"}
  BY <1>1 DEF Heard
<1>3. /\ attempt \in Approval /\ intents[attempt] \in Seq(Target)
      /\ made[attempt] \in Seq(Target)
  BY DEF IInv, TypeOK
<1>4. Tied(intents[attempt], results[attempt], made[attempt], permit[attempt])
  BY <1>3 DEF IInv, Journalled
<1>5. Len(made[attempt]) = Len(intents[attempt])
  BY <1>1, <1>3, <1>4 DEF IInv, Underway, Tied
<1>6. \A i \in 1 .. Len(made[attempt]) : made[attempt][i] = intents[attempt][i]
  BY <1>4 DEF Tied
<1>7. made[attempt] = intents[attempt]
  BY <1>3, <1>5, <1>6
<1> QED
  BY <1>1, <1>2, <1>7 DEF Done

LEMMA HeardStep ==
  ASSUME IInv, Heard, [Next]_vars
  PROVE  Heard'
<1> USE DEF IInv, Early
<1>a. attempt \in Approval
  BY DEF TypeOK
<1>1. ASSUME Over PROVE Heard'
  BY <1>1 DEF Over, Heard
<1>2. ASSUME UNCHANGED <<pc, attempt, seen, proof, results>> PROVE Heard'
  <2>1. pc = "exit" \/ proof # "none" => seen = Len(results[attempt]) /\ Done(attempt)'
    BY <1>a, <1>2, DoneStays DEF Heard
  <2> QED
    BY <1>2, <2>1 DEF Heard, TargetsOf
<1> USE DEF journal, effects, locals, command
<1>3. CASE Prepare \/ Consume \/ Ready
  BY <1>1, <1>3 DEF Prepare, Consume, Ready, Goto, Heard
<1>4. CASE Finish \/ Dies
  BY <1>1, <1>4 DEF Finish, Dies
<1>5. CASE Start
  <2>1. /\ pc = "start" /\ pc' = "call" /\ UNCHANGED <<attempt, seen, proof, results>>
    BY <1>5 DEF Start, Goto
  <2>2. Len(intents[attempt]) = 0 /\ Tied(intents[attempt], results[attempt], made[attempt], permit[attempt])
    BY <1>a, <2>1 DEF Unstarted, Journalled
  <2>3. results[attempt] \in Seq({"observed", "indeterminate"})
    BY <1>a DEF TypeOK
  <2>4. Len(results[attempt]) = 0
    BY <2>2, <2>3 DEF Tied
  <2>5. TargetsOf(results[attempt]) = {}
    BY <2>3, <2>4 DEF TargetsOf
  <2> QED
    BY <2>1, <2>4, <2>5 DEF Heard, TargetsOf
<1>6. CASE StartFails \/ Close
  <2>1. pc \notin {"exit", "finish"} /\ pc' = "finish" /\ UNCHANGED <<attempt, seen, proof, results>>
    BY <1>6 DEF StartFails, Close, Goto
  <2> QED
    BY <2>1 DEF Heard
<1>7. CASE JournalIntent \/ Permit \/ \E t \in Target : Effect(t)
  <2>1. /\ pc \in {"call", "intent", "permit"} /\ pc' \in {"call", "intent", "permit"}
        /\ UNCHANGED <<attempt, seen, proof, results>>
    BY <1>7 DEF JournalIntent, Permit, Effect, Frame, Goto
  <2> QED
    BY <2>1 DEF Heard, TargetsOf
<1>8. CASE \E o \in {"observed", "indeterminate"} : EffectResult(o)
  <2>1. PICK o \in {"observed", "indeterminate"} : EffectResult(o)
    BY <1>8
  <2>2. /\ pc = "call" /\ pc' = (IF o = "observed" THEN "call" ELSE "close")
        /\ UNCHANGED <<attempt, proof>> /\ seen' = seen + 1
        /\ results' = [results EXCEPT ![attempt] = Append(@, o)]
    BY <2>1 DEF EffectResult, Reports, Frame
  <2>3. proof = "none" /\ seen = Len(results[attempt])
    BY <2>2 DEF Heard
  <2>4. CASE o = "indeterminate"
    BY <2>2, <2>3, <2>4 DEF Heard
  <2>5. CASE o = "observed"
    <3>1. /\ results[attempt] \in Seq({"observed", "indeterminate"})
          /\ results'[attempt] = Append(results[attempt], "observed")
      BY <1>a, <2>2, <2>5 DEF TypeOK
    <3>2. Len(results'[attempt]) = Len(results[attempt]) + 1
      BY <3>1
    <3>3. TargetsOf(results'[attempt]) \subseteq {"observed"}
      <4>1. \A i \in DOMAIN results[attempt] : results[attempt][i] = "observed"
        BY <2>2 DEF Heard, TargetsOf
      <4>2. \A i \in DOMAIN results'[attempt] : results'[attempt][i] = "observed"
        BY <3>1, <4>1
      <4> QED
        BY <4>2 DEF TargetsOf
    <3> QED
      BY <2>2, <2>3, <2>5, <3>2, <3>3 DEF Heard, TargetsOf
  <2> QED
    BY <2>4, <2>5
<1>9. CASE Result
  <2>1. seen = Len(results[attempt]) /\ Done(attempt)
    BY <1>9, ResultIsDone
  <2>2. pc' = "exit" /\ UNCHANGED <<attempt, seen, results, intents, made, schema, missing>>
    BY <1>9, RigidStep DEF Result
  <2>3. Done(attempt)'
    BY <2>1, <2>2 DEF Done, TargetsOf, CompleteEffects, Launched
  <2> QED
    BY <2>1, <2>2, <2>3 DEF Heard
<1>10. CASE WorkerEnded
  <2>1. pc = "exit" /\ pc' = "finish" /\ UNCHANGED <<attempt, seen, proof, results>>
    BY <1>10 DEF WorkerEnded, Goto
  <2>2. seen = Len(results[attempt]) /\ Done(attempt)'
    BY <1>a, <2>1, DoneStays DEF Heard
  <2> QED
    BY <2>1, <2>2 DEF Heard
<1>11. CASE Breaks
  BY <1>11 DEF Breaks, Heard
<1>12. CASE \E a \in Approval : Acts(a) \/ Exits(a) \/ Expire(a) \/ Propose(a)
  BY <1>2, <1>12 DEF Acts, Exits, Expire, Propose
<1>13. CASE OtherWriter \/ CompositorRestarts \/ \E r \in Root : RootRemoved(r)
  BY <1>2, <1>13 DEF OtherWriter, CompositorRestarts, RootRemoved
<1>14. CASE \E a \in Approval, r \in Root : Approve(r, a)
  BY <1>2, <1>14 DEF Approve
<1>15. CASE \E a \in Approval, r \in Root : Execute(r, a)
  <2>1. pc = "idle" /\ pc' = "prepare" /\ UNCHANGED <<seen, proof>>
    BY <1>15 DEF Execute, Valid
  <2> QED
    BY <2>1 DEF Heard
<1>16. CASE UNCHANGED vars
  BY <1>2, <1>16 DEF vars
<1> QED
  BY <1>3, <1>4, <1>5, <1>6, <1>7, <1>8, <1>9, <1>10, <1>11, <1>12, <1>13, <1>14, <1>15, <1>16
     DEF Next, Reconstruct, Call, Outside

\* "verified" is concluded from the final proof alone, and nothing reopens it.
LEMMA ConcludedStep ==
  ASSUME IInv, Heard, Concluded, [Next]_vars
  PROVE  Concluded'
<1> USE DEF IInv
<1>1. CASE Finish
  <2>1. /\ pc = "finish" /\ UNCHANGED <<intents, results, made, schema, missing>>
        /\ terminal' = [terminal EXCEPT ![attempt] = Verdict]
        /\ reported' = [reported EXCEPT ![attempt] = seen]
    BY <1>1, RigidStep DEF Finish, journal, effects
  <2>2. Verdict = "verified" => proof # "none"
    BY DEF Verdict, ReceiptStatus
  <2>3. \A a \in Approval : Done(a)' = Done(a)
    BY <2>1 DEF Done, TargetsOf, CompleteEffects, Launched
  <2>4. ASSUME NEW a \in Approval, terminal'[a] = "verified"
        PROVE  Done(a)' /\ reported'[a] = Len(results'[a])
    <3>1. CASE a = attempt
      <4>1. terminal'[a] = Verdict /\ reported'[a] = seen
        BY <2>1, <3>1 DEF TypeOK
      <4> QED
        BY <2>1, <2>2, <2>3, <2>4, <3>1, <4>1 DEF Heard
    <3>2. CASE a # attempt
      <4>1. terminal'[a] = terminal[a] /\ reported'[a] = reported[a]
        BY <2>1, <3>2 DEF TypeOK
      <4> QED
        BY <2>1, <2>3, <2>4, <4>1 DEF Concluded
    <3> QED
      BY <3>1, <3>2
  <2> QED
    BY <2>4 DEF Concluded
<1>2. CASE ~Finish
  <2>1. UNCHANGED <<terminal, reported>>
    <3> USE DEF ledger
    <3>1. CASE Prepare \/ Consume \/ Ready \/ Dies
      BY <3>1 DEF Prepare, Consume, Ready, Dies
    <3>2. CASE Start \/ StartFails \/ JournalIntent \/ Permit \/ Result \/ WorkerEnded
      BY <3>2 DEF Start, StartFails, JournalIntent, Permit, Result, WorkerEnded
    <3>3. CASE Breaks \/ Close \/ \E t \in Target : Effect(t)
      BY <3>3 DEF Breaks, Close, Effect
    <3>4. CASE \E o \in {"observed", "indeterminate"} : EffectResult(o)
      BY <3>4 DEF EffectResult
    <3>5. CASE Outside
      BY <3>5 DEF Outside, OtherWriter, CompositorRestarts, Expire, Acts, Exits, RootRemoved
    <3>6. CASE \E a \in Approval : Propose(a) \/ \E r \in Root : Approve(r, a) \/ Execute(r, a)
      BY <3>6 DEF Propose, Approve, Execute
    <3>7. CASE UNCHANGED vars
      BY <3>7 DEF vars
    <3> QED
      BY <1>2, <3>1, <3>2, <3>3, <3>4, <3>5, <3>6, <3>7 DEF Next, Reconstruct, Call
  <2>2. ASSUME NEW a \in Approval, terminal[a] = "verified"
        PROVE  Done(a)' /\ reported'[a] = Len(results'[a])
    <3>1. Done(a) /\ reported[a] = Len(results[a])
      BY <2>2 DEF Concluded
    <3>2. a = attempt => pc \in {"idle", "prepare"}
      BY <2>2 DEF Claimed
    <3> QED
      BY <2>1, <3>1, <3>2, DoneStays
  <2> QED
    BY <2>1, <2>2 DEF Concluded
<1> QED
  BY <1>1, <1>2

\* A sequence without repetition has as many elements as places.
LEMMA DistinctCount ==
  ASSUME NEW S, NEW s \in Seq(S), \A i, j \in 1 .. Len(s) : s[i] = s[j] => i = j
  PROVE  Cardinality(TargetsOf(s)) = Len(s)
<1>1. s \in [1 .. Len(s) -> TargetsOf(s)] /\ Len(s) \in Nat
  BY DEF TargetsOf
<1>2. s \in Bijection(1 .. Len(s), TargetsOf(s))
  BY <1>1 DEF Bijection, Injection, Surjection, IsInjective, TargetsOf
<1>3. ExistsBijection(1 .. Len(s), TargetsOf(s))
  BY <1>2 DEF ExistsBijection
<1> QED
  BY <1>1, <1>3, FS_CountingElements

LEMMA CompleteInvariant == Spec => []CInv
<1>1. IInv /\ CInv /\ [Next]_vars => CInv'
  BY AdditiveStep, HeardStep, ConcludedStep DEF CInv
<1> QED
  BY <1>1, InitCInv, RecoveryInvariant, PTL DEF Spec

\* receipt, "fresh observation never rewrites effect history": what is recorded, verified or
\* inspected as verified was all done, each effect once, observed, and in the order asked for.
THEOREM VerifiedWasDone == Spec => []VerifiedIsComplete
<1>1. IInv /\ CInv => VerifiedIsComplete
  <2> SUFFICES ASSUME IInv, CInv, NEW a \in Approval,
                      "verified" \in {terminal[a], Verification(a, "complete"), Inspection(a, TRUE)}
               PROVE  /\ made[a] = intents[a] /\ Len(results[a]) = Len(made[a])
                      /\ reported[a] = Len(made[a])
                      /\ TargetsOf(results[a]) \subseteq {"observed"}
                      /\ schema = "additive" =>
                           /\ TargetsOf(made[a]) =
                                (IF missing = {} THEN {} ELSE missing \cup {Focus})
                           /\ Len(made[a]) = Cardinality(TargetsOf(made[a]))
                           /\ missing # {} => made[a][Len(made[a])] = Focus
    BY DEF VerifiedIsComplete
  <2>1. terminal[a] = "verified"
    BY DEF Verification, Inspection, ReceiptStatus, Succeeded, AttemptStatus
  <2>2. Done(a) /\ reported[a] = Len(results[a])
    BY <2>1 DEF CInv, Concluded
  <2>3. made[a] \in Seq(Target)
    BY DEF IInv, TypeOK
  <2>4. ASSUME schema = "additive"
        PROVE  /\ TargetsOf(made[a]) = (IF missing = {} THEN {} ELSE missing \cup {Focus})
               /\ Len(made[a]) = Cardinality(TargetsOf(made[a]))
               /\ missing # {} => made[a][Len(made[a])] = Focus
    <3>1. Sequenced(made[a])
      BY <2>2, <2>4 DEF CInv, Additive, Done
    <3>2. /\ TargetsOf(made[a]) \ {Focus} = missing
          /\ Focus \in TargetsOf(made[a]) <=> missing # {}
      BY <2>2, <2>4 DEF Done, CompleteEffects, Launched
    <3>3. TargetsOf(made[a]) = (IF missing = {} THEN {} ELSE missing \cup {Focus})
      BY <3>2
    <3>4. Len(made[a]) = Cardinality(TargetsOf(made[a]))
      BY <2>3, <3>1, DistinctCount DEF Sequenced
    <3>5. ASSUME missing # {} PROVE made[a][Len(made[a])] = Focus
      <4>1. PICK i \in 1 .. Len(made[a]) : made[a][i] = Focus
        BY <2>3, <3>2, <3>5 DEF TargetsOf
      <4> QED
        BY <3>1, <4>1 DEF Sequenced
    <3> QED
      BY <3>3, <3>4, <3>5
  <2> QED
    BY <2>2, <2>4 DEF Done
<1> QED
  BY <1>1, RecoveryInvariant, CompleteInvariant, PTL
=============================================================================
