------------------------------ MODULE Recovery ------------------------------
(***************************************************************************)
(* Reconstruction attempts: `reconstruct` claims an approval in the        *)
(* account's one ledger, starts a pinned worker that shares the operation  *)
(* lock, journals each effect before permitting it, and records an outcome.*)
(* The command may die anywhere, the worker may outlive it, the compositor *)
(* may restart, and the same approval may be tried from several state      *)
(* roots.                                                                  *)
(*                                                                         *)
(* One command at a time: resolution_lock.owner_guard.  A marker that was  *)
(* left torn counts as missing: admission refuses over either.  No         *)
(* resolution of an old attempt is under way.  Heartbeats only renew the   *)
(* lease; that it lapsed is one of the failures that may come at any time. *)
(***************************************************************************)
EXTENDS Integers, FiniteSets, Sequences

CONSTANTS
  Approval,    \* approvals, each of a plan of its own
  Root,        \* state roots the command may be given
  Ref, Focus,  \* saved conversations; the focus to give back
  NoTarget,    \* no effect
  MaxSession,  \* BOUND: compositor sessions
  MaxEffects   \* BOUND: effects of one replacement attempt (COUNT in the code)

ASSUME RecoveryAssumption ==
  /\ IsFiniteSet(Ref) /\ Focus \notin Ref /\ NoTarget \notin Ref \cup {Focus}
  /\ MaxSession \in Nat \ {0} /\ MaxEffects \in Nat

Target == Ref \cup {Focus}
Statuses == {"verified", "partial", "indeterminate"}

VARIABLES
  schema,     \* of the profile: additive, or one of the replacement versions
  missing,    \* saved conversations that an additive plan is to launch
  session,    \* the compositor session that is up
  other,      \* another continuity writer holds its operation lock
  planned,    \* session each plan was made in, 0: none
  expired,    \* approvals whose lifetime is over
  approved,   \* approvals on file, by state root
  used,       \* used markers, by state root
  prepared, ready,    \* ledger markers
  terminal,   \* status in the ledger's terminal marker
  reported,   \* number of results in the stored receipt
  intents,    \* targets of the journalled intents
  results,    \* outcomes of the journalled results
  pc, root, attempt,  \* where the command is, and what it was given
  asked,      \* the effect the worker has asked for
  seen,       \* results the command has taken in
  proof,      \* the worker's final proof
  worker,     \* each attempt's worker
  permit,     \* the effect it holds an unused permit for
  made        \* effects each worker has made

rigid == <<schema, missing>>
outside == <<session, other, expired>>
filed == <<planned, approved, used>>
ledger == <<prepared, ready, terminal, reported>>
journal == <<intents, results>>
locals == <<root, attempt, asked, seen, proof>>
command == <<pc, locals>>
effects == <<worker, permit, made>>
vars == <<rigid, outside, filed, ledger, journal, command, effects>>

Init ==
  /\ schema \in {"additive", "replacement"} /\ missing \in SUBSET Ref
  /\ session = 1 /\ other = FALSE /\ expired = {}
  /\ planned = [a \in Approval |-> 0] /\ approved = {} /\ used = {}
  /\ prepared = {} /\ ready = {}
  /\ terminal = [a \in Approval |-> "none"] /\ reported = [a \in Approval |-> 0]
  /\ intents = [a \in Approval |-> <<>>] /\ results = [a \in Approval |-> <<>>]
  /\ pc = "idle" /\ root \in Root /\ attempt \in Approval
  /\ asked = NoTarget /\ seen = 0 /\ proof = "none"
  /\ worker = [a \in Approval |-> "none"] /\ permit = [a \in Approval |-> NoTarget]
  /\ made = [a \in Approval |-> <<>>]
-----------------------------------------------------------------------------
(* Ledger.attempt_status and what admission makes of it. *)

TargetsOf(s) == {s[i] : i \in DOMAIN s}
Launched(a) == TargetsOf(intents[a]) \ {Focus}

\* additive.complete_effects: every missing conversation launched, then the focus given back.
CompleteEffects(a) ==
  /\ Launched(a) = missing
  /\ Focus \in TargetsOf(intents[a]) <=> missing # {}

\* additive.validate_event_history, or simply some history with every intent observed.
HistoryHolds(a) ==
  /\ Len(results[a]) = Len(intents[a]) /\ TargetsOf(results[a]) \subseteq {"observed"}
  /\ IF schema = "additive" THEN CompleteEffects(a) ELSE results[a] # <<>>

\* The caller's used marker is read again; without it the attempt is not known to be complete.
Consumed(a) == \E r \in Root : <<r, a>> \in used

\* A missing marker makes an attempt indeterminate.  So does, here, a contradiction between
\* them: admission raises over it, and inspection shows it as indeterminate.
AttemptStatus(a) ==
  IF /\ a \in ready /\ Consumed(a) /\ terminal[a] # "none"
     /\ reported[a] = Len(results[a])
     /\ terminal[a] = "verified" => HistoryHolds(a)
  THEN terminal[a] ELSE "indeterminate"

Succeeded(a) == AttemptStatus(a) = "verified"

AdmissiblePartial(a) == Succeeded(a) \/ terminal[a] = "partial"            \* mutant
Admissible(a) == Succeeded(a)
Available == \A a \in prepared : Admissible(a)

\* A prepared marker stays, and its O_EXCL creation fails for ever.
Unclaimed(a) == a \notin prepared

\* operation_lock of a session: the worker keeps the descriptor it was given.
Held(s) == \/ other /\ s = session
           \/ pc # "idle" /\ planned[attempt] = s
           \/ \E a \in Approval : worker[a] = "live" /\ planned[a] = s
-----------------------------------------------------------------------------
(* plan, approve and the admission of reconstruct. *)

\* recovery.propose; a blocked plan can never be approved, so only the others matter.
Propose(a) ==
  /\ pc = "idle" /\ planned[a] = 0 /\ ~Held(session) /\ Available
  /\ planned' = [planned EXCEPT ![a] = session]
  /\ UNCHANGED <<rigid, outside, approved, used, ledger, journal, command, effects>>

\* recovery._validate: the plan is of this compositor, in time, and the ledger is clear.
\* Whether the desktop is still the one the plan saw is left open.
Valid(a) ==
  /\ pc = "idle" /\ planned[a] = session /\ a \notin expired
  /\ ~Held(session) /\ Available

Approve(r, a) ==
  /\ Valid(a) /\ <<r, a>> \notin used /\ Unclaimed(a)
  /\ approved' = approved \cup {<<r, a>>}
  /\ UNCHANGED <<rigid, outside, planned, used, ledger, journal, command, effects>>

\* recovery.execute up to Ledger.prepare.
Execute(r, a) ==
  /\ Valid(a) /\ <<r, a>> \in approved /\ <<r, a>> \notin used /\ Unclaimed(a)
  /\ pc' = "prepare" /\ root' = r /\ attempt' = a
  /\ UNCHANGED <<rigid, outside, filed, ledger, journal, effects, asked, seen, proof>>
-----------------------------------------------------------------------------
(* Ledger.prepare: three markers in two places, none of them ever undone. *)

Goto(from, to) == pc = from /\ pc' = to

\* The command is over; what it created stays.
Over ==
  /\ pc' = "idle" /\ asked' = NoTarget /\ seen' = 0 /\ proof' = "none"
  /\ UNCHANGED <<root, attempt>>

Prepare ==
  /\ Available /\ Unclaimed(attempt)
  /\ Goto("prepare", "consume") /\ prepared' = prepared \cup {attempt}
  /\ UNCHANGED <<rigid, outside, filed, ready, terminal, reported, journal, effects, locals>>

\* Store.consume: needs the approval in the caller's root, and the marker to be new.
Consume ==
  /\ pc = "consume"
  /\ IF <<root, attempt>> \in approved \ used
     THEN /\ pc' = "ready" /\ used' = used \cup {<<root, attempt>>}
          /\ UNCHANGED locals
     ELSE Over /\ UNCHANGED used
  /\ UNCHANGED <<rigid, outside, planned, approved, ledger, journal, effects>>

Ready ==
  /\ Goto("ready", "start") /\ ready' = ready \cup {attempt}
  /\ UNCHANGED <<rigid, outside, filed, prepared, terminal, reported, journal, effects, locals>>
-----------------------------------------------------------------------------
(* Adapter.call("execute"). *)

InTime == attempt \notin expired

Start ==
  /\ Goto("start", "call") /\ InTime
  /\ worker' = [worker EXCEPT ![attempt] = "live"]
  /\ UNCHANGED <<rigid, outside, filed, ledger, journal, permit, made, locals>>

\* A frame arrives from the worker; one intent at most is without its result.
Frame == pc = "call" /\ InTime /\ worker[attempt] = "live"
Pending == Len(intents[attempt]) # Len(results[attempt])

\* additive.effect: a missing conversation not launched yet, or the focus after all of them.
Authorized(t) ==
  IF schema = "additive"
  THEN \/ t \in missing \ Launched(attempt) /\ Focus \notin TargetsOf(intents[attempt])
       \/ /\ t = Focus /\ missing # {} /\ Launched(attempt) = missing
          /\ Focus \notin TargetsOf(intents[attempt])
  ELSE Len(intents[attempt]) < MaxEffects

Effect(t) ==
  /\ Frame /\ ~Pending /\ Authorized(t)
  /\ pc' = "intent" /\ asked' = t
  /\ UNCHANGED <<rigid, outside, filed, ledger, journal, effects, root, attempt, seen, proof>>

\* journal("intent"), then the permit.
IntentMayBeLost ==                                                         \* mutant
  intents' \in {intents, [intents EXCEPT ![attempt] = Append(@, asked)]}
IntentOnFile == intents' = [intents EXCEPT ![attempt] = Append(@, asked)]

JournalIntent ==
  /\ Goto("intent", "permit") /\ IntentOnFile
  /\ UNCHANGED <<rigid, outside, filed, ledger, results, effects, locals>>

Permit ==
  /\ Goto("permit", "call") /\ InTime
  /\ permit' = [permit EXCEPT ![attempt] = asked] /\ asked' = NoTarget
  /\ UNCHANGED <<rigid, outside, filed, ledger, journal, worker, made,
                 root, attempt, seen, proof>>

\* effect-result: journalled and taken in; anything but "observed" ends the call.
Reports(outcome) ==
  /\ Frame /\ Pending
  /\ outcome = "observed" => Len(made[attempt]) = Len(intents[attempt])

EffectResult(outcome) ==
  /\ Reports(outcome)
  /\ results' = [results EXCEPT ![attempt] = Append(@, outcome)]
  /\ seen' = seen + 1 /\ pc' = IF outcome = "observed" THEN "call" ELSE "close"
  /\ permit' = [permit EXCEPT ![attempt] = NoTarget]
  /\ UNCHANGED <<rigid, outside, filed, ledger, intents, worker, made,
                 root, attempt, asked, proof>>

\* The final frame, with the worker's proof; a replacement's may come after expiry.
Result ==
  /\ pc = "call" /\ worker[attempt] = "live" /\ ~Pending
  /\ schema = "additive" => InTime /\ CompleteEffects(attempt)
  /\ pc' = "exit" /\ proof' \in {"complete", "incomplete", "interrupted"}
  /\ UNCHANGED <<rigid, outside, filed, ledger, journal, effects, root, attempt, asked, seen>>

\* Nothing more is sent, and the worker ends with status zero.
WorkerEnded ==
  /\ Goto("exit", "finish") /\ worker[attempt] = "ok"
  /\ UNCHANGED <<rigid, outside, filed, ledger, journal, effects, locals>>

\* What a failing write may leave of the journal.
Appended(s, e) == s' = s \/ s' = [s EXCEPT ![attempt] = Append(@, e)]

\* A refused frame, a lapsed lease, expiry, end of file, a failing journal: no retry.  The
\* intent, the result or the permit that failed may be on file or with the worker.
Breaks ==
  /\ pc \in {"call", "intent", "permit", "exit"}
  /\ pc' = "close" /\ proof' = "none" /\ asked' = NoTarget
  /\ \/ UNCHANGED <<intents, results, permit>>
     \/ pc = "intent" /\ Appended(intents, asked) /\ UNCHANGED <<results, permit>>
     \/ Reports("observed") /\ Appended(results, "observed") /\ UNCHANGED <<intents, permit>>
     \/ /\ pc = "permit" /\ permit' = [permit EXCEPT ![attempt] = asked]
        /\ UNCHANGED <<intents, results>>
  /\ UNCHANGED <<rigid, outside, filed, ledger, worker, made,
                 root, attempt, seen>>

\* The worker could not be started, or the approval ran out before.
StartFails ==
  /\ Goto("start", "finish")
  /\ UNCHANGED <<rigid, outside, filed, ledger, journal, effects, locals>>

\* `finally`: the socket is closed and the worker is waited for, never killed.
Awaited == worker[attempt] # "live"

Close ==
  /\ Goto("close", "finish") /\ Awaited
  /\ UNCHANGED <<rigid, outside, filed, ledger, journal, effects, locals>>
-----------------------------------------------------------------------------
(* recovery_verification.receipt and Ledger.finish. *)

Evidenced == seen > 0 \/ (schema = "additive" /\ missing = {})

\* No observation mends a history that is not complete.
FreshStatus(evidence, history) ==                                          \* mutant
  IF evidence \in {"none", "interrupted"} THEN "indeterminate"
  ELSE IF evidence = "incomplete" THEN "partial" ELSE "verified"
ReceiptStatus(evidence, history) ==
  IF ~history \/ evidence \in {"none", "interrupted"} THEN "indeterminate"
  ELSE IF evidence = "incomplete" THEN "partial" ELSE "verified"

Verdict == ReceiptStatus(IF Evidenced THEN proof ELSE "none", TRUE)

Finish ==
  /\ pc = "finish" /\ Over
  /\ terminal' = [terminal EXCEPT ![attempt] = Verdict]
  /\ reported' = [reported EXCEPT ![attempt] = seen]
  /\ UNCHANGED <<rigid, outside, filed, prepared, ready, journal, effects>>

\* A store operation raises, or the command is killed: the worker is left to itself.
Dies ==
  /\ pc # "idle" /\ Over
  /\ UNCHANGED <<rigid, outside, filed, ledger, journal, effects>>

Call == \/ Start \/ StartFails \/ JournalIntent \/ Permit
        \/ Result \/ WorkerEnded \/ Breaks \/ Close
        \/ \E t \in Target : Effect(t)
        \/ \E o \in {"observed", "indeterminate"} : EffectResult(o)

\* Between commands, under the plan's operation lock.
Readable(a) == pc = "idle" /\ a \in prepared /\ ~Held(planned[a])

\* recovery.inspect_or_verify: what it stores for an attempt once the worker has looked afresh
\* at what is there.  Nothing that is modelled reads that receipt.
Verification(a, evidence) ==
  IF Readable(a) THEN ReceiptStatus(evidence, Succeeded(a)) ELSE "refused"

\* recovery.inspect_attempt: what is on file, if every marker could be listed and the worker
\* accounts for everything else it knows of.
Inspection(a, accounted) ==
  IF ~Readable(a) THEN "refused" ELSE IF accounted THEN AttemptStatus(a) ELSE "indeterminate"

Reconstruct == Prepare \/ Consume \/ Ready \/ Call \/ Finish \/ Dies
-----------------------------------------------------------------------------
(* The worker: an effect only for a permit, and only once for each. *)

Acts(a) ==
  /\ worker[a] = "live" /\ permit[a] # NoTarget
  /\ permit' = [permit EXCEPT ![a] = NoTarget]
  /\ made' = [made EXCEPT ![a] = Append(@, permit[a])]
  /\ UNCHANGED <<rigid, outside, filed, ledger, journal, command, worker>>

Exits(a) ==
  /\ worker[a] = "live"
  /\ \E status \in {"ok", "failed"} : worker' = [worker EXCEPT ![a] = status]
  /\ permit' = [permit EXCEPT ![a] = NoTarget]
  /\ UNCHANGED <<rigid, outside, filed, ledger, journal, command, made>>
-----------------------------------------------------------------------------
(* Outside. *)

Expire(a) ==
  /\ a \notin expired /\ planned[a] # 0 /\ expired' = expired \cup {a}
  /\ UNCHANGED <<rigid, session, other, filed, ledger, journal, command, effects>>

OtherWriter ==
  /\ other' = ~other /\ (other' => ~Held(session))
  /\ UNCHANGED <<rigid, session, expired, filed, ledger, journal, command, effects>>

\* A new compositor socket, and with it a new lock; the command and its worker live on.
CompositorRestarts ==
  /\ session < MaxSession /\ session' = session + 1 /\ other' = FALSE
  /\ UNCHANGED <<rigid, expired, filed, ledger, journal, command, effects>>

\* The user removes a state root, against every warning the program prints.
RootRemoved(r) ==
  /\ approved' = approved \ ({r} \X Approval) /\ used' = used \ ({r} \X Approval)
  /\ UNCHANGED <<rigid, outside, planned, ledger, journal, command, effects>>

Outside == \/ OtherWriter \/ CompositorRestarts
           \/ \E a \in Approval : Expire(a) \/ Acts(a) \/ Exits(a)
           \/ \E r \in Root : RootRemoved(r)

Next == \/ Reconstruct \/ Outside
        \/ \E a \in Approval : Propose(a) \/ \E r \in Root : Approve(r, a) \/ Execute(r, a)

Spec == Init /\ [][Next]_vars
-----------------------------------------------------------------------------
TypeOK ==
  /\ schema \in {"additive", "replacement"} /\ missing \subseteq Ref
  /\ session \in 0 .. MaxSession /\ other \in BOOLEAN /\ expired \subseteq Approval
  /\ planned \in [Approval -> 0 .. MaxSession]
  /\ approved \subseteq Root \X Approval /\ used \subseteq Root \X Approval
  /\ prepared \subseteq Approval /\ ready \subseteq Approval
  /\ terminal \in [Approval -> Statuses \cup {"none"}] /\ reported \in [Approval -> Nat]
  /\ intents \in [Approval -> Seq(Target)]
  /\ results \in [Approval -> Seq({"observed", "indeterminate"})]
  /\ pc \in {"idle", "prepare", "consume", "ready", "start", "call", "intent", "permit",
             "exit", "close", "finish"}
  /\ root \in Root /\ attempt \in Approval /\ asked \in Target \cup {NoTarget} /\ seen \in Nat
  /\ proof \in {"none", "complete", "incomplete", "interrupted"}
  /\ worker \in [Approval -> {"none", "live", "ok", "failed"}]
  /\ permit \in [Approval -> Target \cup {NoTarget}] /\ made \in [Approval -> Seq(Target)]

\* Ledger.available: at most one attempt of the account is not a proved success; nothing is
\* begun over it, in this compositor session or a later one.
UnresolvedBlocks ==
  \A a, b \in prepared : terminal[a] # "verified" /\ terminal[b] # "verified" => a = b

\* Adapter.call, "fsync before issuing one bounded effect permit": the effects a worker made are
\* those of the journalled intents in their order, and at most the last has no result.
EffectsJournalled ==
  \A a \in Approval :
    /\ Len(results[a]) <= Len(made[a]) + 1 /\ Len(made[a]) <= Len(results[a]) + 1
    /\ Len(made[a]) <= Len(intents[a])
    /\ \A i \in DOMAIN made[a] : made[a][i] = intents[a][i]

\* receipt, "fresh observation never rewrites effect history": what is recorded as verified, or
\* verified or inspected as such afterwards, was all done, each effect once and observed;
\* additively, every missing conversation and then the focus.
VerifiedIsComplete ==
  \A a \in Approval :
    "verified" \in {terminal[a], Verification(a, "complete"), Inspection(a, TRUE)} =>
    /\ made[a] = intents[a] /\ Len(results[a]) = Len(made[a]) /\ reported[a] = Len(made[a])
    /\ TargetsOf(results[a]) \subseteq {"observed"}
    /\ schema = "additive" =>
         /\ TargetsOf(made[a]) = (IF missing = {} THEN {} ELSE missing \cup {Focus})
         /\ Len(made[a]) = Cardinality(TargetsOf(made[a]))
         /\ missing # {} => made[a][Len(made[a])] = Focus
=============================================================================
