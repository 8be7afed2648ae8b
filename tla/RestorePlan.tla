----------------------------- MODULE RestorePlan -----------------------------
(***************************************************************************)
(* The pure planning half of `restore`: reopen.plan, with launch.refusal   *)
(* and routes.route.  A saved desktop is a set of slots, one per saved     *)
(* window and one per session found in its extra terminal tabs.  Planning  *)
(* decides, against the desktop as it is now, which slots are launched, in *)
(* which groups, in which order, and on which workspace each slot goes.    *)
(*                                                                         *)
(* A slot keeps what the decisions read:                                   *)
(*   id       its place in saved_slots (by window id, extras after it)     *)
(*   app      application id                                               *)
(*   pid      process that owned it (an app instance), 0 when not recorded *)
(*   kind     recipe kind: unknown, app, command, shell, session, other    *)
(*   program  what the recipe runs: agent, terminal, plain, none           *)
(*   embeds   an agent is named among a terminal's other arguments         *)
(*   argv     identity of the recorded command line                        *)
(*   ws, column, tile   saved place, 0 when there is none                  *)
(*   extra    a session of an extra tab                                    *)
(* The desktop now is a record: the app ids with a window, the resume      *)
(* commands of open sessions, the apps that a menu entry fits, and what    *)
(* the user's routes.json makes of the apps it names: "user" for a command *)
(* line of its own, "desktop" for a menu entry, "refused" for an entry     *)
(* that is not there.                                                      *)
(***************************************************************************)
EXTENDS Integers, Sequences, FiniteSets

SessionKinds  == {"session"}                       \* claude, pi, nodecode, declared
TerminalKinds == {"shell", "command"} \cup SessionKinds

\* launch.refusal: "none" when the recipe may run.
Refusal(s) ==
  LET isCommand == s.kind \in {"command", "app"}
  IN  IF      s.kind = "unknown"                             THEN "no-recipe"
      ELSE IF isCommand /\ s.program = "agent"               THEN "agent-session-unannounced"
      ELSE IF isCommand /\ s.program = "terminal" /\ s.embeds THEN "agent-in-other-terminal"
      ELSE IF s.program = "none"                             THEN "no-launch-command"
      ELSE "none"

DispositionInverted(s, now) ==                                             \* mutant
  IF      Refusal(s) # "none"                                  THEN "not-reopened"
  ELSE IF s.kind \in SessionKinds /\ s.argv \notin now.sessions THEN "already-open"
  ELSE IF s.kind \in TerminalKinds \cup {"app"}                 THEN "launch"
  ELSE "not-reopened"

\* Windows without an admissible recipe, sessions already open, everything else launches.
Disposition(s, now) ==
  IF      Refusal(s) # "none"                               THEN "not-reopened"
  ELSE IF s.kind \in SessionKinds /\ s.argv \in now.sessions THEN "already-open"
  ELSE IF s.kind \in TerminalKinds \cup {"app"}              THEN "launch"
  ELSE "not-reopened"

-----------------------------------------------------------------------------
\* Workspaces: saved indices with a recipe compact to 1..n; the rest share n + 1.
KnownWorkspaces(saved) == {s.ws : s \in {r \in saved : r.kind # "unknown" /\ r.ws # 0}}

Spare(saved) == Cardinality(KnownWorkspaces(saved)) + 1

Target(saved, s) ==
  IF s.ws \in KnownWorkspaces(saved)
  THEN Cardinality({w \in KnownWorkspaces(saved) : w <= s.ws})
  ELSE Spare(saved)

Column(saved, s) == IF Target(saved, s) = Spare(saved) THEN 0 ELSE s.column

SortKeyUnplacedFirst(saved, s) ==                                          \* mutant
  <<Target(saved, s), Column(saved, s), s.tile, IF s.extra THEN 0 ELSE s.id, s.id>>

\* The slot order: target workspace, then columns (none last), tile, window id, which an
\* extra tab has none of; the sort is stable.
SortKey(saved, s) ==
  LET c == Column(saved, s)
  IN  <<Target(saved, s), IF c = 0 THEN 1 ELSE 0, c, s.tile, IF s.extra THEN 0 ELSE s.id, s.id>>

Precedes(one, other) ==
  \E i \in DOMAIN one : one[i] < other[i] /\ \A j \in 1 .. i - 1 : one[j] = other[j]

Before(saved, s, r) == Precedes(SortKey(saved, s), SortKey(saved, r))

\* Some of the slots, in that order.
Ordered(saved, some) ==
  CHOOSE q \in [1 .. Cardinality(some) -> some] :
    \A i, j \in DOMAIN q : i < j => Before(saved, q[i], q[j])

-----------------------------------------------------------------------------
GroupByPid(s) ==                                                           \* mutant
  IF s.kind \in TerminalKinds THEN <<"terminal", s.app, s.id, 0>> ELSE <<"app", s.app, s.pid, 0>>

\* A terminal window is a launch of its own; an app launches once per saved process, and once
\* per recorded command line when the process is not recorded.
GroupKey(s) ==
  IF s.kind \in TerminalKinds THEN <<"terminal", s.app, s.id, 0>>
  ELSE <<"app", s.app, s.pid, IF s.pid = 0 THEN s.argv ELSE 0>>

\* reopen.plan counts instances by process alone: windows without one count as one.
Instances(saved, app) == {s.pid : s \in {r \in saved : r.kind = "app" /\ r.app = app}}

\* routes.route: the user's route, for every instance; else a menu entry when the app has one
\* instance, else argv.
Route(saved, s, now) ==
  LET single == Cardinality(Instances(saved, s.app)) = 1
  IN  IF      s.kind \in TerminalKinds         THEN "terminal"
      ELSE IF s.app \in DOMAIN now.users       THEN now.users[s.app]
      ELSE IF single /\ s.app \in now.entries  THEN "desktop"
      ELSE IF s.program # "none"               THEN "argv"
      ELSE "no-route"

Skip(saved, s, now) ==
  IF      s.kind = "app" /\ s.app \in now.apps THEN "already-running"
  ELSE IF Route(saved, s, now) = "no-route"    THEN "no-route"
  ELSE "none"

Launching(saved, now) == {s \in saved : Disposition(s, now) = "launch"}

\* routes.route raises for an entry that is not there, and the plan with it.
Refused(saved, now) ==
  \E s \in Launching(saved, now) : s.kind = "app" /\ Route(saved, s, now) = "refused"

Members(saved, now, s) == {r \in Launching(saved, now) : GroupKey(r) = GroupKey(s)}

Leads(saved, now) ==
  {s \in Launching(saved, now) : \A r \in Members(saved, now, s) : ~Before(saved, r, s)}

\* The group that a slot stands first in.
GroupOf(saved, now, lead) ==
  LET members == Ordered(saved, Members(saved, now, lead))
  IN  [app   |-> lead.app,
       route |-> Route(saved, lead, now),
       skip  |-> Skip(saved, lead, now),
       slots |-> [i \in DOMAIN members |-> members[i].id]]

\* A group stands where its first slot does.
Groups(saved, now) ==
  LET leads == Ordered(saved, Leads(saved, now))
  IN  [n \in DOMAIN leads |-> GroupOf(saved, now, leads[n])]

\* reopen.plan: the launches, and the slots settled without one; nothing when it is refused.
Plan(saved, now) ==
  [groups |-> Groups(saved, now),
   preset |-> [i \in {s.id : s \in saved} |->
                LET s == CHOOSE r \in saved : r.id = i
                IN  IF Disposition(s, now) = "launch" THEN "none" ELSE Disposition(s, now)]]
=============================================================================
