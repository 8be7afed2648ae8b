------------------------------ MODULE Sessions ------------------------------
(***************************************************************************)
(* What a capture saves of the tabs of one Ghostty process, and what a     *)
(* restore reads of it: launch.window_recipes over launch_sessions and     *)
(* /proc, inside probe.capture, with reopen.saved_slots.                   *)
(*                                                                         *)
(* Nothing holds the processes still.  A capture reads the windows, then   *)
(* the process table pid by pid, the windows again, and for every tab the  *)
(* session records, the terminal's job control and a command line, while   *)
(* tabs open and close, programs start, replace themselves, end or crash,  *)
(* agents change their session, hooks declare them, and a pid comes back   *)
(* under another process.                                                  *)
(*                                                                         *)
(* A command is the name of its process, the program that its command line *)
(* begins with, which for a script is the interpreter, and whether there   *)
(* is an argument of its own (`bash start.sh`, an agent's opening prompt). *)
(* Claude's registry and Pi's presence files, which name a bare pid, are   *)
(* one reader, `registry`; nodecode's records and the declarations also    *)
(* name the start of the process.                                          *)
(***************************************************************************)
EXTENDS Integers, Sequences, FiniteSets, SequencesExt

CONSTANTS
  MaxPid,      \* pids are 1 .. MaxPid
  Sessions,    \* session ids
  MaxStarts,   \* bound: processes ever started
  MaxBefore,   \* bound: events before the capture begins
  MaxDisturbed \* bound: events before and while it reads, when it is not calm

ASSUME BoundsAssumption ==
  {MaxPid, MaxStarts, MaxBefore, MaxDisturbed} \subseteq Nat

VARIABLES
  proc,     \* live processes by pid: [born, parent, comm, word, argued, group, session]
  tab,      \* the terminal's direct children: [window, front], front its foreground group
  record,   \* session records on disk: reader -> pid -> [born, session, writer], the last a
            \* HISTORY: the start of the process that announced it
  hook,     \* SessionStart hooks under way: start of the agent -> [pid, session, step, pin]
  unheard,  \* HISTORY: starts of the agents whose last hook failed
  starts,   \* processes started so far; a process's start time
  events,   \* events so far, before or during the capture
  cap       \* the capture and what it has read
vars == <<proc, tab, record, hook, unheard, starts, events, cap>>

Pids == 1 .. MaxPid
Ghostty == 0
Orphaned == -1
None == "none"
Fresh == "fresh"        \* what `declare` names: a launch of the operator's own

Shells == {"bash"}
Agents == {"claude", "codex", "aider"}
Readers == <<"registry", "nodecode", "declared">>
Commands ==             \* <<process name, first word, argued>>
  {<<"bash", "bash", FALSE>>, <<"bash", "bash", TRUE>>, <<"vim", "vim", TRUE>>,
   <<"claude", "claude", TRUE>>, <<"codex", "codex", TRUE>>, <<"aider", "python3", TRUE>>,
   <<"nodecode", "nodecode", FALSE>>}
TabCommands ==          \* bound: what a tab opens with
  {<<"bash", "bash", FALSE>>, <<"claude", "claude", TRUE>>, <<"codex", "codex", TRUE>>,
   <<"nodecode", "nodecode", FALSE>>}

Windows == {tab[t].window : t \in DOMAIN tab}

\* f with x mapped to y
With(f, x, y) == [z \in DOMAIN f \cup {x} |-> IF z = x THEN y ELSE f[z]]

Ascending(S) ==
  LET upto[n \in 0 .. MaxPid + MaxStarts] ==
        IF n = 0 THEN <<>> ELSE IF n \in S THEN Append(upto[n - 1], n) ELSE upto[n - 1]
  IN  upto[MaxPid + MaxStarts]

\* launch_proc.children_index; children by pid.
Parents(table) == [p \in DOMAIN table |-> table[p].parent]
ChildrenIn(p, parents) == Ascending({c \in DOMAIN parents : parents[c] = p})
Children(p, table) == ChildrenIn(p, Parents(table))

\* launch_proc.descendants, after the shell itself: breadth first, each process once.
Descend(shell, parents) ==
  LET walk[n \in 0 .. MaxPid] ==
        IF n = 0 THEN [queue |-> <<shell>>, seen |-> <<>>]
        ELSE LET w == walk[n - 1]
                 p == Head(w.queue)
             IN  CASE w.queue = <<>> -> w
                   [] w.queue # <<>> /\ p \in ToSet(w.seen) -> [w EXCEPT !.queue = Tail(@)]
                   [] OTHER -> [queue |-> Tail(w.queue) \o ChildrenIn(p, parents),
                                seen  |-> Append(w.seen, p)]
  IN  walk[MaxPid].seen

Tree(shell, table) == Descend(shell, Parents(table))

InTree(p, shell, table) == p \in ToSet(Tree(shell, table))

\* launch_sessions.inside_terminal
InsideTerminal(p) == \E t \in DOMAIN tab : InTree(p, t, proc)
-----------------------------------------------------------------------------
(* Processes, agents, and the commands that declare sessions.              *)

\* Every event may fall into the capture, which is then no longer calm.
Event(ended) ==
  /\ events < IF cap.pc = "idle" THEN MaxBefore ELSE MaxDisturbed
  /\ events' = events + 1
  /\ cap' = [cap EXCEPT !.calm = FALSE, !.stayed = @ \ ended]

NewProcess(p, parent, c, group) ==
  [born |-> starts + 1, parent |-> parent, comm |-> c[1], word |-> c[2], argued |-> c[3],
   group |-> group, session |-> None]

Starts(p, parent, c, group) ==
  /\ p \in Pids \ DOMAIN proc
  /\ \A q \in 1 .. p - 1 : q \in DOMAIN proc      \* bound: the lowest free pid, so that pids come back
  /\ starts < MaxStarts
  /\ starts' = starts + 1
  /\ proc' = With(proc, p, NewProcess(p, parent, c, group))

\* A tab opens, in a new window or in one of the terminal's.
OpenTab(p) ==
  \E c \in TabCommands, w \in Windows \cup {starts + 1} :
    /\ Event({})
    /\ Starts(p, Ghostty, c, p)
    /\ tab' = With(tab, p, [window |-> w, front |-> p])
    /\ UNCHANGED <<record, hook, unheard>>

\* q starts a program, in a job of its own or in q's, which a waiting shell never does; a
\* tab's own process may put a new job in front.
Fork(q, p) ==
  \E c \in Commands, g \in {p, proc[q].group} :
    /\ Event({})
    /\ g = p \/ proc[q].comm \notin Shells \/ proc[q].argued
    /\ Starts(p, q, c, g)
    /\ \/ UNCHANGED tab
       \/ /\ q \in DOMAIN tab /\ g = p
          /\ tab' = [tab EXCEPT ![q].front = p]
    /\ UNCHANGED <<record, hook, unheard>>

\* A shell or a script replaces itself: same pid, same start time, same job.
Exec(p) ==
  \E c \in Commands :
    /\ Event({})
    /\ proc[p].comm \in Shells /\ c[1] # proc[p].comm
    /\ proc' = [proc EXCEPT ![p].comm = c[1], ![p].word = c[2], ![p].argued = c[3],
                            ![p].session = None]
    /\ UNCHANGED <<tab, record, hook, unheard, starts>>

\* The user stops a job or brings one of the tab's jobs to the front.
SwitchJob(t) ==
  \E p \in ToSet(Tree(t, proc)) :
    /\ Event({})
    /\ proc[p].group # tab[t].front
    /\ tab' = [tab EXCEPT ![t].front = proc[p].group]
    /\ UNCHANGED <<proc, record, hook, unheard, starts>>

\* A process ends.  A clean end removes its own session record, a crash leaves it.
End(p) ==
  /\ Event({p})
  /\ proc' = [q \in DOMAIN proc \ {p} |->
                IF proc[q].parent = p THEN [proc[q] EXCEPT !.parent = Orphaned] ELSE proc[q]]
  /\ tab' = [t \in DOMAIN tab \ {p} |->
               IF tab[t].front = p THEN [tab[t] EXCEPT !.front = t] ELSE tab[t]]
  /\ \/ UNCHANGED record
     \/ /\ p \in DOMAIN record.registry \cup DOMAIN record.nodecode
        /\ record' = [r \in DOMAIN record |->
                        IF r = "declared" THEN record[r]
                        ELSE [q \in DOMAIN record[r] \ {p} |-> record[r][q]]]
  /\ UNCHANGED <<hook, unheard, starts>>

Written(reader, p, born, s, writer) ==
  [record EXCEPT ![reader] = With(@, p, [born |-> born, session |-> s, writer |-> writer])]

NewHook(p, s) == [pid |-> p, session |-> s, step |-> "start", pin |-> 0]

\* An agent or a nodecode shell begins or switches its session: it writes its own
\* record, or runs its SessionStart hook, for which it waits.
Announce(p, s) ==
  LET born == proc[p].born
  IN  /\ Event({})
      /\ proc[p].session # s /\ born \notin DOMAIN hook
      /\ proc' = [proc EXCEPT ![p].session = s]
      /\ \/ /\ proc[p].comm = "claude"
            /\ record' = Written("registry", p, born, s, born)
            /\ UNCHANGED hook
         \/ /\ proc[p].comm = "nodecode"
            /\ record' = Written("nodecode", p, born, s, born)
            /\ UNCHANGED hook
         \/ /\ proc[p].comm = "codex"
            /\ hook' = With(hook, born, NewHook(p, s))
            /\ UNCHANGED record
      /\ UNCHANGED <<tab, unheard, starts>>

KeepsFirst(p, born, s, writer) ==                                          \* mutant
  IF p \in DOMAIN record.declared /\ record.declared[p].born = born THEN record
  ELSE Written("declared", p, born, s, writer)

\* launch_sessions.declare: pinned to a start, replacing what was there.
Declared(p, born, s, writer) == Written("declared", p, born, s, writer)

(* launch_sessions.hook_declaration, for the hook of the agent that started at h.  The agent *)
(* may end between any two of its steps, and its pid be another process's.                   *)

HookGoesOn(h, from, to, pin) ==
  /\ h \in DOMAIN hook /\ hook[h].step = from
  /\ hook' = [hook EXCEPT ![h].step = to, ![h].pin = pin]
  /\ cap' = [cap EXCEPT !.calm = FALSE]
  /\ UNCHANGED <<proc, tab, record, unheard, starts, events>>

HookEnds(h) ==
  /\ h \in DOMAIN hook
  /\ hook' = [g \in DOMAIN hook \ {h} |-> hook[g]]
  /\ cap' = [cap EXCEPT !.calm = FALSE]
  /\ UNCHANGED <<proc, tab, starts, events>>

\* agent_ancestor climbs from the hook to the agent it runs under, while that lives.
HookFinds(h) ==
  /\ HookGoesOn(h, "start", "found", 0)
  /\ hook[h].pid \in DOMAIN proc /\ proc[hook[h].pid].born = h

\* inside_terminal, of whatever has the pid now
HookLooks(h) ==
  /\ HookGoesOn(h, "found", "inside", 0)
  /\ hook[h].pid \in DOMAIN proc /\ InsideTerminal(hook[h].pid)

\* declare pins the start of whatever has the pid now.
HookPins(h) ==
  /\ h \in DOMAIN hook /\ hook[h].pid \in DOMAIN proc
  /\ HookGoesOn(h, "inside", "pinned", proc[hook[h].pid].born)

HookDeclares(h) ==
  /\ HookEnds(h) /\ hook[h].step = "pinned"
  /\ record' = Declared(hook[h].pid, hook[h].pin, hook[h].session, h)
  /\ unheard' = unheard \ {h}

\* The agent is gone or outside a terminal, or the hook raised, or was killed.
HookFails(h) ==
  /\ HookEnds(h)
  /\ unheard' = unheard \cup {h}
  /\ UNCHANGED record

HookRuns(h) == HookFinds(h) \/ HookLooks(h) \/ HookPins(h) \/ HookDeclares(h) \/ HookFails(h)

\* `declare --pid`, its reading of the start and its replacing as one step, and
\* `declare --pid --clear`
Declare(p) ==
  /\ Event({})
  /\ record' = Declared(p, proc[p].born, Fresh, proc[p].born)
  /\ UNCHANGED <<proc, tab, hook, unheard, starts>>

Clear(p) ==
  /\ Event({})
  /\ p \in DOMAIN record.declared
  /\ record' = [record EXCEPT !.declared = [q \in DOMAIN @ \ {p} |-> @[q]]]
  /\ UNCHANGED <<proc, tab, hook, unheard, starts>>

World ==
  \/ \E p \in Pids : OpenTab(p) \/ Clear(p)
  \/ \E h \in DOMAIN hook : HookRuns(h)
  \/ \E q \in DOMAIN proc, p \in Pids : Fork(q, p)
  \/ \E p \in DOMAIN proc : Exec(p) \/ End(p) \/ Declare(p)
  \/ \E p \in DOMAIN proc, s \in Sessions : Announce(p, s)
  \/ \E t \in DOMAIN tab : SwitchJob(t)
-----------------------------------------------------------------------------
(* Sessions of the tabs: launch.terminal_sessions.                         *)

Unpinned(reader, p, born) == p \in DOMAIN record[reader]                   \* mutant

\* claude_session and pi_session believe the pid, the others also compare the start.
Names(reader, p, born) ==
  /\ p \in DOMAIN record[reader]
  /\ reader = "registry" \/ record[reader][p].born = born

Kind(reader) == IF reader = "registry" THEN "claude" ELSE reader

\* What terminal_sessions keeps of a tab, and for the properties which tab and process.
Session(t, kind, id, runs, by) ==
  [tab |-> t, kind |-> kind, session |-> id, runs |-> runs, by |-> by]

\* The first process from the shell down that any reader knows decides.
AnnouncedBy(tree, inv) ==
  SelectInSeq(tree, LAMBDA p : \E i \in DOMAIN Readers : Names(Readers[i], p, inv[p].born))

Announced(t, tree, inv) ==
  LET p == tree[AnnouncedBy(tree, inv)]
      r == Readers[SelectInSeq(Readers, LAMBDA x : Names(x, p, inv[p].born))]
  IN  Session(t, Kind(r), record[r][p].session, None, <<p, record[r][p].born>>)

Unknown(t) == Session(t, "unknown", None, None, <<0, 0>>)

\* launch.job_control: nothing for a process that is gone, or whose pid is another's.
Readable(p, inv) == p \in DOMAIN proc /\ proc[p].born = inv[p].born

AnyJob(t, tree, inv) == [leader |-> 0, pool |-> ToSet(tree)]               \* mutant

\* launch.foreground_job; without job control the whole tree is the job.
ForegroundJob(t, tree, inv) ==
  LET job == IF Readable(t, inv)
             THEN {p \in ToSet(tree) : Readable(p, inv) /\ proc[p].group = tab[t].front}
             ELSE {}
  IN  IF job = {} THEN [leader |-> 0, pool |-> ToSet(tree)]
      ELSE [leader |-> IF tab[t].front \in job THEN tab[t].front ELSE 0, pool |-> job]

\* launch.interactive_shell: the name is the inventory's, the arguments are read now.
InteractiveShell(p, inv) ==
  inv[p].comm \in Shells /\ (p \in DOMAIN proc => ~proc[p].argued)

\* The job's leader as it was started, unless it is the waiting shell; else the first
\* program without a child in the job that is not a shell.
Leaf(job, tree, inv) ==
  IF job.leader # 0 /\ ~InteractiveShell(job.leader, inv) THEN job.leader
  ELSE LET i == SelectInSeq(tree, LAMBDA p :
                  /\ p \in job.pool
                  /\ \A c \in job.pool : inv[c].parent # p
                  /\ inv[p].comm \notin Shells)
       IN  IF i = 0 THEN 0 ELSE tree[i]
-----------------------------------------------------------------------------
(* Recipes of the windows: launch.window_recipes.                          *)

\* launch.matches_title: a labelled session whose label the window shows.
MatchesTitle(s, title) == s.kind = "claude" /\ s.session = title

KeepsMatched(rest, i) == rest                                              \* mutant

Taken(rest, i) == RemoveAt(rest, i)

GiveByTitle(windows, sessions, titles) ==
  LET give[n \in 0 .. Len(windows)] ==
        IF n = 0 THEN [given |-> <<>>, rest |-> sessions]
        ELSE LET acc == give[n - 1]
                 i == SelectInSeq(acc.rest, LAMBDA s : MatchesTitle(s, titles[windows[n]]))
             IN  IF i = 0 THEN acc
                 ELSE [given |-> With(acc.given, windows[n], acc.rest[i]),
                       rest  |-> Taken(acc.rest, i)]
  IN  give[Len(windows)]

GiveInOrder(windows, titled) ==
  LET give[n \in 0 .. Len(windows)] ==
        IF n = 0 THEN titled
        ELSE LET acc == give[n - 1]
             IN  IF windows[n] \in DOMAIN acc.given \/ acc.rest = <<>> THEN acc
                 ELSE [given |-> With(acc.given, windows[n], Head(acc.rest)),
                       rest  |-> Tail(acc.rest)]
  IN  give[Len(windows)]

Assigned(windows, sessions, titles) ==
  GiveInOrder(windows,
    IF Len(windows) > 1 \/ Len(sessions) > 1 THEN GiveByTitle(windows, sessions, titles)
    ELSE [given |-> <<>>, rest |-> sessions])

Slot(t, kind, runs, id, by) ==
  [tab |-> t, kind |-> kind, runs |-> runs, session |-> id, by |-> by]

NoRecipe == Slot(0, "unknown", None, None, <<0, 0>>)
BareShell == Slot(0, "shell", None, None, <<0, 0>>)

\* launch.terminal_recipe, as restore planning reads it.
TerminalRecipe(s) ==
  CASE s.kind = "unknown" -> [NoRecipe EXCEPT !.tab = s.tab]
    [] s.kind \in {"shell", "command"} -> Slot(s.tab, s.kind, s.runs, None, s.by)
    [] OTHER -> Slot(s.tab, "session", None, s.session, s.by)

\* The recipes go to the windows of the first reading; reopen.saved_slots adds the extras.
SavedSlots(first, final, sessions, titles) ==
  LET windows == Ascending(final)
      acc == Assigned(windows, sessions, titles)
      Of(w) == IF w \notin final THEN NoRecipe
               ELSE IF w \in DOMAIN acc.given THEN TerminalRecipe(acc.given[w]) ELSE BareShell
      Extras(w) == IF windows # <<>> /\ w = Head(windows)
                   THEN [i \in DOMAIN acc.rest |-> TerminalRecipe(acc.rest[i])] ELSE <<>>
      saved == Ascending(first)
  IN  FlattenSeq([i \in DOMAIN saved |-> <<Of(saved[i])>> \o Extras(saved[i])])
-----------------------------------------------------------------------------
(* probe.capture                                                           *)

NoJob == [leader |-> 0, pool |-> {}]
NoCapture ==
  [pc |-> "idle", first |-> {}, inv |-> <<>>, next |-> 1, final |-> {}, todo |-> <<>>,
   found |-> <<>>, job |-> NoJob, leaf |-> 0, slots |-> <<>>,
   coherent |-> FALSE, calm |-> FALSE, stayed |-> {}, agents |-> {}]

Reads == UNCHANGED <<proc, tab, record, hook, unheard, starts, events>>

RunningAgents == {<<p, proc[p].born>> : p \in {q \in DOMAIN proc : proc[q].comm \in Agents}}

Begin ==
  /\ cap.pc = "idle"
  /\ events < MaxBefore      \* bound: the last event comes before no capture
  /\ cap' = [cap EXCEPT !.pc = "scan", !.first = Windows,
                        !.calm = TRUE, !.stayed = DOMAIN tab, !.agents = RunningAgents]
  /\ Reads

\* probe.process_inventory reads one /proc entry after the other.
Scan ==
  /\ cap.pc = "scan" /\ cap.next \in Pids
  /\ cap' = [cap EXCEPT
       !.next = @ + 1,
       !.inv = IF cap.next \notin DOMAIN proc THEN @
               ELSE LET p == proc[cap.next]
                    IN  With(@, cap.next, [born |-> p.born, parent |-> p.parent, comm |-> p.comm])]
  /\ Reads

ReadWindowsAgain ==
  /\ cap.pc = "scan" /\ cap.next > MaxPid
  /\ cap' = [cap EXCEPT !.pc = "records", !.final = Windows, !.next = 1,
                        !.todo = IF Windows = {} THEN <<>> ELSE Children(Ghostty, cap.inv)]
  /\ Reads

Found(s) == [cap EXCEPT !.pc = "records", !.todo = Tail(@), !.found = Append(@, s),
                        !.job = NoJob, !.leaf = 0]

AgentOnTop(tree, inv) == inv[tree[1]].comm \in Agents                      \* mutant
AgentIn(tree, inv) == \E p \in ToSet(tree) : inv[p].comm \in Agents

\* An announced session, or an agent without one; otherwise the tab is what it runs.
ReadRecords ==
  /\ cap.pc = "records" /\ cap.todo # <<>>
  /\ LET t == Head(cap.todo)
         tree == Tree(t, cap.inv)
     IN  cap' = CASE AnnouncedBy(tree, cap.inv) # 0 -> Found(Announced(t, tree, cap.inv))
                  [] AnnouncedBy(tree, cap.inv) = 0 /\ AgentIn(tree, cap.inv) -> Found(Unknown(t))
                  [] OTHER -> [cap EXCEPT !.pc = "job"]
  /\ Reads

ReadJob ==
  /\ cap.pc = "job"
  /\ LET t == Head(cap.todo)
     IN  cap' = [cap EXCEPT !.pc = "leaf", !.job = ForegroundJob(t, Tree(t, cap.inv), cap.inv)]
  /\ Reads

ChooseLeaf ==
  /\ cap.pc = "leaf"
  /\ LET t == Head(cap.todo)
         leaf == Leaf(cap.job, Tree(t, cap.inv), cap.inv)
     IN  cap' = IF leaf = 0 THEN Found(Session(t, "shell", None, None, <<0, 0>>))
                ELSE [cap EXCEPT !.pc = "command", !.leaf = leaf]
  /\ Reads

\* launch_proc.read_cmdline of whatever has the pid now; nothing when it is gone.
ReadCommand ==
  /\ cap.pc = "command"
  /\ LET p == cap.leaf
     IN  cap' = Found(IF p \in DOMAIN proc
                      THEN Session(Head(cap.todo), "command", None, proc[p].word, <<p, proc[p].born>>)
                      ELSE Session(Head(cap.todo), "command", None, None, <<p, cap.inv[p].born>>))
  /\ Reads

Save ==
  /\ cap.pc = "records" /\ cap.todo = <<>>
  /\ \E titles \in [cap.final -> Sessions \cup {None}] :
       cap' = [NoCapture EXCEPT
                 !.pc = "saved", !.calm = cap.calm, !.stayed = cap.stayed, !.agents = cap.agents,
                 !.coherent = cap.first = cap.final,
                 !.slots = SavedSlots(cap.first, cap.final, cap.found, titles)]
  /\ Reads

Capture ==
  \/ Begin \/ Scan \/ ReadWindowsAgain \/ ReadRecords
  \/ ReadJob \/ ChooseLeaf \/ ReadCommand \/ Save

Init ==
  /\ proc = <<>> /\ tab = <<>> /\ hook = <<>> /\ unheard = {}
  /\ record = [r \in ToSet(Readers) |-> <<>>]
  /\ starts = 0 /\ events = 0
  /\ cap = NoCapture

\* bound: a capture is disturbed when at most MaxDisturbed events came before.  Once the
\* desktop is saved what the processes do no longer matters.
Next == Capture \/ (World /\ cap.pc # "saved" /\ (cap.pc = "idle" \/ events <= MaxDisturbed))

Spec == Init /\ [][Next]_vars
-----------------------------------------------------------------------------
SlotsOf(t) == {i \in DOMAIN cap.slots : cap.slots[i].tab = t}

\* probe.capture and launch.window_recipes: a capture whose two readings agree keeps every
\* tab that lived through it, in exactly one place, on a window or among the extras,
\* however titles match and whatever opens, ends or comes back under another pid meanwhile.
KeepsEveryTab ==
  cap.pc = "saved" /\ cap.coherent => \A t \in cap.stayed : Cardinality(SlotsOf(t)) = 1

\* launch.terminal_sessions: when nothing happens during the capture, a tab saved as a
\* command names a process of its foreground job, where its tree has one, and a tab saved as
\* a bare shell has no program or script leading it: no daemon, stopped or background job is
\* taken for what the tab shows, and none in front is missed.
SavesForegroundJob ==
  cap.pc = "saved" /\ cap.calm =>
    \A s \in ToSet(cap.slots) : s.tab # 0 =>
      LET front == {p \in ToSet(Tree(s.tab, proc)) : proc[p].group = tab[s.tab].front}
      IN  /\ s.kind = "command" /\ front # {} => s.by[1] \in front
          /\ s.kind = "shell" =>
               ~\E p \in front : p = tab[s.tab].front
                                  /\ (proc[p].comm \in Shells => proc[p].argued)

\* Records about process p that its own announcements do not explain: an earlier process's,
\* which Claude's and Pi's readers believe; and one that the hook of an earlier process pinned
\* to p when that had taken over its pid.  Or its own hook failed, or is under way.
Stale(p) == p \in DOMAIN record.registry /\ record.registry[p].born # proc[p].born
Misplaced(p) == /\ p \in DOMAIN record.declared
                /\ record.declared[p].born = proc[p].born /\ record.declared[p].writer # proc[p].born
Unsettled(p) == proc[p].born \in DOMAIN hook \cup unheard

\* launch.terminal_sessions, "No title heuristic or PID alone establishes continuity"
\* (docs/architecture.md): a tab that an undisturbed capture saves with a session comes back on
\* the one a process in it is on, or on the launch the operator declared, however many processes
\* had its pid and whatever they left on disk, but for the records named above.
SavesPresentSession ==
  cap.pc = "saved" /\ cap.calm =>
    \A s \in ToSet(cap.slots) : s.kind = "session" =>
      LET p == s.by[1]
      IN  /\ InTree(p, s.tab, proc)
          /\ \/ s.session \in {proc[p].session, Fresh}
             \/ Stale(p) \/ Misplaced(p) \/ Unsettled(p)

\* docs/usage.md, "never relaunched from its command line": an agent that runs when the capture
\* begins is never saved as a command, which for a script the refusal of a restore, that sees
\* the interpreter, would let pass; whatever opens, ends or takes over a pid meanwhile.
RunningAgentsNotReplayed ==
  cap.pc = "saved" =>
    \A s \in ToSet(cap.slots) :
      s.kind = "command" /\ s.runs # None => s.by \notin cap.agents

\* launch_sessions.hook_declaration: a declaration that names this process, and that its own
\* hook wrote, names the session it is on once its last hook is through, in whatever order the
\* hooks of this and earlier processes under its pid take their steps.
DeclarationFollowsAgent ==
  \A p \in DOMAIN proc \cap DOMAIN record.declared :
    LET d == record.declared[p]
    IN  d.born = proc[p].born /\ d.writer = proc[p].born /\ d.session # Fresh =>
          d.session = proc[p].session \/ Unsettled(p)
=============================================================================
