------------------------------ MODULE MCReopen ------------------------------
(***************************************************************************)
(* Reopen over the plans RestorePlan makes for small saved desktops: two   *)
(* windows of one browser process, two terminal windows (each a launch of  *)
(* its own, with one app id), and a window that is refused, against a      *)
(* desktop that is empty or already shows the browser or a terminal.       *)
(* The planning itself is checked, at the start of a run, over every small *)
(* saved desktop and every desktop it can meet.                            *)
(***************************************************************************)
EXTENDS PlannedReopen, SequencesExt

\* What reopen.saved_slots reads of one window: id, app, pid, kind, program, place.
Saved(i, app, pid, kind, program, ws, column) ==
  [id |-> i, app |-> app, pid |-> pid, kind |-> kind, program |-> program, embeds |-> FALSE,
   argv |-> i, ws |-> ws, column |-> column, tile |-> 1, extra |-> FALSE]

Browser(i) == Saved(i, "brave", 50, "app", "plain", 1, i)
Terminal(i) == Saved(i, "ghostty", 60 + i, "session", "plain", 2, i)
Agent(i) == Saved(i, "ghostty", 60 + i, "command", "agent", 2, i)

CONSTANT Desktops     \* which saved desktops this run covers

SavedDesktop(d) ==
  CASE d = "mixed"     -> {Browser(1), Terminal(2), Agent(3)}
    [] d = "terminals" -> {Terminal(1), Terminal(2), Terminal(3)}
    [] d = "browser"   -> {Browser(1), Browser(2), Terminal(3)}

Observed == {<<>>, <<"brave">>, <<"ghostty">>}

MCPlans ==
  {PlanOf(SavedDesktop(d),
          [apps |-> ToSet(o), sessions |-> {}, users |-> <<>>, entries |-> {"brave"}], o) :
     d \in Desktops, o \in Observed}
-----------------------------------------------------------------------------
(* Planning, for every saved desktop of three windows.                     *)

CONSTANTS Apps, Term   \* ordinary application ids and the terminal's

\* What one captured window can be: (app, pid, kind, program, embeds, argv).
Recipes ==
  {<<"brave", p[1], "app", "plain", FALSE, p[2]>> : p \in {<<1, 0>>, <<2, 0>>, <<0, 1>>, <<0, 2>>}} \cup
  {<<"mail", 1, "app", "plain", FALSE, 0>>} \cup
  {<<Term, 3, "session", "plain", FALSE, v>> : v \in {1, 2}} \cup
  {<<Term, 3, "shell", "plain", FALSE, 0>>,
   <<Term, 3, "command", "agent", FALSE, 0>>,
   <<Term, 3, "other", "plain", FALSE, 0>>,
   <<Term, 3, "unknown", "none", FALSE, 0>>} \cup
  {<<"mail", 4, "app", "terminal", e, 0>> : e \in BOOLEAN}

\* Saved places <<workspace, column, tile>>: none, tiled, floating on the same or on another workspace.
Places == {<<0, 0, 1>>, <<1, 1, 2>>, <<1, 0, 1>>, <<2, 0, 1>>}

At(i, r, p, extra) ==
  [id |-> i, app |-> r[1], pid |-> r[2], kind |-> r[3], program |-> r[4], embeds |-> r[5],
   argv |-> r[6], ws |-> p[1], column |-> p[2], tile |-> p[3], extra |-> extra]

\* The second slot is a window or, of a terminal, an extra tab, which has no column.
SecondSlots ==
  {At(2, r, p, FALSE) : r \in Recipes, p \in Places} \cup
  {At(2, r, p, TRUE) : r \in {x \in Recipes : x[3] \in {"session", "shell", "unknown"}},
                       p \in {<<1, 0, 1>>, <<2, 0, 1>>}}

MCSavedDesktops ==
  {{At(1, r1, <<3, 2, 1>>, FALSE), s2, At(3, r3, <<1, 1, 1>>, FALSE)} :
     r1 \in Recipes, s2 \in SecondSlots,
     r3 \in {<<"brave", 1, "app", "plain", FALSE, 0>>, <<"brave", 0, "app", "plain", FALSE, 1>>,
             <<Term, 3, "session", "plain", FALSE, 1>>}}

\* The desktop is empty, shows one application, or everything and a saved session.
MCObservations ==
  {[apps |-> seen[1], sessions |-> seen[2], users |-> users, entries |-> Apps] :
     seen \in {<<{}, {}>>, <<{"brave"}, {}>>, <<Apps \cup {Term}, {1}>>},
     users \in {<<>>} \cup {"brave" :> by : by \in {"user", "desktop", "refused"}}}
-----------------------------------------------------------------------------
(* The routes a plan uses, for every three entry files and small argument  *)
(* lists.                                                                  *)

MCEntryLists ==
  [1 .. 3 -> [id : {"brave", "Brave", "mail"}, keys : {"ok", "hidden"}, wm : {"none", "brave"},
              program : {"p1", "p2"}]]

\* No route of the user's, one to an entry, one to a command, and one that names both.
MCUserTables ==
  {<<>>} \cup {"brave" :> [desktop |-> d, argv |-> v] : d \in {"none", "mail"}, v \in {<<>>, <<"p1">>}}

MCCommands == {<<>>, <<"p1", "link">>}
-----------------------------------------------------------------------------
(* Arguments that an Exec value is written for.                            *)

Characters == {"f", "s", "space", "quote", "dollar", "percent", "backslash"}

MCArguments == SeqOf(Characters, 2)
=============================================================================
