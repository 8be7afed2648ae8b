------------------------------- MODULE Routes -------------------------------
(***************************************************************************)
(* routes.py: which desktop entries can launch, which of them is an app's, *)
(* and whether an app comes back by the user's route, by its entry or by   *)
(* its own command line.                                                   *)
(*                                                                         *)
(* Entry files are listed as they are read: the user's directory first,    *)
(* within a directory by path.  A file keeps                               *)
(*   id        its name below the directory, as written                    *)
(*   keys      "ok", or why it cannot launch (no Application, Hidden,      *)
(*             Terminal, TryExec not found, Exec malformed)                *)
(*   wm        its StartupWMClass                                          *)
(*   program   the file its Exec line's program resolves to                *)
(***************************************************************************)
EXTENDS Integers, Sequences

None == "none"

Lower(id) == IF id = "Brave" THEN "brave" ELSE id

ListsLaunchable(acc, f) ==                                                 \* mutant
  IF f.id \in acc.seen \/ f.keys # "ok" THEN acc
  ELSE [seen |-> acc.seen \cup {f.id}, entries |-> Append(acc.entries, f)]

\* The first file of an id counts, also when it cannot launch.
Lists(acc, f) ==
  IF f.id \in acc.seen THEN acc
  ELSE [seen    |-> acc.seen \cup {f.id},
        entries |-> IF f.keys = "ok" THEN Append(acc.entries, f) ELSE acc.entries]

DesktopEntries(files) ==
  LET read[n \in 0 .. Len(files)] ==
        IF n = 0 THEN [seen |-> {}, entries |-> <<>>] ELSE Lists(read[n - 1], files[n])
  IN  read[Len(files)].entries

FirstOf(places) ==
  IF places = {} THEN 0 ELSE CHOOSE i \in places : \A j \in places : i <= j

\* By id, then by window class, then by program; 0 when no entry is the app's.
EntryFor(app, program, entries) ==
  LET key == Lower(app)
      byId == FirstOf({i \in DOMAIN entries : app # None /\ Lower(entries[i].id) = key})
      byClass == FirstOf({i \in DOMAIN entries : app # None /\ Lower(entries[i].wm) = key})
      byProgram == FirstOf({i \in DOMAIN entries : program # None /\ entries[i].program = program})
  IN  IF byId # 0 THEN byId ELSE IF byClass # 0 THEN byClass ELSE byProgram

\* routes.json: a route names an entry or a command, never both; one bad route refuses all.
Valid(users) == \A app \in DOMAIN users : (users[app].desktop # None) # (users[app].argv # <<>>)

IsLink(word) == word = "link"

WithoutUrls(argv) ==
  IF argv = <<>> THEN <<>>
  ELSE <<Head(argv)>> \o SelectSeq(Tail(argv), LAMBDA word : ~IsLink(word))

By(way, words) == [by |-> way, file |-> None, argv |-> words]
ByEntry(e) == [by |-> "desktop", file |-> e, argv |-> <<e.program>>]

\* The user's command or entry for an app that routes.json has a line for.
UserRoute(route, entries) ==
  LET named == FirstOf({i \in DOMAIN entries : entries[i].id = route.desktop})
  IN  IF route.argv # <<>> THEN By("user", route.argv)
      ELSE IF named # 0 THEN ByEntry(entries[named]) ELSE By("refused", <<>>)

\* The app's own entry when one instance was saved, else what it ran.
OwnRoute(app, argv, single, entries) ==
  LET found == EntryFor(app, IF argv = <<>> THEN None ELSE Head(argv), entries)
  IN  IF single /\ found # 0 THEN ByEntry(entries[found])
      ELSE IF argv # <<>> THEN By("argv", WithoutUrls(argv)) ELSE By("no-route", <<>>)

\* How one saved instance is launched.
RouteOf(app, argv, single, files, users) ==
  IF ~Valid(users) THEN By("refused", <<>>)
  ELSE IF app \in DOMAIN users THEN UserRoute(users[app], DesktopEntries(files))
  ELSE OwnRoute(app, argv, single, DesktopEntries(files))
=============================================================================
