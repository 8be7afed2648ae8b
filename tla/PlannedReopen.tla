---------------------------- MODULE PlannedReopen ----------------------------
(***************************************************************************)
(* Reopen with the plans that RestorePlan makes, and what holds of every   *)
(* plan: for any saved desktop, against any desktop it can meet.           *)
(***************************************************************************)
EXTENDS Reopen, RestorePlan

RT == INSTANCE Routes
EX == INSTANCE ExecLine

CONSTANTS
  SavedDesktops,   \* sets of slots, as reopen.saved_slots lists them
  Observations,    \* desktops that a plan may be made against
  EntryLists,      \* entry files in the order they are read
  UserTables,      \* what routes.json may say: from applications to routes
  Commands,        \* recorded argument lists of application windows
  Arguments        \* arguments that an Exec value is written for

\* saved_slots numbers the slots; columns and tiles count from 1, 0 stands for no column.
ASSUME SavedAssumption ==
  \A saved \in SavedDesktops :
    /\ IsFiniteSet(saved)
    /\ \A s \in saved : {s.id, s.column, s.tile} \subseteq Nat
    /\ \A s, r \in saved : s.id = r.id => s = r

\* An application and a program that are there have a name.
ASSUME RoutingAssumption ==
  /\ \A files \in EntryLists : files \in Seq({files[i] : i \in DOMAIN files})
  /\ \A argv \in Commands : argv = <<>> \/ Head(argv) # RT!None
  /\ RT!None \notin App

\* An argument is a text of any length.
ASSUME ExecAssumption == \A arg \in Arguments : arg \in Seq({arg[i] : i \in DOMAIN arg})

\* What a run takes from reopen.plan, with the app ids of the windows it was planned against.
PlanOf(saved, now, open) ==
  LET p == Plan(saved, now)
  IN  [groups |-> [i \in DOMAIN p.groups |->
                    [app |-> p.groups[i].app, skip |-> p.groups[i].skip,
                     slots |-> p.groups[i].slots]],
       preset |-> p.preset, open |-> open]

\* A plan is made before anything else, so what holds of every plan is said of one start.
Planning == pc = "start" /\ ~apply /\ plan.open = <<>>

Lists(group, s) == \E i \in DOMAIN group.slots : group.slots[i] = s.id

\* One saved instance of an app: one process, or one command line when no process is recorded.
SameInstance(s, r) ==
  /\ s.kind = "app" /\ r.kind = "app" /\ s.app = r.app /\ s.pid = r.pid
  /\ s.pid = 0 => s.argv = r.argv

OneLaunchEach(saved, now) ==
  LET groups == Groups(saved, now)
  IN  /\ \A s, r \in saved :
           s # r /\ Disposition(s, now) = "launch" /\ Disposition(r, now) = "launch" =>
             ((\E i \in DOMAIN groups : Lists(groups[i], s) /\ Lists(groups[i], r))
                <=> SameInstance(s, r))
      /\ \A i, j \in DOMAIN groups :
           groups[i].app = groups[j].app /\ groups[i].route = "desktop" /\ groups[j].route = "desktop"
             => \/ i = j
                \/ groups[i].app \in DOMAIN now.users
                \/ \A s \in saved : Lists(groups[i], s) \/ Lists(groups[j], s) => s.pid = 0

\* reopen.plan: the windows of one saved process are one launch, two processes of one app are
\* two, a terminal window is never merged with another, and windows whose process is not
\* recorded go by their command line.  routes.route: a menu entry cannot tell two instances
\* apart, so it serves two launches of an app only where the user's own route names it, or
\* where no process is recorded.
OneLaunchPerInstance ==
  Planning => \A saved \in SavedDesktops, now \in Observations :
                ~Refused(saved, now) => OneLaunchEach(saved, now)

InSavedOrder(saved, slots) ==
  \A i, j \in DOMAIN slots : i < j =>
    LET s == CHOOSE w \in saved : w.id = slots[i]
        r == CHOOSE w \in saved : w.id = slots[j]
    IN  /\ Target(saved, s) <= Target(saved, r)
        /\ s.ws = r.ws /\ s.ws \in KnownWorkspaces(saved) =>
             /\ r.column # 0 => s.column \in 1 .. r.column
             /\ r.column # 0 /\ s.column = r.column => s.tile <= r.tile

OrderedGroups(saved, now) ==
  LET groups == Groups(saved, now)
  IN  /\ \A i \in DOMAIN groups : InSavedOrder(saved, groups[i].slots)
      /\ InSavedOrder(saved, [i \in DOMAIN groups |-> groups[i].slots[1]])

\* reopen.plan and collect: new windows fill a group's slots in window-id order, so within
\* a workspace the slots of a group are listed by saved column, then tile, unplaced ones last;
\* and the groups are launched in that order of the slots they begin with.
GroupsFollowSavedPlaces ==
  Planning => \A saved \in SavedDesktops, now \in Observations :
                ~Refused(saved, now) => OrderedGroups(saved, now)

\* The slots a plan launches; one that is refused launches nothing.
Launched(saved, now) ==
  LET groups == Groups(saved, now)
  IN  {s \in saved : /\ ~Refused(saved, now)
                     /\ \E i \in DOMAIN groups : groups[i].skip = "none" /\ Lists(groups[i], s)}

\* The same routes, and nothing closed since.
Grown(now, later) ==
  /\ now.apps \subseteq later.apps /\ now.sessions \subseteq later.sessions
  /\ now.users = later.users /\ now.entries = later.entries

\* reopen.plan: a desktop that gained windows or sessions since the dry run only shrinks
\* the set of launches; nothing that was settled starts to launch.
MoreOpenNeverLaunchesMore ==
  Planning => \A saved \in SavedDesktops, now, later \in Observations :
                Grown(now, later) => Launched(saved, later) \subseteq Launched(saved, now)
-----------------------------------------------------------------------------
\* Entry files that a menu shows: launchable, and the first of their name.
Visible(files) ==
  {i \in DOMAIN files : files[i].keys = "ok" /\ \A j \in 1 .. i - 1 : files[j].id # files[i].id}

\* How well an entry fits an application: by name, by class, by program, or not at all.
Fit(f, app, argv) ==
  IF      RT!Lower(f.id) = RT!Lower(app)       THEN 1
  ELSE IF RT!Lower(f.wm) = RT!Lower(app)       THEN 2
  ELSE IF argv # <<>> /\ f.program = Head(argv) THEN 3
  ELSE 4

Fitting(files, app, argv) == {i \in Visible(files) : Fit(files[i], app, argv) < 4}

FitsBest(i, files, app, argv) ==
  /\ i \in Fitting(files, app, argv)
  /\ \A j \in Fitting(files, app, argv) :
       \/ Fit(files[i], app, argv) < Fit(files[j], app, argv)
       \/ Fit(files[i], app, argv) = Fit(files[j], app, argv) /\ i <= j

ByOwnRoute(r, app, argv, single, files) ==
  /\ r.by = "desktop" <=> single /\ Fitting(files, app, argv) # {}
  /\ r.by = "desktop" => \E i \in DOMAIN files : r.file = files[i] /\ FitsBest(i, files, app, argv)
  /\ r.by # "desktop" => r.by = (IF argv # <<>> THEN "argv" ELSE "no-route")

ByUserRoute(r, user, files) ==
  /\ r.by = "user" <=> user.argv # <<>>
  /\ r.by = "desktop" <=> user.argv = <<>> /\ \E i \in Visible(files) : files[i].id = user.desktop
  /\ r.by = "desktop" => \E i \in Visible(files) : r.file = files[i] /\ files[i].id = user.desktop
  /\ r.by \in {"user", "desktop", "refused"}

\* routes.route: an app comes back by the user's route or not at all; without one, a single
\* instance by the entry that fits it best of those that show, which no entry hidden, or
\* shadowed by the user's own file of that name, ever is.
AppsUseTheirRoute ==
  Planning => \A files \in EntryLists, argv \in Commands, single \in BOOLEAN,
                 users \in UserTables, app \in App :
                LET r == RT!RouteOf(app, argv, single, files, users)
                IN  IF ~RT!Valid(users) THEN r.by = "refused"
                    ELSE IF app \in DOMAIN users THEN ByUserRoute(r, users[app], files)
                    ELSE ByOwnRoute(r, app, argv, single, files)
-----------------------------------------------------------------------------
\* routes.exec_argv: every argument list written by the specification's rules is run as it
\* was meant, whatever it quotes, and a field code beside it adds nothing.
ExecRoundTrips ==
  Planning => \A first, second \in Arguments :
    LET value == Append(EX!Written(<<>>, first), "space")
    IN  /\ EX!ExecArgv(EX!Written(value, second)) = <<first, second>>
        /\ EX!ExecArgv(value \o <<"percent", "f">>) = <<first>>
=============================================================================
