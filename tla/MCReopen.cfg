CONSTANTS
  Slot = {1, 2, 3}
  App = {"brave", "ghostty"}
  NoApp = "no-app"
  Plans <- MCPlans
  Desktops = {"mixed", "terminals", "browser"}
  Apps = {"brave", "mail"}
  Term = "ghostty"
  SavedDesktops <- MCSavedDesktops
  Observations <- MCObservations
  EntryLists <- MCEntryLists
  UserTables <- MCUserTables
  Commands <- MCCommands
  Arguments <- MCArguments
  MaxWindow = 3
  SpawnTimeout = 2
  Quiet = 1
SPECIFICATION FairSpec
INVARIANTS
  LaunchedAtMostOnce
  AdoptsOnlyNewWindowsOfTheApp
  MisadoptsOnlyStrays
  ReceiptMatchesWindows
  OneLaunchPerInstance
  GroupsFollowSavedPlaces
  MoreOpenNeverLaunchesMore
  AppsUseTheirRoute
  ExecRoundTrips
PROPERTY RunEnds
