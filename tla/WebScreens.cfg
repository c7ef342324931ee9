SPECIFICATION WebSpec
CONSTANTS
  Worlds = {"screens", "assistant", "board", "session", "client", "look"}
  ScreenTable <- AllScreens
  CallTable <- AllCalls
  MaxTasks = 2
  Patience = {TRUE, FALSE}
  None = None
  Arg = Arg
  Answer = Answer
  Patched = Patched
  Call = {c1, c2, c3}
  MAX_TOOL_ROUNDS = 2
  MaxTries = 2
  NoCall = NoCall
  Reservation = {a, b}
  Room = {"x", "y"}
  MonthDays = 2
  StayDates <- MCStayDates
  Zone <- West
  MaxMoves = 2
  NoDrag = NoDrag
  Pending = {q1, q2}
  Account = {u1, u2}
  MaxSessions = 3
  Nobody = Nobody
  Fetch = {f1, f2, f3}
  Variable <- MCVariable
  Brand <- MCBrand
  ColorThemes = {"classic"}
  TweakcnThemes = {"claude"}
  DefaultTheme = "classic"
  Styles <- MCStyles
  Sheets <- MCSheets
  Unset = Unset
INVARIANTS
  BusyReleased
  ShowsCurrent
  ShowsOwnChanges
  OneSubmission
  NoChangeUnconfirmed
  RunsOnce
  BoardTrue
  OverlapOnlyRestored
  BarsDisjoint
  OneRefresh
  NothingLeftQueued
  SettingsOfThisSession
  RefreshShared
  NoColorLeftOver
CHECK_DEADLOCK FALSE
