\* The owner starts, stops and restarts the thread, posts tasks that quit
\* or nest loops, and thread creation and posts may fail.
CONSTANTS
  PostableTasks = {"quit_root", "quit_top", "nest"}
  MaxPosts = 3
  MaxLoops <- MCMaxLoops
  PostMayFail = TRUE
  MaxStarts <- MCMaxStarts
  CreateMayFail = TRUE
SPECIFICATION ThreadSpec
INVARIANTS
  AtMostOneKick
  IsRunningAccurate
  NoSpuriousReturn
  NoSleepWithWork
PROPERTIES
  OwnerCallsReturn
  QuitHonoured
  TasksEventuallyRun
\* A stopped thread that is not restarted again stays idle.
CHECK_DEADLOCK FALSE
