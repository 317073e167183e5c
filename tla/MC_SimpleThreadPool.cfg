\* Two workers, so one can drain delegates_ between the other's dry_.Wait()
\* and its lock_; up to three AddWork calls of one or two delegates, before
\* and after Start, so work is queued ahead of and while workers wait.
CONSTANTS
  NumThreads = 2
  RepeatCounts = {1, 2}
  MaxAddWork = 3
SPECIFICATION Spec
INVARIANTS NoEmptyPop WorkNeverStranded
PROPERTIES JoinAllCompletes
