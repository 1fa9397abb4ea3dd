\* Two sources, a compaction, two stops of the consumer at any step.
SPECIFICATION FairSpec
CONSTANTS
  Sources = {a, b}
  None = None
  Limits = {2, 5}
  MaxChanges = 3
  MaxCompactions = 1
  MaxStops = 2
INVARIANTS ReadsJoinUp Mirrors
PROPERTIES CopyConverges
CHECK_DEADLOCK FALSE
