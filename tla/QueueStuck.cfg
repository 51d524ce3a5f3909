\* Two requests and two tasks.
CONSTANTS
  Requests = {"r1", "r2"}
  MaxTasks = 2
SPECIFICATION QueueSpec
CHECK_DEADLOCK FALSE
PROPERTY QueuedRunCompletes
