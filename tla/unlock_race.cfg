SPECIFICATION MCSpec
CONSTANTS
  left = left
  right = right
  bottom = bottom
  tail = tail
  extra = extra
  Task = {left, right, bottom, extra}
  Deps <- DepsOf
  Stage <- StageOf
  Handler = {"h1", "h2"}
  Assignable = {left}
  Creatable = {extra}
PROPERTIES
  EventuallyUnlocked
  ImplementsGate
CHECK_DEADLOCK FALSE
