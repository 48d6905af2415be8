\* One handler, two closes, one waiter; three levels of which one is waited for
\* inside the container and one is left to Docker; two browsers to a server.
SPECIFICATION Spec
CONSTANTS
  Foreground = {f1}
  Background = {b1, b2}
  Probe = probe
  Recovery = recovery
  MaxQueued = 1
  NULL = NULL
  Backoffs <- ShortSchedule
  MaxInternal = 1
  Stable = 1
  Threshold = 2
  NavFailures = 2
  MaxGen = 2
INVARIANTS SupervisorInvariant HealthyIsEarned OneAttemptPerBrowser
PROPERTIES TrackedGoneFirst OperationKeepsBrowser LevelIsKept FaultIsCleared QueuedIsAnswered
