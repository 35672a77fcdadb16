SPECIFICATION MCSpec
CONSTANTS
  Threads = {t1, t2, t3}
  Handles = {h1, h2, h3, h4}
  Nobody = Nobody
  NoHandle = NoHandle
  outer = outer
  inner1 = inner1
  inner2 = inner2
  Workers = {w1, w2, w3}
  LoopWorkers = {w1, w2}
  Tasks = {c1, c2, c3}
  NoTask = NoTask
  Notifiers = {n1}
  Waiters = {u1, u2}
  Timed = {d1, d2}
  Pollers = {p1}
  Recorders = {r1, r2}
  Metrics = {m1}
  Labels = {"x", "y"}
  Amount = 3
  MaxEvents = 2
INVARIANTS
  WorkConserving
  WaitersDistinct
  OnlyLateIsLost
  FrameOutlivesUse
  BarrierAssertions
  EachIndexOnce
  SafeToDestroy
  SafeDeletion
  ChecksHold
  ExportIsCurrent
PROPERTIES
  ImplementsExecutor
  DtorTerminates
  StuckOnlyIfAllWait
  TruthfulAnswers
  AllReturn
  NoLeak
CHECK_DEADLOCK FALSE
