SPECIFICATION SceneSpec
CONSTANTS
  ann = ann ben = ben u1 = u1 u2 = u2 t1 = t1 t2 = t2 t3 = t3 ch = ch tty = tty
  None = None
  Person = {ann, ben}
  User = {u1, u2}
  Thread = {ch, tty}
  Terminal = {tty}
  Turn = {t1, t2, t3}
  Backend = {"api-key", "subscription"}
  MaxTurns = 3
  MaxRounds = 1
  OnFile = TRUE
  MaxMishaps = 2
INVARIANTS
  CallsActForAsker
  Replayable
  ProxyPerTurn
PROPERTIES
  NoExchangeLost
  TurnsEnd
CHECK_DEADLOCK FALSE
