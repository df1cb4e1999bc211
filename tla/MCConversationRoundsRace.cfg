CONSTANTS
  Messages = {m1, m2}
  Workers = {w1, w2}
  Commands = {"pause", "stop", "respond", "resume", "restart"}
  MaxFailures = 2
  MaxRounds = 2
  MaxAttempts = 2
SPECIFICATION Spec
ACTION_CONSTRAINT Scenario
CHECK_DEADLOCK FALSE
SYMMETRY Symmetry
INVARIANTS TypeOK EffectNotReplayed AnsweredOnce DeliveryTruthful OneRoundPerRoom InputNotLost
PROPERTIES UnknownNotResent StaleWorkerHarmless
