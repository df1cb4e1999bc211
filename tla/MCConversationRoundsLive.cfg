CONSTANTS
  Messages = {m1}
  Workers = {w1, w2}
  Commands = {"restart", "stop", "delete"}
  MaxFailures = 2
  MaxRounds = 2
  MaxAttempts = 2
SPECIFICATION FairSpec
CHECK_DEADLOCK FALSE
PROPERTIES MessageSettles DeliverySettles
