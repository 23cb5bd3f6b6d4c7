SPECIFICATION LiveSpec
CONSTANTS
  MAX_ERRORS_BEFORE_RESTART = 10
  EXAMPLE_ESP_MAXIMUM_RETRY = 10
INVARIANTS TypeOK GivenUpAfterRetries
PROPERTIES RestartsForOneCall CallsSucceed WaitEnds ServerSettles
CHECK_DEADLOCK FALSE
