SPECIFICATION Spec
CONSTANTS
  MaxProcesses = 3
INVARIANT ReceiptNamesContainer
PROPERTIES PromisesHold StartSettles ReadyStopsOnExit
\* The system may stop: when the last process has ended and what runs is done.
CHECK_DEADLOCK FALSE
