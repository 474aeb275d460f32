SPECIFICATION Spec
CONSTANTS
  MaxProcesses = 1
PROPERTY StopsOnExit
\* The system may stop: when the process has ended and the container is settled.
CHECK_DEADLOCK FALSE
