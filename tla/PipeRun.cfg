CONSTANTS
  Cap = 2
  Jobs <- MCJobs
SPECIFICATION Spec
INVARIANTS TypeOK Complete InputDelivered KilledByQuitter
PROPERTIES Returns
CHECK_DEADLOCK FALSE
