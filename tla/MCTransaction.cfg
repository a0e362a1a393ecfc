SPECIFICATION FairSpec
CONSTANTS
  Transactions = {t1, t2}
  Sessions = {s1, s2}
  HasClassifier = TRUE
INVARIANTS
  Isolation
  OutcomeHonest
PROPERTIES
  CallsAnswered
\* A closed runtime takes no further call, so the system may stop.
CHECK_DEADLOCK FALSE
