CONSTANTS
  Wired = {TRUE, FALSE}
  CardAnswers = FALSE
  Reads = {TRUE, FALSE}
SPECIFICATION FairControllerSpec
INVARIANT OneCommandPerStart
INVARIANT BlockIsOurs
INVARIANT QuietBetween
PROPERTY StuckForAReason
