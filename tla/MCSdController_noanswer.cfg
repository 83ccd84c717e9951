CONSTANTS
  Wired = {TRUE}
  CardAnswers = FALSE
  Reads = {TRUE, FALSE}
SPECIFICATION FairControllerSpec
PROPERTY CommandReturns
