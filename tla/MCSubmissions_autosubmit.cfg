SPECIFICATION FairSubmissionSpec
CONSTANTS
  Submitters = {s1}
  SubmissionIds = {i1, i2}
  NoSubmission = none
  MaxCalls = 1
PROPERTY AutoSubmitEnds
CHECK_DEADLOCK FALSE
