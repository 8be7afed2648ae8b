CONSTANTS
  MaxInstance = 2
  MaxSaved = 3
  MaxTyped = 1
SPECIFICATION FairSpec
CHECK_DEADLOCK FALSE
PROPERTIES
  LoginNotPreempted
  NeverResurrects
  LoginReopensNewest
  SavingResumes
