SPECIFICATION Spec
CONSTANTS
  Half = 128
  MaxBytes = 2
  Binary <- SampleNumbers
  Packed <- DecimalNumbers
  Jobs <- AllJobs
  StartFlags <- NoneOrAll
INVARIANTS
  TypeOK
  ChainsRight
  DecimalRight
  BranchesRight
CHECK_DEADLOCK FALSE
