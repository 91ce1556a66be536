SPECIFICATION Spec
CONSTANTS
  MaxBytes = 2
  Binary <- SampleNumbers
  Packed <- DecimalNumbers
  Jobs <- AllJobs
  StartFlags <- NoneOrAll
  Places <- Ends
PROPERTY
  Implements
