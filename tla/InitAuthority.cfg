SPECIFICATION AuthorityFairSpec
CONSTANTS
    Operator = {o1, o2}
    MaxCloses = 1
    MaxSpends = 1
PROPERTIES
    InfoMeansInitialized
    EventuallyRecorded
CHECK_DEADLOCK FALSE
