SPECIFICATION Spec
CONSTANTS
    MaxJobs = 2
    MaxThreads = 2
INVARIANTS
    OneExecution
