SPECIFICATION Spec
CONSTANTS
    Pages <- MCPages
    MaxAttempts = 3
INVARIANT RecordsReplayed
