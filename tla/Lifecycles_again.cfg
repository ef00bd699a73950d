\* A Delete All that finds the journal of an unfinished one.
SPECIFICATION Spec
CONSTANT MaxItems = 2
INVARIANT ClaimCoversPress
CHECK_DEADLOCK FALSE
