\* The body is too long and its client leaves before the router has been told.
SPECIFICATION FairUploadSpec
PROPERTY OverlongBodyIsCanceled
CHECK_DEADLOCK FALSE
