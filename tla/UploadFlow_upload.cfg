\* One upload or edit, and everything that may race its publication.
SPECIFICATION FairUploadSpec
INVARIANTS UploadTypeOK ToldTheTruth NoOrphanedWorker
PROPERTIES KeepsPromise UploadSettles
CHECK_DEADLOCK FALSE
