SPECIFICATION PushFairSpec
CONSTANTS
    Uploads = {f1, f2}
    None = None
    Sizes = {0, 2}
    MaxId = 3
INVARIANTS SuccessIsWhole
PROPERTIES TempFilesGo UploadIsTold
CHECK_DEADLOCK FALSE
