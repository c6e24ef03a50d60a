SPECIFICATION UploadSpec
CONSTANTS
    Reads = 3
    Compressed = FALSE
    DiskErrors = TRUE
    NetErrors = FALSE
    ServerErrors = FALSE
PROPERTY UploadReturns
CHECK_DEADLOCK FALSE
