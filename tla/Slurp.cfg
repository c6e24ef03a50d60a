SPECIFICATION UploadSpec
CONSTANTS
    Reads = 3
    Compressed = TRUE
    DiskErrors = TRUE
    NetErrors = TRUE
    ServerErrors = TRUE
CHECK_DEADLOCK FALSE
PROPERTIES
    HealthyUploadReturns
    HealthyGoroutineExits
    UploadKeepsPromise
