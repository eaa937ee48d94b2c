SPECIFICATION Spec
CONSTANTS
    Browsers = {b1, b2}
    DbFaults = TRUE
    Restarts = TRUE
    MaxRedirects = 6
INVARIANT OpenOnlyIfStored
PROPERTY RedirectsEnd
