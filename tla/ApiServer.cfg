SPECIFICATION Spec
CONSTANTS
    Browser = {1, 2, 3}
    dashboard = dashboard
    elsewhere = elsewhere
    Host = {dashboard, elsewhere}
    HostOf <- MCHostOf
    Rules = 2
    LoginMax = 2
    Window = 2
    MaxKeys = 2
    MaxCrashes = 2
    MaxEnds = 1
INVARIANTS
    ServerTypeOK
    LoginsPerWindow
    PolicyIsWhole
PROPERTIES
    ErrorsHaveAReason
    ApiComesBack
