\* A stop in the middle of the first boot.
SPECIFICATION Spec
CONSTANTS
    Browser = {1}
    dashboard = dashboard
    elsewhere = elsewhere
    Host = {dashboard, elsewhere}
    HostOf <- MCHostOf
    Rules = 2
    LoginMax = 2
    Window = 2
    MaxKeys = 2
    MaxCrashes = 2
    MaxEnds = 1
INVARIANT
    PolicyIsServed
