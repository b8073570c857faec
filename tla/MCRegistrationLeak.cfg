SPECIFICATION Spec
CONSTANTS
    r1 = r1
    r2 = r2
    r3 = r3
    anna = anna
    bob = bob
    acme = acme
    other = other
    Requests <- MCRequests
    Emails = {anna, bob}
    Slugs = {acme, other}
    Forms <- MCForms
    Home = Home
    Project = Project
    Install = Install
    NoOne = NoOne
    MaxFaults = 2
    MaxExpiries = 1
    MaxCrashes = 1
INVARIANT FailureLeavesNothing
\* Every request ends, and then nothing happens.
CHECK_DEADLOCK FALSE
