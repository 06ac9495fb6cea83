SPECIFICATION Spec
CONSTANTS
    h1 = h1
    h2 = h2
    Host = {h1, h2}
    Legacy = {h1}
    Budget = 1
    MaxEvents = 0
PROPERTIES
    NeverOvercommits
