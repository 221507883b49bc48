SPECIFICATION FairSpec
CONSTANTS
    Clients = {c1, c2}
    Databases = {d1}
    NoClient = NoClient
    NumEvents = 2
    Workers = 1
    MaxBoots = 2
PROPERTIES
    RequestsEnd
    ClientsEnd
CHECK_DEADLOCK FALSE
