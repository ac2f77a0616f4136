\* One client: does an event reach those who listen to its company?
CONSTANTS
    Companies = {"c1", "c2"}
    Org = "org"
    Clients = {p1}
    MaxEvents = 2
SPECIFICATION Spec
PROPERTIES
    EventsReachSubscribers
CHECK_DEADLOCK FALSE
