\* A client that subscribes to one kind, for a project or for all, unsubscribes
\* and subscribes again, and leaves or stops reading.
CONSTANTS
    Kinds = {"Registry"}
    Watched = {"Registry"}
    Projects = {"p1", "any"}
    AnyProject = "any"
    MaxMessages = 3
    MaxEvents = 1

SPECIFICATION Spec

INVARIANTS
    TypeOK
    OneWriter
    SubscribedIsWatched

PROPERTIES
    MessagesAnswered
    UnwantedWatchesEnd
    EventsRelayed
