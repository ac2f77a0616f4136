\* Two runs and two calls, that overlap or follow each other, of a tool that
\* reads, one that writes and one that does both; a service can get a second
\* adapter, and replies can be replied to.
CONSTANTS
    Runs = {r1, r2}
    Tools = {"reply_to_message", "send_message", "search_posts"}
    MaxCalls = 2
    MaxInstances = 2
    MaxPosts = 3
SPECIFICATION FairSpec
INVARIANTS
    DoneAtMostOnce
    ThreadsStayFlat
PROPERTIES
    ImplementsRemoteCall
    EveryCallAnswered
\* Every run may have made its calls, or ended.
CHECK_DEADLOCK FALSE
