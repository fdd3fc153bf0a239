\* The queue of each kind of handler, two calls, streams of two messages.
SPECIFICATION GrpcSpec
CONSTANTS
    Poller = {p1, p2}
    Call = {c1, c2}
    NoCall = NoCall
    Handler <- MCHandler
    MaxMessages = 2
INVARIANTS EventsMeetTheirState AlwaysListening
PROPERTIES CallAnswered FinishedIsFreed ConversationGoesOn CallsEnd
\* The clients have made their calls.
CHECK_DEADLOCK FALSE
