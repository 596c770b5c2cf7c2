CONSTANTS
    BufSize = 200
    Requests <- MCRequests
    Incoming <- MCIncoming
    MaxReceived = 2
SPECIFICATION Spec
INVARIANTS SentIsAsked LearntIsMeant FitsOrRefused
