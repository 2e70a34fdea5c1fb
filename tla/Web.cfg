CONSTANTS
    Scenes <- EveryScene
    Pipelined = 2
    Kinds <- KindsSent
    Habits <- HabitsHad
    QueueSize = 2
    QueueLow = 1
    Keepalive = 2
    PartsMax <- PartsWritten
    Connections <- FourConnections
    Homes <- HomeLoops
    Limits <- HomeLimits
    BodyPieces <- Bodies
    Taken <- LibertiesTaken
    BodyMax = 1
    OutMax = 1
    DataMax = 1
    Edits = 3
    Deaths = 2
SPECIFICATION MFairSpec
INVARIANTS HttpSound WsgiSound SupervisorSound
PROPERTIES HttpAnswers WsgiReturns SupervisorFollows
CHECK_DEADLOCK FALSE
