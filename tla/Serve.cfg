CONSTANTS
    w1 = w1  w2 = w2  g1 = g1  NoWorker = NoWorker
    Callers = {w1, w2}
    Crews <- CrewEach  Clients <- ClientEach  Starts <- StartsEach  WorkerMode = "auto"
    Frames <- FramesEach  Rooms <- RoomEach  FrameMax <- FrameEach  TextMax <- TextEach
SPECIFICATION ServeSpec
INVARIANTS
    LifespanSound ServerSound SocketSound
PROPERTIES
    ServingReturns FutureCompletes
CHECK_DEADLOCK FALSE
