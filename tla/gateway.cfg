SPECIFICATION FairSpec
CONSTANTS
  MaxFrames = 3
  MaxPackets = 3
  KeepAlives <- AllButFirst
  MaxQueue = 2
  MaxBuffered = 2
  SlowBrowser = FALSE
INVARIANTS NoStall SeenIsAnswered AnsweredOnce
PROPERTIES UplinkIsAPipe DownlinkIsAPipe AnswersReachPaper EndsTogether
CHECK_DEADLOCK FALSE
