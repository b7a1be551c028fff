CONSTANTS
  MS_Stream = {1, 2}
  MS_Auto = "auto"
  MS_MaxEvents = 2
  PS_MaxJoins = 1
  PS_MaxSubs = 2
  PS_MaxMessages = 2
  PS_Room = 2
  LE_Lookup = {1, 2}
  LE_BufferSize = 2
  LE_None = 0
  NT_Peer = {"p", "q"}
  NT_Mode = {1}
  NT_Handler = {"h"}
  NT_Caller = {"c"}
  NT_Disc = "disc"
  NT_NoPeer = ""
  NT_NoMode = 0
  NT_BucketSize = 1
  NT_MaxTables = 2
  ST_Stream = {1, 2}
  ST_Peer = {"p"}
  ST_Buffer = {"b"}
  ST_NoStream = 0
  ST_NoBuffer = ""
  ST_MaxRetries = 3
  PI_Rounds = 2
  PR_Peer = {"p", "q"}
  NS_Caller = {1, 2}
  NS_MaxAge = 2
  NS_Min = 2
  NS_Most = 2
  NS_MaxTime = 3
  NS_MaxLookups = 3
SPECIFICATION FairSpec
CHECK_DEADLOCK FALSE
INVARIANTS
  ClientServesNone
  InTableUnlessReplaced
  NoProtectionLeft
  OutcomeIsTrue
  AnswerIsCurrent
PROPERTIES
  ModeFollows
  ReceivedIsHandled
  ClosedAtTheEnd
  StreamEnds
  PingEnds
