SPECIFICATION MCSpec
CONSTANTS
  ann = ann
  bea = bea
  cem = cem
  q1 = q1
  q2 = q2
  q3 = q3
  s1 = s1
  s2 = s2
  Users = {ann, bea, cem}
  Connected = {ann, bea}
  Streams = {s1, s2}
  UserOf <- MCUserOf
  eventHistoryLimit = 2
  MaxEvents = 5
  MaxRestarts = 1
  Members = {1, 2, 3}
  Notices = {n1}
  Messages = {m1}
  SenderOf <- MCSenderOf
  RecipientOf <- MCRecipientOf
  pushShardCount = 1
  pushShardCapacity = 2
  pushBroadcastCapacity = 1
  pushBroadcastWorkerCount = 2
  noticeBroadcastPageSize = 2
  noticePageRetryAttempts = 2
  DevicesPerMember = 2
  MaxAttempts = 2
  Requests = {q1, q2, q3}
  RequestOf <- MCRequestOf
  blockedMessageCleanupBatchSize = 1
  PageSize = 1
  ZoneShift = 1
  MonthLength = 1
  MaxTime = 1
  MaxMessages = 4
INVARIANTS
    MessagesReachAsAccepted
    ReadingIsExact
    StreamsAreFaithful
    PushesAreSound
CHECK_DEADLOCK FALSE
