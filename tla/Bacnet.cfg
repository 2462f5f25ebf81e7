\* Subscriptions: two, with three answers.  Frames: every request and answer of MCBacnet, the
\* answers to reads cut everywhere.
SPECIFICATION MCSpec
CONSTANTS
  Configs <- MCConfigs
  Batches <- MCBatches
  GroupSize = 2
  MaxCommands = 0
  s1 = s1
  s2 = s2
  a1 = a1
  a2 = a2
  a3 = a3
  Sub = {s1, s2}
  Datagram = {a1, a2, a3}
  Span <- MCSpan
  IdOf <- MCIdOf
  Nobody = Nobody
  Requests <- MCRequests
  Answers <- MCAnswers
INVARIANTS
  MessagesAreUnderstood
  OnlyAFullChannelJams
PROPERTIES
  CollectionGoesOn
\* A connection that is closed has no step; the subscriptions jam; a message is read once.
CHECK_DEADLOCK FALSE
