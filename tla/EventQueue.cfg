SPECIFICATION FairSpec
CONSTANTS
  p1 = p1
  p2 = p2
  p3 = p3
  p4 = p4
  p5 = p5
  Posting <- MCPosting
  WithCallback <- MCWithCallback
  QueueEvents <- MCQueueEvents
INVARIANTS TypeOK ExactlyOnce NoLostWakeup
PROPERTIES ImplementsAgenda EventuallyHandled
