SPECIFICATION BusFairSpec
CONSTANTS
  Publishers = {p1, p2}
  Subscribers = {h1, h2}
  Cap = 2
  MaxEvents = 4
  Free = Free
  Off = Off
INVARIANTS BusTypeOK NoSendOnClosed NoGaps
PROPERTIES PublishEnds FeedImplemented
