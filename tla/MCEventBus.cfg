CONSTANTS
  Capacity = 2
  NoEvent = NoEvent
  Hashes = {"a", "b"}
  Subscriptions <- MCSubscriptions
  Plugins = 2
  Budget = 3
  DrainLimit = 1
  ChannelCap = 1
  TickMs = 2
  Delays = {3}
  MaxActions = 2
  MaxEvents = 5
SPECIFICATION Spec
INVARIANTS
  TypeOK
  HandledOnceInOrder
  TimersKeepLastRequest
  RemoteSendsAreShipped
PROPERTY
  QueueIsFifo
