SPECIFICATION FairSpec
CONSTANTS
  None = None
  Relays <- BothRelays
  Faults <- AllFaults
  MaxPackets = 3
  MaxCount = 2
  MaxDgrams = 2
INVARIANTS TypeOK OrderKept ReadOnce
PROPERTIES StreamSpec PacketsArrive QueueDrains
