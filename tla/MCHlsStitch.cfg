CONSTANTS
  TagLists <- SmallTagLists
  Ranges <- EveryOther
  MaxSegments = 4
  MaxAds = 2
  Deliveries <- SomeDeliveries
  Streams <- AllStreams
  Window = 3
SPECIFICATION LiveSpec
INVARIANT TypeOK
INVARIANT BreaksInOrder
INVARIANT DetectionExact
INVARIANT StitchedAsIntended
INVARIANT AdsInOrder
INVARIANT MarkersExact
INVARIANT UrisLead
INVARIANT LlTagsInPlace
INVARIANT PlaysThrough
INVARIANT MarkersStay
CHECK_DEADLOCK FALSE
