CONSTANTS
  StreamLists <- SmallStreamLists
  TrackLists <- SmallTrackLists
  Provider = "vast"
  MaxPeriods = 3
  MaxAds = 1
  Parts <- SomeParts
  Addressings <- SomeAddressings
SPECIFICATION ManifestSpec
INVARIANT DetectionExact
INVARIANT SignalsStay
INVARIANT InterleavedAsIntended
INVARIANT CallbacksExact
INVARIANT TracksReachOrigin
CHECK_DEADLOCK FALSE
