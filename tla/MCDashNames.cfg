CONSTANTS
  StreamLists <- SmallStreamLists
  TrackLists <- SmallTrackLists
  Provider = "vast"
  MaxPeriods = 1
  MaxAds = 1
  Parts <- SomeParts
  Addressings <- SomeAddressings
SPECIFICATION ManifestSpec
INVARIANT NamesResolve
CHECK_DEADLOCK FALSE
