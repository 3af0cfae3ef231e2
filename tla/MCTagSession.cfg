SPECIFICATION FairSpec
CONSTANTS
  Versions <- MCVersions
  Offers <- MCOffers
  NumChannels = 3
  ChannelCap = 2
  CountCap = 5
  None = None
INVARIANTS TypeOK ScreenTrue ShowsOwnImages NotPastDissoc
PROPERTIES BlankRedrawnUnlessCut NeverOlder ImplementsImages Shown GivesUp
