SPECIFICATION SceneSpec
CONSTANTS
  r1 = r1 r2 = r2 ch = ch ann = ann ben = ben k1 = k1
  None = None
  Request = {r1, r2}
  Platform = {"slack", "teams", "gchat"}
  Person = {ann, ben}
  Channel = {ch}
  ChannelOf <- ChannelPlatform
  Adapters <- TheAdapters
  Channels <- TheChannels
  Mentioned <- Approvers
  Allowed <- MayRule
  Requester <- Asks
  Origin <- From
  Click = {k1}
  MaxTries = 2
  MaxTold = 1
  MaxLife = 2
  MaxMishaps = 1
INVARIANTS
  CardsTell
  OneCardPerPlace
  ClicksAreChecked
PROPERTIES
  CardsFollow
CHECK_DEADLOCK FALSE
