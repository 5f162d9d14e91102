SPECIFICATION FairSpec
CONSTANTS
  Prefix <- HomePrefix
  Requests <- HomeRequests
  Keys <- HomeKeys
  InitialKeys <- SomeOfThem
  MaxSize = 2
  MaxReadSizes = {0, 1}
  PageSize = 1
  MaxChanges = 2
INVARIANTS TypeOK ListingIsFaithful StatIsFaithful DownloadIsFaithful
PROPERTIES Answered
