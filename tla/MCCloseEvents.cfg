CONSTANTS
  Resource <- MCResource
  Callback <- MCCallback
  CallbacksOf <- MCCallbacksOf
SPECIFICATION FairSpec
INVARIANT
  AnnouncedOnce
PROPERTY
  CloseIsAnnounced
