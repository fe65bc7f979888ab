CONSTANTS
  Browsers = {b1, b2}
  None = None
  subscriberChannelSize = 1
  MaxResponses = 2
SPECIFICATION Spec
INVARIANTS TypeOK EntryMatchesBrowsers NoSilentGap
PROPERTIES LeftWatcherEnds GoneBrowserIsReleased
CHECK_DEADLOCK FALSE
