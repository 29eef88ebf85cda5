CONSTANTS
  Requests = {r1}
  Chunks = 2
  MaxStreams = 2
  Fallback = TRUE
SPECIFICATION FairSpec
CHECK_DEADLOCK FALSE
INVARIANT OneEgress
PROPERTY ServiceKept
PROPERTY OldStreamHarmless
PROPERTY OpenIsAnswered
PROPERTY CloseReachesBrowser
\* False of the code: each in place of those above gives its trace.
\*   PROPERTY DeadTunnelFails
\*   PROPERTY DeviceUsedWhileConnected
\*   PROPERTY FallbackOutlivesDevice
\*   PROPERTY OfflineFallsBack
\*   INVARIANT StreamIsWhole
