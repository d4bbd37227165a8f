\* Four messages, torn anywhere by the network, read in pieces of up to seven
\* bytes (more than a frame); timeouts off, as by default.
SPECIFICATION FairSpec
CONSTANTS
  MaxMessages <- MCMessages
  MaxRead <- MCRead
  Timeouts = FALSE
INVARIANTS ChannelTypeOK Framing LinesAreMessages
PROPERTIES ImplementsLossyQueue WholeMessagesArrive
CHECK_DEADLOCK FALSE
