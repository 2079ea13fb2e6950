CONSTANTS
  None = None
  bad = bad
  Malformed = bad
  Pdus <- MCPdus
  Messages <- MCMessages
SPECIFICATION SpecMessage
INVARIANTS BmpTypeOK AcceptedIsLaid LaidIsAccepted BgpTypeOK FourOctetPathsAligned DescriptionIsRead MeaningIsLaid
PROPERTIES ImplementsParts EveryParseEnds TurnsRunOut
CHECK_DEADLOCK FALSE
