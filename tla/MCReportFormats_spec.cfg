\* .xml and .tap files of every head, with every combination of the xUnit-family
\* markers, the QtVersion element in three spellings and the AVA CLI marker.
CONSTANTS
  UniverseExts = {".xml", ".tap"}
  UniverseMarks <- SignatureMarks
SPECIFICATION Spec
INVARIANT ClassifiedAsSpecified
