\* .json and .trx files of every head and every combination of JSON keys.
CONSTANTS
  UniverseExts = {".json", ".trx"}
  UniverseMarks <- JsonKeys
SPECIFICATION Spec
INVARIANT ClassifiedAsSpecified
