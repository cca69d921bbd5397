\* Calls on a document and a binary, stops between calls.
SPECIFICATION OrderlySpec
CONSTANTS
  g1 = g1  g2 = g2  b1 = b1  b2 = b2  none = none  garbage = garbage  c1 = c1  c2 = c2
  RdfNames <- NotesAndRecord
  BinNames <- PhotoOnly
  Reserved <- RecordOnly
  Names <- MCNames
  Files <- MCFiles
  RdfFile <- MCRdfFile
  BinFile <- MCBinFile
  MetaFile <- MCMetaFile
  DescriptionOf <- MCDescriptionOf
  Above <- MCAbove
  Graphs = {g1, g2}
  NoTriples = none
  Bodies = {b1, b2}
  Sidecar <- MCSidecar
  Reading <- MCReading
  Garbage = garbage
  Callers = {c1}
PROPERTIES ImplementsStore ReadsOnlyWritten
