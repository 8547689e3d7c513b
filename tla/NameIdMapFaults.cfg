\* Reading the file may fail or not; the program asks for listed ids.
SPECIFICATION Spec
CONSTANTS
  Entries <- MCEntries
  Guids <- MCGuids
  Text <- MCText
  Crc <- MCCrc
  BucketOf <- MCBucketOf
  Buckets <- MCBuckets
  FirstNamed <- MCFirstNamed
  Uncounted = 1000
  Faults = {TRUE, FALSE}
  AskedIds <- MCListedIds
  AskedProps <- MCAskedProps
  Garbage <- MCGarbage
  Lost = Lost
  None = None
  x = x
  y = y
  z = z
INVARIANTS
  TypeOK
  AnswersRight
  IdNamesNeverWrong
  NoStreamLeftFlagged
  CountIsTheCount
PROPERTIES
  Answered
