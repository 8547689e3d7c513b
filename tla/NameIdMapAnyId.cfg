\* The file can be read; the program asks for any id.
SPECIFICATION Spec
CONSTANTS
  Entries <- MCEntries
  Guids <- MCGuids
  Text <- MCText
  Crc <- MCCrc
  BucketOf <- MCBucketOf
  Buckets <- MCBuckets
  FirstNamed <- MCFirstNamed
  Uncounted = 1000
  Faults = {FALSE}
  AskedIds <- MCAnyIds
  AskedProps <- MCAskedProps
  Garbage <- MCGarbage
  Lost = Lost
  None = None
  x = x
  y = y
  z = z
INVARIANTS
  UnmappedIdThrows
