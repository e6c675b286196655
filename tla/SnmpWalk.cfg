SPECIFICATION FairSpec
CONSTANTS
  m1 = m1  m2 = m2  blank = blank  None = None
  Queries <- MCQueries
  Tables <- MCTables
  LldpDetails <- MCLldpDetails
  MaxRows <- MCMaxRows
  Unparsed <- MCUnparsed
  Blank = {blank}
INVARIANTS TypeOK EntriesWereHeld SteadyRowsReported
PROPERTY QueryEnds
