SPECIFICATION FairSpec
CONSTANTS
  n1 = n1
  v1 = v1
  v2 = v2
  None = None
  Names = {n1}
  Values = {v1, v2}
  MaxFaults = 2
INVARIANT
  TypeOK
PROPERTIES
  OnlyListedDeleted
  NothingForgotten
  NothingInvented
  EntriesConverge
  RemovalsConverge
  ListingHeals
