\* Two runs, that meet or follow each other; batches of two rows of three, so
\* that the last one is not full.
CONSTANTS
  t1 = t1  t2 = t2  sys = sys
  a = a  b = b  c = c  x = x
  Runs = {r1, r2}
  Catalogs <- MCCatalogs
  Excluded = {sys}
  BatchSize = 2
SPECIFICATION Spec
INVARIANTS
  TypeOK DoneMeansWritten NoDuplicates
PROPERTIES
  DoneMeansCurrent
