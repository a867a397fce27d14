\* Every sequence of charges, loans, repayments and mints of small amounts.
CONSTANTS
  Amounts = {0, 1, 2, 5}
  InitialSupply = 1
  MaxLedger = 12
SPECIFICATION BoundedSpec
INVARIANTS Backed
PROPERTIES GapNeverCloses
