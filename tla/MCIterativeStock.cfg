CONSTANTS
    Ids = {1, 2, 3}
    Amounts <- MCAmounts
    IntMax = 2
    MaxLines = 4
    MaxStarts = 2
SPECIFICATION Spec
PROPERTIES TradesAreExact RestartKeepsTree StocksLostOnlyInTwoWindows
