SPECIFICATION Spec
CONSTANTS
    Blocks <- MCBlocks
    Outpoints <- MCOutpoints
    Parent <- MCParent
    Height <- MCHeight
    Creates <- MCCreates
    Spends <- MCSpends
    Coinbases <- MCCoinbases
    Utxo <- MCUtxo
    Genesis = "g"
    NoBlock = "null"
    FailingModes = {"flush", "sync"}
    MaxCrashes = 0
INVARIANT
    MarkedConsistent
