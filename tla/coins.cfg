SPECIFICATION FairSpec
CONSTANTS
    Blocks <- MCBlocks
    Outpoints <- MCOutpoints
    Parent <- MCParent
    Height <- MCHeight
    Creates <- MCCreates
    Spends <- MCSpends
    Coinbases <- MCCoinbases
    Utxo <- MCUtxo
    Genesis = "g"
    NoBlock = "null"
    FailingModes = {"flush"}
    MaxCrashes = 2
INVARIANTS
    
    MarkedConsistent
    
PROPERTIES
    ComesBack
