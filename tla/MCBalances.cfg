SPECIFICATION Spec
CONSTANTS
    Personal = {1, 2, 3}
    Clearing = {4, 5}
    Unit = 362880
    Purchases <- MCPurchases
    Date <- MCDate
    StartShares <- MCStartShares
    MaxTransactions = 3
    MaxChanges = 4

    
    
PROPERTIES
    SettlingReducesDebts
CHECK_DEADLOCK FALSE
