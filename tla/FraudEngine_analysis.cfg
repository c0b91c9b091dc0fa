SPECIFICATION Spec
CONSTANTS
    NONE = NONE
    Country <- MCCountry
    Profiles <- MCProfiles
    InvoiceLots <- MCInvoiceLots
    TransactionLots <- MCTransactionLots
    Start <- MCStart
    Step <- MCStep
    InvoiceLimit = 1000
    TransactionLimit = 4
    MaxEvents = 4
INVARIANTS
    TypeOK
    RingsFound
    NoRingSeen
    CriticalIsHighRisk
    TriggersSuffice
    RowOrderIrrelevant
PROPERTY SilenceKeepsMissing
CHECK_DEADLOCK FALSE
