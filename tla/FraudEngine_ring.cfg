SPECIFICATION Spec
CONSTANTS
    NONE = NONE
    Country <- MCCountry
    Profiles <- MCProfiles
    InvoiceLots <- MCInvoiceLots
    TransactionLots <- MCTransactionLots
    Start <- MCStart
    Step <- MCStep
    InvoiceLimit = 1000
    TransactionLimit = 4
    MaxEvents = 3
INVARIANT RingAlerted
CHECK_DEADLOCK FALSE
