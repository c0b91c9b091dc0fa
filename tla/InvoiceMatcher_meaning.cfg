CONSTANTS
    Invoices = {i1, i2, i3}
    Keys = {k1, k2}
    Amounts <- MCAmounts
SPECIFICATION Spec
CHECK_DEADLOCK FALSE
SYMMETRY InvoiceSymmetry
INVARIANT ResultsMean
INVARIANT OneResultPerKey
INVARIANT PhantomMostSuspicious
