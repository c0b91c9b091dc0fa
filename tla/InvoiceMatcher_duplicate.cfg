CONSTANTS
    Invoices = {i1, i2, i3}
    Keys = {k1}
    Amounts = {1000}
SPECIFICATION Spec
CHECK_DEADLOCK FALSE
INVARIANT DuplicatesReported
