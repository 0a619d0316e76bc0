SPECIFICATION Spec
CONSTANTS
    a = a
    b = b
    w1 = w1
    w2 = w2
    None = None
    Invoice = {1, 2}
    Fee = {2}
    Total <- Owing
    Lease = {a, b}
    LeaseOf <- TwoLeases
    Carded = {a}
    Payment = {11, 12}
    Amounts = {2}
    RetryDays <- OneRetry
    Date = {0, 1}
    Worker = {w1, w2}
SYMMETRY Workers
CONSTRAINT SomethingToShow
INVARIANTS TypeOK InvoiceSettledOnce PaymentSpentOnce LedgerReconciles VoidHoldsNoMoney 
PROPERTIES ForgivenStaysForgiven PassAccounts
CHECK_DEADLOCK FALSE
