SPECIFICATION Spec
CHECK_DEADLOCK FALSE
CONSTANTS
    None = None
    Payer <- MCPayer
    Payee <- MCPayee
    Length <- MCLength
    Ibans = {"payer iban", "payee iban"}
    Companies = {"payer nit", "payee nit"}
    Rate <- MCRate
    Amounts = {4, 16, 1000}
    MaxLegs = 2
INVARIANTS PartiesStayApart PayeeIsNamed AmountIsKept OwnMessagesAreRead BankIsKept
