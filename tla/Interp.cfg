SPECIFICATION Spec
CONSTANTS
    Numerals <- MCNumerals
    Decimal <- MCDecimal
    Quotient <- MCQuotient
    Precedes <- MCPrecedes
    Opening <- MCOpening
    Closing <- MCClosing
    Bare <- MCBare
    Scripts <- MCScripts
    Messages <- MCMessages
    MaxAsks = 4
INVARIANTS
    TypeOK
    OperandsFresh
PROPERTIES
    Documented
    AskAnswered
