CONSTANTS
    A = A
    B = B
    C = C
    x = x
    y = y
    a1 = a1
    a2 = a2
    a3 = a3
    b1 = b1
    c1 = c1
    Operations = {A, B, C}
    Payloads = {x, y}
    Requests = {a1, a2, a3, b1, c1}
    Operation <- MCOperation
    Payload <- MCPayload
    TtlMs = 1
    MaxEntries = 1
    MaxPending = 2
    MaxTime = 1
    MaxEpoch = 0
SPECIFICATION Spec
PROPERTY
    NewestReceiptKept
CHECK_DEADLOCK FALSE
