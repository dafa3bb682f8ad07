SPECIFICATION ServicesSpec
CONSTANTS
    Served = {"numbers", "messages", "records", "amounts", "accounts", "releases"}
    Workers = {w1, w2, w3}
    LastYear = 2
    Limit = 2
    MaxRequests = 4
    Requests = {r1, r2}
    None = None
    FirstStatuses = {"QUOTED", "READY_FOR_DELIVERY"}
    Lives = {1, 3}
    MaxTime = 3
    Customers = {c1, c2}
    Shipments = {s1}
    Invoices = {i1}
    Numbers = {n1, n2}
    Quantities = {1, 3}
    Prices = {0, 2, 399}
    Rates = {0, 7125, 19000}
    MaxItems = 3
    Emails = {a1}
    Passwords = {p1, p2}
    Tags = {1, 2, 3}
SYMMETRY Symmetry
CHECK_DEADLOCK FALSE
INVARIANTS
    ServicesTypeOK NextInvoiceNumberIsFree MessagesAreTrue
    NothingDangles InvoiceNamesOwner AmountsAgree AccountsHold
    SchemaCarriesRelease WayBackExists
PROPERTIES ImplementsNumberSeries TokenStillGood
