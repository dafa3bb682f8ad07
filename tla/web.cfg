SPECIFICATION Spec
CONSTANTS
    None = None
    MaxCalls = 2
    Shown = {"customers", "shipments", "documents", "users", "vehicles", "inspections",
             "invoices", "shipment", "tracking", "papers", "messages", "vehicle", "edit",
             "invoice", "review", "inspection", "damage", "card", "photos"}
    Customers = {c1, c2}
    Shipments = {s1, s2}
    Documents = {d1, d2}
    Invoices = {i1, i2}
    Filters = {all, some}
    noFilter = all
    Preview = Preview
    Gone = Gone
    Days = {monday}
    Texts = {t1}
    ShipmentStatuses = {"RECEIVED"}
    VehicleStatuses = {"ARRIVED"}
    MaxPages = 2
    MaxNotes = 1
    MaxRows = 3
    MaxItems = 2
    MaxInvoices = 2
CHECK_DEADLOCK FALSE
INVARIANTS
    TypeOK
    BusyWhileUnderWay
    FormsKeepTheirRow
    RefusedOnlyWhenStale
    PagesTellTheTruth
