------------------------------- MODULE MCWeb -------------------------------
(***************************************************************************)
(* The pages and panels of the web front end, each on its own: Shown says  *)
(* which of them a run puts on the variables of WebCalls.  They do not     *)
(* share anything but the API, and what another page does there is a step  *)
(* of somebody else.                                                       *)
(***************************************************************************)
EXTENDS WebCalls

CONSTANTS
    Shown,             \* the pages of this run
    Customers, Shipments, Documents, Invoices,  \* ids
    Filters, noFilter, \* what a list can be filtered by
    Preview, Gone, Days, Texts,
    ShipmentStatuses, VehicleStatuses,          \* at the start
    MaxPages, MaxNotes, MaxRows, MaxItems, MaxInvoices  \* bounds of the pages

VARIABLE mounted  \* the page

customersPage   == INSTANCE CustomersPage
shipmentsPage   == INSTANCE ShipmentsPage
documentsPage   == INSTANCE DocumentsPage
usersPage       == INSTANCE UsersPage
vehiclesPage    == INSTANCE VehiclesPage
inspectionsPage == INSTANCE InspectionsPage WITH Rows <- Documents
invoicesPage    == INSTANCE InvoicesPage
shipmentScreen  == INSTANCE ShipmentScreen WITH StartStatuses <- ShipmentStatuses
trackingPanel   == INSTANCE TrackingPanel WITH StartStatuses <- ShipmentStatuses
documentsPanel  == INSTANCE DocumentsPanel WITH Docs <- Documents
messagesPanel   == INSTANCE NotificationPanel
vehicleScreen   == INSTANCE VehicleScreen WITH StartStatuses <- VehicleStatuses
shipmentEdit    == INSTANCE ShipmentEdit
invoiceScreen   == INSTANCE InvoiceScreen
photosPanel     == INSTANCE VehiclePhotosPanel WITH Photos <- Documents

\* The page of one inspection, with some of its parts in use each time.
inspectionReview == INSTANCE InspectionScreen
                    WITH StartStatuses <- {"IN_PROGRESS"}, Reports <- {},
                         Parts <- {"status", "approval"}, Others <- {"status", "approval"}
inspectionForm == INSTANCE InspectionScreen
                  WITH StartStatuses <- {"IN_PROGRESS"}, Reports <- {},
                       Parts <- {"status", "form"}, Others <- {"status"}
damageReports == INSTANCE InspectionScreen
                 WITH StartStatuses <- {"IN_PROGRESS"}, Reports <- Documents,
                      Parts <- {"reports"}, Others <- {"reports"}
damageCard == INSTANCE InspectionScreen
              WITH StartStatuses <- {"IN_PROGRESS"}, Reports <- {CHOOSE d \in Documents : TRUE},
                   Parts <- {"header", "reports"}, Others <- {"header", "reports"}

Pages == {"customers", "shipments", "documents", "users", "vehicles", "inspections", "invoices",
          "shipment", "tracking", "papers", "messages", "vehicle", "edit", "invoice",
          "review", "inspection", "damage", "card", "photos"}

\* A shipment and a vehicle start in a state they can have, a list has a first page
\* and is not filtered at first, the form of an invoice has a line.
ASSUME PagesConstants ==
    /\ Shown \subseteq Pages
    /\ {MaxPages, MaxRows, MaxItems} \subseteq Nat \ {0} /\ MaxInvoices \in Nat
    /\ noFilter \in Filters
    /\ ShipmentStatuses \subseteq shipmentScreen!ShipmentStatus
    /\ None \notin shipmentScreen!ShipmentStatus
    /\ VehicleStatuses \subseteq vehicleScreen!VehicleStatus

Init ==
    /\ mounted \in Shown
    /\ CASE mounted = "customers"   -> customersPage!Init
         [] mounted = "shipments"   -> shipmentsPage!Init
         [] mounted = "documents"   -> documentsPage!Init
         [] mounted = "users"       -> usersPage!Init
         [] mounted = "vehicles"    -> vehiclesPage!Init
         [] mounted = "inspections" -> inspectionsPage!Init
         [] mounted = "invoices"    -> invoicesPage!Init
         [] mounted = "shipment"    -> shipmentScreen!Init
         [] mounted = "tracking"    -> trackingPanel!Init
         [] mounted = "papers"      -> documentsPanel!Init
         [] mounted = "messages"    -> messagesPanel!Init
         [] mounted = "vehicle"     -> vehicleScreen!Init
         [] mounted = "edit"        -> shipmentEdit!Init
         [] mounted = "invoice"     -> invoiceScreen!Init
         [] mounted = "review"      -> inspectionReview!Init
         [] mounted = "inspection"  -> inspectionForm!Init
         [] mounted = "damage"      -> damageReports!Init
         [] mounted = "card"        -> damageCard!Init
         [] mounted = "photos"      -> photosPanel!Init

Next ==
    /\ \/ mounted = "customers"   /\ customersPage!Next
       \/ mounted = "shipments"   /\ shipmentsPage!Next
       \/ mounted = "documents"   /\ documentsPage!Next
       \/ mounted = "users"       /\ usersPage!Next
       \/ mounted = "vehicles"    /\ vehiclesPage!Next
       \/ mounted = "inspections" /\ inspectionsPage!Next
       \/ mounted = "invoices"    /\ invoicesPage!Next
       \/ mounted = "shipment"    /\ shipmentScreen!Next
       \/ mounted = "tracking"    /\ trackingPanel!Next
       \/ mounted = "papers"      /\ documentsPanel!Next
       \/ mounted = "messages"    /\ messagesPanel!Next
       \/ mounted = "vehicle"     /\ vehicleScreen!Next
       \/ mounted = "edit"        /\ shipmentEdit!Next
       \/ mounted = "invoice"     /\ invoiceScreen!Next
       \/ mounted = "review"      /\ inspectionReview!Next
       \/ mounted = "inspection"  /\ inspectionForm!Next
       \/ mounted = "damage"      /\ damageReports!Next
       \/ mounted = "card"        /\ damageCard!Next
       \/ mounted = "photos"      /\ photosPanel!Next
    /\ UNCHANGED mounted

Spec == Init /\ [][Next]_<<web, mounted>>

-----------------------------------------------------------------------------
(* The properties of the pages, under one name each *)

\* Every page keeps values of the types its components declare.
TypeOK ==
    CASE mounted = "customers"   -> customersPage!TypeOK
      [] mounted = "shipments"   -> shipmentsPage!TypeOK
      [] mounted = "documents"   -> documentsPage!TypeOK
      [] mounted = "users"       -> usersPage!TypeOK
      [] mounted = "vehicles"    -> vehiclesPage!TypeOK
      [] mounted = "inspections" -> inspectionsPage!TypeOK
      [] mounted = "invoices"    -> invoicesPage!TypeOK
      [] mounted = "shipment"    -> shipmentScreen!TypeOK
      [] mounted = "tracking"    -> trackingPanel!TypeOK
      [] mounted = "papers"      -> documentsPanel!TypeOK
      [] mounted = "messages"    -> messagesPanel!TypeOK
      [] mounted = "vehicle"     -> vehicleScreen!TypeOK
      [] mounted = "edit"        -> shipmentEdit!TypeOK
      [] mounted = "invoice"     -> invoiceScreen!TypeOK
      [] mounted = "review"      -> inspectionReview!TypeOK
      [] mounted = "inspection"  -> inspectionForm!TypeOK
      [] mounted = "damage"      -> damageReports!TypeOK
      [] mounted = "card"        -> damageCard!TypeOK
      [] mounted = "photos"      -> photosPanel!TypeOK

\* A spinner or a disabled button belongs to a call that is under way: no
\* order of answers, failures and unmounted panels leaves it behind.
BusyWhileUnderWay ==
    CASE mounted = "customers"   -> customersPage!BusyWhileUnderWay
      [] mounted = "shipments"   -> shipmentsPage!BusyWhileUnderWay
      [] mounted = "documents"   -> documentsPage!BusyWhileUnderWay
      [] mounted = "users"       -> usersPage!BusyWhileUnderWay
      [] mounted = "vehicles"    -> vehiclesPage!BusyWhileUnderWay
      [] mounted = "inspections" -> inspectionsPage!BusyWhileUnderWay
      [] mounted = "invoices"    -> invoicesPage!BusyWhileUnderWay
      [] mounted = "shipment"    -> shipmentScreen!BusyWhileUnderWay
      [] mounted = "tracking"    -> trackingPanel!BusyWhileUnderWay
      [] mounted = "papers"      -> documentsPanel!BusyWhileUnderWay
      [] mounted = "messages"    -> messagesPanel!BusyWhileUnderWay
      [] mounted = "vehicle"     -> vehicleScreen!BusyWhileUnderWay
      [] mounted = "edit"        -> shipmentEdit!BusyWhileUnderWay
      [] mounted = "invoice"     -> invoiceScreen!BusyWhileUnderWay
      [] mounted = "review"      -> inspectionReview!BusyWhileUnderWay
      [] mounted = "inspection"  -> inspectionForm!BusyWhileUnderWay
      [] mounted = "damage"      -> damageReports!BusyWhileUnderWay
      [] mounted = "card"        -> damageCard!BusyWhileUnderWay
      [] mounted = "photos"      -> photosPanel!BusyWhileUnderWay

\* The form of the customers and of the shipments holds the row being edited,
\* but for the number of a shipment, which gives way to a number announced for a
\* new one that arrives late; the dialog that asks before a deletion names the row
\* that is being deleted, and a refused account is reported in the dialog it was
\* entered in, however the operator overlaps with saves, deletions and their
\* reloads.
FormsKeepTheirRow ==
    /\ mounted = "customers" => customersPage!FormFollowsEditing /\ customersPage!DialogNamesDeleted
    /\ mounted = "shipments" => shipmentsPage!FormFollowsEditing /\ shipmentsPage!DialogNamesDeleted
    /\ mounted = "users" => usersPage!RefusalFindsItsForm

\* What a screen offers is refused only when somebody else was faster, or for a
\* reason the property of the screen names.
RefusedOnlyWhenStale ==
    /\ mounted = "shipment" => shipmentScreen!RefusedOnlyWhenStale
    /\ mounted = "vehicle" => vehicleScreen!RefusedOnlyWhenStale
    /\ mounted = "invoice" => invoiceScreen!RefusedOnlyWhenStale
    /\ mounted = "review" => inspectionReview!RefusedOnlyWhenStale
    /\ mounted = "inspection" => inspectionForm!RefusedOnlyWhenStale

\* A list that has settled is the one its filters ask for, and what the operator
\* did is shown once everything is answered, provided that the last load did not
\* fail and was not overtaken by an answer that was asked for before it; for the
\* inspections, the documents and the photos also that nothing else was changed or
\* loaded at the same time.  No milestone is shown as done that the shipment still
\* has before it, but for the customs, which the list has before the loading.
PagesTellTheTruth ==
    /\ mounted = "vehicles" => vehiclesPage!ShowsWhatIsAsked
    /\ mounted = "inspections" => inspectionsPage!ShowsWhatIsAsked
    /\ mounted = "shipment" => shipmentScreen!OwnStepIsShown
    /\ mounted = "tracking" => trackingPanel!OwnStepIsShown /\ trackingPanel!MilestonesNotAhead
    /\ mounted = "papers" => documentsPanel!OwnStepIsShown
    /\ mounted = "messages" => messagesPanel!OwnStepIsShown
    /\ mounted = "review" => inspectionReview!OwnStepIsShown
    /\ mounted = "inspection" => inspectionForm!OwnStepIsShown
    /\ mounted = "damage" => damageReports!OwnStepIsShown
    /\ mounted = "card" => damageCard!OwnStepIsShown
    /\ mounted = "photos" => photosPanel!OwnStepIsShown
=============================================================================
