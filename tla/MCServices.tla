----------------------------- MODULE MCServices -----------------------------
(***************************************************************************)
(* The services that share no table with the workflow, and the scripts     *)
(* that put a release on the server, each on its own: Served says which of *)
(* them a run exercises.  The numbers and the customers keep their names,  *)
(* being extended; the others are instances.                               *)
(***************************************************************************)
EXTENDS NumberCounters, CustomerRecords, TLC

CONSTANTS
    Served,             \* the services of this run
    None,               \* null
    FirstStatuses, Lives, MaxTime,         \* of the notifications
    Quantities, Prices, Rates, MaxItems,   \* of the invoices
    Emails, Passwords,                     \* of the accounts
    Tags                                   \* of the releases

VARIABLES
    serving,  \* the service
    status, sendRequests, overtaken, sends, delivered, history, token, now,
    invoice, repriced,
    users, tokens, accountRequests, promised, had,
    head, image, running, schema, backups, recorded, script, replaced, healthy

messages == INSTANCE Notifications WITH requests <- sendRequests
amounts  == INSTANCE InvoiceAmounts
accounts == INSTANCE Accounts WITH requests <- accountRequests
releases == INSTANCE Releases

\* null is no name, no number and no row; releases, minutes, quantities and
\* amounts are counted.
ASSUME ServicesConstants ==
    /\ None \notin {"first", "upgrade", "rollback"} \cup messages!Kinds
    /\ None \notin Nat /\ None \notin accounts!User
    /\ FirstStatuses \subseteq messages!ShipmentStatus
    /\ Lives \subseteq Nat \ {0} /\ MaxTime \in Nat
    /\ Tags \subseteq Nat \ {0}
    /\ Quantities \subseteq Nat /\ Prices \subseteq Nat /\ Rates \subseteq Nat
    /\ MaxItems \in Nat

messageVars == <<status, sendRequests, overtaken, sends, delivered, history, token, now>>
amountVars  == <<invoice, repriced>>
accountVars == <<users, tokens, accountRequests, promised, had>>
releaseVars == <<head, image, running, schema, backups, recorded, script, replaced, healthy>>

ServicesInit ==
    /\ serving \in Served
    /\ Init /\ RecordsInit /\ messages!Init /\ amounts!Init /\ accounts!Init
    /\ releases!Init
    /\ serving # "releases" => head = CHOOSE tag \in Tags : TRUE  \* does not matter

ServicesNext ==
    /\ \/ serving = "numbers"  /\ Next
          /\ UNCHANGED <<messageVars, recordVars, amountVars, accountVars, releaseVars>>
       \/ serving = "messages" /\ messages!Next
          /\ UNCHANGED <<vars, recordVars, amountVars, accountVars, releaseVars>>
       \/ serving = "records"  /\ RecordsNext
          /\ UNCHANGED <<vars, messageVars, amountVars, accountVars, releaseVars>>
       \/ serving = "amounts"  /\ amounts!Next
          /\ UNCHANGED <<vars, messageVars, recordVars, accountVars, releaseVars>>
       \/ serving = "accounts" /\ accounts!Next
          /\ UNCHANGED <<vars, messageVars, recordVars, amountVars, releaseVars>>
       \/ serving = "releases" /\ releases!Next
          /\ UNCHANGED <<vars, messageVars, recordVars, amountVars, accountVars>>
    /\ UNCHANGED serving

servicesVars == <<serving, vars, messageVars, recordVars, amountVars, accountVars, releaseVars>>

ServicesSpec == ServicesInit /\ [][ServicesNext]_servicesVars

\* The requests of a service are interchangeable.
Symmetry == Permutations(Workers) \cup Permutations(Requests)

-----------------------------------------------------------------------------
(* The properties of the services, under one name each; those of the numbers *)
(* and of the customers are in their modules.                                *)

\* The services keep values of the types their tables and their caches have.
ServicesTypeOK ==
    /\ TypeOK /\ RecordsTypeOK /\ messages!TypeOK /\ amounts!TypeOK /\ accounts!TypeOK
    /\ releases!TypeOK

\* A row of the history that says SENT is about a message the customer has; the
\* messages of a transition tell no status before the one it reached, unless a
\* write decided on an outdated row has taken the shipment back in the meantime;
\* and what a message ticks off is not ahead of the status it tells.
MessagesAreTrue ==
    messages!SentRowsDelivered /\ messages!AnnouncementIsUpToDate /\ messages!MilestonesFollowWay

\* No mail is sent with a cached token known to have expired.
TokenStillGood == messages!TokenStillGood

\* The amounts of an invoice add up as far as rounding each of them lets them,
\* and its tax is the one of its subtotal and its rate as far as rounding those
\* lets it, until the rate is changed.
AmountsAgree == amounts!AmountsAddUp /\ amounts!TaxFollowsRate

\* An account the bootstrap script has made an administrator stays one, and a
\* token was given for a password its account has had, and lets its holder do
\* what the account may now.
AccountsHold == accounts!AdministratorStays /\ accounts!TokensAreEarned

\* No release runs on a database that lacks its migrations.
SchemaCarriesRelease == releases!SchemaCarriesRelease

\* There is a dump of every database an upgrade has migrated, and the release on
\* record was healthy, and its dump is there.
WayBackExists == releases!MigratedIsBackedUp /\ releases!RecordIsProven

\* An upgrade is refused as already deployed only when the release runs.
DeployedIsRunning == releases!DeployedIsRunning
=============================================================================
