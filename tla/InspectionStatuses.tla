------------------------- MODULE InspectionStatuses -------------------------
(***************************************************************************)
(* The enumerations of an inspection and the transition table of           *)
(* VehicleInspectionsService.assertStatusTransition.                       *)
(***************************************************************************)
EXTENDS Naturals, Sequences

InspectionStatus == {"DRAFT", "IN_PROGRESS", "COMPLETED", "CANCELLED"}
InspectionApprovalStatus == {"PENDING", "APPROVED", "REJECTED"}

\* An inspection that was not inserted yet, and one that was deleted:
\* identifiers are UUIDs, so a deleted one is never used again.
NotCreated == "NOT_CREATED"
Deleted    == "DELETED"

Null == "NONE"  \* fromStatus of the history entry that create writes, for one

\* The statuses a status may be changed to.  A completed inspection may be
\* reopened and a cancelled one taken up again.
allowedTransitions(from) ==
    CASE from = "DRAFT"       -> {"IN_PROGRESS", "CANCELLED"}
      [] from = "IN_PROGRESS" -> {"COMPLETED", "CANCELLED"}
      [] from = "COMPLETED"   -> {"IN_PROGRESS"}
      [] OTHER                -> {"DRAFT"}

\* One row of a history table.
Entry(from, to) == [fromStatus |-> from, toStatus |-> to]

StatusEntry == [fromStatus: InspectionStatus \cup {Null},
                toStatus:   InspectionStatus]
ApprovalEntry == [fromStatus: InspectionApprovalStatus,
                  toStatus:   InspectionApprovalStatus]

=============================================================================
