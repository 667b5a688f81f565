----------------------------- MODULE EventKind -----------------------------
(***************************************************************************)
(* The classification of a webhook (webhook-ingest/src/ingest/normalize/   *)
(* event_kind.rs): from the type of the data change and the status sets    *)
(* of the content before and after it, one of fourteen event kinds, or     *)
(* none.  extract_statuses sorts and dedups the JSON array, so a status    *)
(* list is a set here; the empty set is what a missing content gives.      *)
(***************************************************************************)

Status == {"PUBLISH", "DRAFT", "CLOSED"}

\* Option::None, wherever the code has an Option<String> of these.
NoKind == "no kind"
NoState == "no state"

EventType == {"new", "edit", "delete"}

\* A variant that looks for DRAFT before PUBLISH.
CanonicalStatusDraftWins(statuses) ==
    CASE "DRAFT" \in statuses    -> "DRAFT"
      [] statuses = {"PUBLISH"}  -> "PUBLISH"
      [] statuses = {"CLOSED"}   -> "CLOSED"
      [] OTHER                   -> NoState

(***************************************************************************)
(* has_status and canonical_status: PUBLISH wins whatever else is in the   *)
(* set; DRAFT and CLOSED count only when they are alone.                   *)
(***************************************************************************)
CanonicalStatus(statuses) ==
    CASE "PUBLISH" \in statuses  -> "PUBLISH"
      [] statuses = {"DRAFT"}    -> "DRAFT"
      [] statuses = {"CLOSED"}   -> "CLOSED"
      [] OTHER                   -> NoState

(***************************************************************************)
(* The arms of the match that look at the type and the two states alone,   *)
(* as records.                                                             *)
(***************************************************************************)
Arm(type, old, new, kind) == [type |-> type, old |-> old, new |-> new, kind |-> kind]

StateArms ==
    { Arm("new",    NoState,   "DRAFT",   "INITIAL_DRAFT"),
      Arm("new",    NoState,   "PUBLISH", "INITIAL_PUBLISH"),
      Arm("edit",   "DRAFT",   "DRAFT",   "SAVE_DRAFT"),
      Arm("edit",   "DRAFT",   "PUBLISH", "PUBLISH_FROM_DRAFT"),
      Arm("edit",   "PUBLISH", "PUBLISH", "UPDATE_PUBLISHED"),
      Arm("edit",   "PUBLISH", "DRAFT",   "UNPUBLISH_TO_DRAFT"),
      Arm("edit",   "PUBLISH", "CLOSED",  "UNPUBLISH_TO_CLOSED"),
      Arm("edit",   "CLOSED",  "DRAFT",   "REOPEN_TO_DRAFT"),
      Arm("edit",   "CLOSED",  "PUBLISH", "REPUBLISH_FROM_CLOSED"),
      Arm("delete", "DRAFT",   NoState,   "DELETE_DRAFT"),
      Arm("delete", "PUBLISH", NoState,   "DELETE_PUBLISHED"),
      Arm("delete", "CLOSED",  NoState,   "DELETE_CLOSED") }

Kind == {a.kind : a \in StateArms}
          \cup {"ADD_DRAFT_TO_PUBLISHED", "DISCARD_DRAFT_ON_PUBLISHED"}

(***************************************************************************)
(* derive_event_kind.  The two guarded arms for a draft laid over or taken *)
(* off published content come before the plain PUBLISH -> PUBLISH arm.     *)
(***************************************************************************)
DeriveEventKind(type, old, new) ==
    LET overlay == /\ type = "edit"
                   /\ "PUBLISH" \in old
                   /\ "PUBLISH" \in new
        matching == {a \in StateArms : /\ a.type = type
                                       /\ a.old = CanonicalStatus(old)
                                       /\ a.new = CanonicalStatus(new)}
    IN  CASE overlay /\ "DRAFT" \notin old /\ "DRAFT" \in new
                -> "ADD_DRAFT_TO_PUBLISHED"
          [] overlay /\ "DRAFT" \in old /\ "DRAFT" \notin new
                -> "DISCARD_DRAFT_ON_PUBLISHED"
          [] OTHER
                -> IF matching = {} THEN NoKind ELSE (CHOOSE a \in matching : TRUE).kind

=============================================================================
