-------------------------- MODULE EventKindProofs --------------------------
(***************************************************************************)
(* The classification of webhooks, for the components that classify them.  *)
(***************************************************************************)
EXTENDS EventKind, TLAPS

(* derive_event_kind returns one of the fourteen kinds or none.            *)
LEMMA DeriveEventKindType ==
    ASSUME NEW type, NEW old, NEW new
    PROVE  DeriveEventKind(type, old, new) \in Kind \cup {NoKind}
  <1> DEFINE matching == {a \in StateArms : /\ a.type = type
                                            /\ a.old = CanonicalStatus(old)
                                            /\ a.new = CanonicalStatus(new)}
  <1>1. matching # {} => (CHOOSE a \in matching : TRUE) \in StateArms
    OBVIOUS
  <1>2. matching # {} => (CHOOSE a \in matching : TRUE).kind \in Kind
    BY <1>1 DEF Kind
  <1>3. "ADD_DRAFT_TO_PUBLISHED" \in Kind /\ "DISCARD_DRAFT_ON_PUBLISHED" \in Kind
    BY DEF Kind
  <1> HIDE DEF matching
  <1>4. \/ DeriveEventKind(type, old, new) \in {"ADD_DRAFT_TO_PUBLISHED",
                                               "DISCARD_DRAFT_ON_PUBLISHED", NoKind}
        \/ /\ matching # {}
           /\ DeriveEventKind(type, old, new) = (CHOOSE a \in matching : TRUE).kind
    BY DEF DeriveEventKind, matching
  <1> QED
    BY <1>2, <1>3, <1>4

LEMMA ArmsByName ==
    ASSUME NEW a \in StateArms
    PROVE  a = Arm(a.type, a.old, a.new, a.kind)
  BY DEF StateArms, Arm

(* No two arms fit the same webhook.                                       *)
LEMMA ArmsDiffer ==
    ASSUME NEW x \in StateArms, NEW y \in StateArms,
           x.type = y.type, x.old = y.old, x.new = y.new
    PROVE  x = y
  <1>1. ASSUME NEW a \in StateArms
        PROVE
        \/ a.type = "new" /\ a.old = NoState /\ a.new = "DRAFT" /\ a.kind = "INITIAL_DRAFT"
        \/ a.type = "new" /\ a.old = NoState /\ a.new = "PUBLISH" /\ a.kind = "INITIAL_PUBLISH"
        \/ a.type = "edit" /\ a.old = "DRAFT" /\ a.new = "DRAFT" /\ a.kind = "SAVE_DRAFT"
        \/ a.type = "edit" /\ a.old = "DRAFT" /\ a.new = "PUBLISH" /\ a.kind = "PUBLISH_FROM_DRAFT"
        \/ a.type = "edit" /\ a.old = "PUBLISH" /\ a.new = "PUBLISH" /\ a.kind = "UPDATE_PUBLISHED"
        \/ a.type = "edit" /\ a.old = "PUBLISH" /\ a.new = "DRAFT" /\ a.kind = "UNPUBLISH_TO_DRAFT"
        \/ a.type = "edit" /\ a.old = "PUBLISH" /\ a.new = "CLOSED" /\ a.kind = "UNPUBLISH_TO_CLOSED"
        \/ a.type = "edit" /\ a.old = "CLOSED" /\ a.new = "DRAFT" /\ a.kind = "REOPEN_TO_DRAFT"
        \/ a.type = "edit" /\ a.old = "CLOSED" /\ a.new = "PUBLISH" /\ a.kind = "REPUBLISH_FROM_CLOSED"
        \/ a.type = "delete" /\ a.old = "DRAFT" /\ a.new = NoState /\ a.kind = "DELETE_DRAFT"
        \/ a.type = "delete" /\ a.old = "PUBLISH" /\ a.new = NoState /\ a.kind = "DELETE_PUBLISHED"
        \/ a.type = "delete" /\ a.old = "CLOSED" /\ a.new = NoState /\ a.kind = "DELETE_CLOSED"
    BY DEF StateArms, Arm
  <1>2. x.kind = y.kind
    BY <1>1 DEF NoState
  <1> QED
    BY <1>2, ArmsByName

(* What an arm makes of the webhooks that no guarded arm takes before it.  *)
LEMMA ArmDecides ==
    ASSUME NEW type, NEW old, NEW new, NEW a \in StateArms,
           a.type = type, a.old = CanonicalStatus(old), a.new = CanonicalStatus(new),
           type = "edit" /\ "PUBLISH" \in old /\ "PUBLISH" \in new
               => "DRAFT" \notin old /\ "DRAFT" \notin new
    PROVE  DeriveEventKind(type, old, new) = a.kind
  <1> DEFINE matching == {b \in StateArms : /\ b.type = type
                                            /\ b.old = CanonicalStatus(old)
                                            /\ b.new = CanonicalStatus(new)}
  <1>1. matching = {a}
    BY ArmsDiffer
  <1>2. DeriveEventKind(type, old, new)
          = IF matching = {} THEN NoKind ELSE (CHOOSE b \in matching : TRUE).kind
    BY DEF DeriveEventKind
  <1> HIDE DEF matching
  <1>3. matching # {} /\ (CHOOSE b \in matching : TRUE) = a
    BY <1>1
  <1> QED
    BY <1>2, <1>3

LEMMA CanonicalStatuses ==
    /\ CanonicalStatus({}) = NoState
    /\ CanonicalStatus({"DRAFT"}) = "DRAFT"
    /\ CanonicalStatus({"PUBLISH"}) = "PUBLISH"
    /\ CanonicalStatus({"CLOSED"}) = "CLOSED"
  BY DEF CanonicalStatus

(* The kinds there are.                                                    *)
LEMMA KindsByName ==
    Kind = {"INITIAL_DRAFT", "INITIAL_PUBLISH", "SAVE_DRAFT", "PUBLISH_FROM_DRAFT",
            "UPDATE_PUBLISHED", "UNPUBLISH_TO_DRAFT", "UNPUBLISH_TO_CLOSED", "REOPEN_TO_DRAFT",
            "REPUBLISH_FROM_CLOSED", "DELETE_DRAFT", "DELETE_PUBLISHED", "DELETE_CLOSED",
            "ADD_DRAFT_TO_PUBLISHED", "DISCARD_DRAFT_ON_PUBLISHED"}
  BY DEF Kind, StateArms, Arm

=============================================================================
