------------------------ MODULE ContentEventsProofs ------------------------
(***************************************************************************)
(* Proofs about ContentEvents, for any finite set of contents, any number  *)
(* of changes, any length of a day and any offset of JST.                  *)
(***************************************************************************)
EXTENDS ContentEvents, EventKindProofs, MetricsProofs

-----------------------------------------------------------------------------
(* Days.                                                                   *)

LEMMA DivisionGrows ==
    ASSUME NEW a \in Nat, NEW b \in Nat, NEW n \in Nat \ {0}, a <= b
    PROVE  a \div n \in Nat /\ a \div n <= b \div n
  OBVIOUS

LEMMA DaysGrow ==
    ASSUME NEW s \in Time, NEW t \in Time, s <= t
    PROVE  Day(s) \in Nat /\ Day(t) \in Nat /\ Day(s) <= Day(t)
  <1>1. s + JstOffset \in Nat /\ t + JstOffset \in Nat /\ DayLength \in Nat \ {0}
        /\ s + JstOffset <= t + JstOffset
    BY DayAssumption, ContentAssumption DEF Time
  <1> QED
    BY <1>1, DivisionGrows DEF Day

LEMMA WindowIsFinite ==
    ASSUME NEW r \in Ranges
    PROVE  IsFiniteSet(Window(r[1], r[2]))
  <1>1. r[1] \in Time /\ r[2] \in Time /\ r[1] <= r[2]
    BY DEF Ranges
  <1> QED
    BY <1>1, DaysGrow, FS_Interval DEF Window

-----------------------------------------------------------------------------
(* Classification.                                                         *)

LEMMA CanonicalIsLive ==
    ASSUME NEW statuses
    PROVE  CanonicalStatus(statuses) = "PUBLISH" <=> Live(statuses)
  BY DEF CanonicalStatus, Live, NoState

LEMMA CanonicalOfSets ==
    /\ CanonicalStatus({}) = NoState /\ CanonicalStatus({"DRAFT"}) = "DRAFT"
    /\ CanonicalStatus({"CLOSED"}) = "CLOSED" /\ CanonicalStatus({"PUBLISH"}) = "PUBLISH"
    /\ CanonicalStatus({"PUBLISH", "DRAFT"}) = "PUBLISH"
  BY DEF CanonicalStatus

(* In the table, publications lead to PUBLISH and ends away from it.       *)
LEMMA ArmsAreSound ==
    ASSUME NEW a \in StateArms
    PROVE  /\ a.kind \in PublishActions <=> a.new = "PUBLISH" /\ a.old # "PUBLISH"
           /\ a.kind \in Ends <=> a.old = "PUBLISH" /\ a.new # "PUBLISH"
  <1>1. /\ a.kind \in {"PUBLISH_FROM_DRAFT", "INITIAL_PUBLISH", "REPUBLISH_FROM_CLOSED"}
            <=> a.new = "PUBLISH" /\ a.old # "PUBLISH"
        /\ a.kind \in {"UNPUBLISH_TO_DRAFT", "UNPUBLISH_TO_CLOSED", "DELETE_PUBLISHED"}
            <=> a.old = "PUBLISH" /\ a.new # "PUBLISH"
    <2>1. \/ /\ a.kind \in {"INITIAL_PUBLISH", "PUBLISH_FROM_DRAFT", "REPUBLISH_FROM_CLOSED"}
             /\ a.new = "PUBLISH" /\ a.old \in {NoState, "DRAFT", "CLOSED"}
          \/ /\ a.kind \in {"UNPUBLISH_TO_DRAFT", "UNPUBLISH_TO_CLOSED", "DELETE_PUBLISHED"}
             /\ a.old = "PUBLISH" /\ a.new \in {"DRAFT", "CLOSED", NoState}
          \/ /\ a.kind = "UPDATE_PUBLISHED"
             /\ a.old = "PUBLISH" /\ a.new = "PUBLISH"
          \/ /\ a.kind \in {"INITIAL_DRAFT", "SAVE_DRAFT", "REOPEN_TO_DRAFT", "DELETE_DRAFT", "DELETE_CLOSED"}
             /\ a.new \in {"DRAFT", NoState} /\ a.old \in {NoState, "DRAFT", "CLOSED"}
      BY DEF StateArms, Arm
    <2> QED
      BY <2>1 DEF NoState
  <1> QED
    BY <1>1 DEF PublishActions, Ends

(* A change that makes a content live, or ends that, has an arm.           *)
LEMMA ArmsAreComplete ==
    ASSUME NEW type, NEW old, NEW new, Change(type, old, new), Live(old) # Live(new)
    PROVE  \E a \in StateArms : /\ a.type = type
                                /\ a.old = CanonicalStatus(old)
                                /\ a.new = CanonicalStatus(new)
  <1>1. CASE type = "new"
    <2>1. old = {} /\ new = {"PUBLISH"}
      BY <1>1 DEF Change, Live
    <2>2. Arm("new", NoState, "PUBLISH", "INITIAL_PUBLISH") \in StateArms
      BY DEF StateArms
    <2> QED
      BY <1>1, <2>1, <2>2, CanonicalOfSets DEF Arm
  <1>2. CASE type = "edit"
    <2>1. \/ old \in {{"DRAFT"}, {"CLOSED"}} /\ new \in {{"PUBLISH"}, {"PUBLISH", "DRAFT"}}
          \/ old \in {{"PUBLISH"}, {"PUBLISH", "DRAFT"}} /\ new \in {{"DRAFT"}, {"CLOSED"}}
      BY <1>2 DEF Change, Live, StatusSet
    <2>2. /\ Arm("edit", "DRAFT", "PUBLISH", "PUBLISH_FROM_DRAFT") \in StateArms
          /\ Arm("edit", "CLOSED", "PUBLISH", "REPUBLISH_FROM_CLOSED") \in StateArms
          /\ Arm("edit", "PUBLISH", "DRAFT", "UNPUBLISH_TO_DRAFT") \in StateArms
          /\ Arm("edit", "PUBLISH", "CLOSED", "UNPUBLISH_TO_CLOSED") \in StateArms
      BY DEF StateArms
    <2> QED
      BY <1>2, <2>1, <2>2, CanonicalOfSets DEF Arm
  <1>3. CASE type = "delete"
    <2>1. old \in {{"PUBLISH"}, {"PUBLISH", "DRAFT"}} /\ new = {}
      BY <1>3 DEF Change, Live, StatusSet
    <2>2. Arm("delete", "PUBLISH", NoState, "DELETE_PUBLISHED") \in StateArms
      BY DEF StateArms
    <2> QED
      BY <1>3, <2>1, <2>2, CanonicalOfSets DEF Arm
  <1> QED
    BY <1>1, <1>2, <1>3 DEF Change

(* The kind says what became of the content.                               *)
LEMMA KindTellsLiveness ==
    ASSUME NEW type, NEW old, NEW new, Change(type, old, new)
    PROVE  /\ DeriveEventKind(type, old, new) \in PublishActions <=> Live(new) /\ ~Live(old)
           /\ DeriveEventKind(type, old, new) \in Ends <=> Live(old) /\ ~Live(new)
  <1> DEFINE kind == DeriveEventKind(type, old, new)
             matching == {a \in StateArms : /\ a.type = type
                                            /\ a.old = CanonicalStatus(old)
                                            /\ a.new = CanonicalStatus(new)}
             arm == CHOOSE a \in matching : TRUE
  <1>1. \/ /\ Live(old) /\ Live(new)
           /\ kind \in {"ADD_DRAFT_TO_PUBLISHED", "DISCARD_DRAFT_ON_PUBLISHED"}
        \/ kind = IF matching = {} THEN NoKind ELSE arm.kind
    BY DEF DeriveEventKind, Live
  <1>2. CASE /\ Live(old) /\ Live(new)
             /\ kind \in {"ADD_DRAFT_TO_PUBLISHED", "DISCARD_DRAFT_ON_PUBLISHED"}
    BY <1>2 DEF PublishActions, Ends
  <1>3. CASE kind = NoKind /\ matching = {}
    <2>1. Live(old) <=> Live(new)
      BY <1>3, ArmsAreComplete DEF Live
    <2> QED
      BY <1>3, <2>1 DEF PublishActions, Ends, NoKind
  <1>4. CASE kind = arm.kind /\ matching # {}
    <2>1. arm \in StateArms /\ arm.old = CanonicalStatus(old) /\ arm.new = CanonicalStatus(new)
      BY <1>4
    <2> HIDE DEF arm, kind
    <2>2. /\ arm.kind \in PublishActions <=> Live(new) /\ ~Live(old)
          /\ arm.kind \in Ends <=> Live(old) /\ ~Live(new)
      BY <2>1, ArmsAreSound, CanonicalIsLive
    <2>3. /\ kind \in PublishActions <=> Live(new) /\ ~Live(old)
          /\ kind \in Ends <=> Live(old) /\ ~Live(new)
      BY <1>4, <2>2
    <2> QED
      BY <2>3 DEF kind
  <1> QED
    BY <1>1, <1>2, <1>3, <1>4

-----------------------------------------------------------------------------
(* Types.                                                                  *)

LEMMA TypeInit == Init => TypeOK
  BY ContentAssumption DEF Init, TypeOK, Time

(* A webhook with the next id.                                             *)
LEMMA SendType ==
    ASSUME TypeOK, NEW type \in EventType, NEW id \in Content \cup {NullId}, NEW api \in Api,
           NEW old \in StatusSet \cup {{}}, NEW new \in StatusSet \cup {{}},
           NEW createdAt \in Time \cup {NullTime}, NEW publishedAt \in Time \cup {NullTime},
           Send(type, id, api, old, new, createdAt, publishedAt)
    PROVE  /\ now' \in Time /\ changes' \in 0 .. MaxChanges
           /\ sent' \subseteq Webhook /\ lost' \subseteq Webhook
           /\ \A e \in events' : EventOK(e)
  <1>1. changes + 1 \in 1 .. MaxChanges
    BY ContentAssumption DEF Send, TypeOK
  <1>2. [id |-> changes + 1, content |-> id, api |-> api, type |-> type,
         old |-> old, new |-> new, created |-> createdAt, published |-> publishedAt] \in Webhook
    BY <1>1 DEF Webhook
  <1>3. now' = now /\ lost' = lost /\ events' = events
    BY DEF Send
  <1> QED
    BY <1>1, <1>2, <1>3 DEF Send, TypeOK

LEMMA TypeNext == TypeOK /\ [Next]_vars => TypeOK'
  <1> SUFFICES ASSUME TypeOK, [Next]_vars PROVE TypeOK'
    OBVIOUS
  <1>1. CASE Tick
    BY <1>1, ContentAssumption DEF Tick, TypeOK, cms, Time
  <1>2. ASSUME NEW c \in Content, NEW new \in {{"DRAFT"}, {"PUBLISH"}}, Create(c, new)
        PROVE  TypeOK'
    <2> DEFINE publishedAt == IF Live(new) THEN now ELSE NullTime
    <2>1. /\ status' = [status EXCEPT ![c] = new]
          /\ created' = [created EXCEPT ![c] = now]
          /\ published' = [published EXCEPT ![c] = publishedAt]
          /\ lives' = [lives EXCEPT ![c] = @ + 1]
          /\ Send("new", c, ApiOf[c], {}, new, now, publishedAt)
      BY <1>2 DEF Create
    <2>2. new \in StatusSet /\ now \in Time /\ publishedAt \in Time \cup {NullTime}
          /\ "new" \in EventType /\ ApiOf[c] \in Api
      BY ContentAssumption DEF StatusSet, TypeOK, EventType
    <2>3. /\ now' \in Time /\ changes' \in 0 .. MaxChanges
          /\ sent' \subseteq Webhook /\ lost' \subseteq Webhook
          /\ \A e \in events' : EventOK(e)
      BY <2>1, <2>2, SendType
    <2> HIDE DEF publishedAt
    <2>4. lives' \in [Content -> Nat]
      BY <2>1 DEF TypeOK
    <2> QED
      BY <2>1, <2>2, <2>3, <2>4 DEF TypeOK
  <1>3. ASSUME NEW c \in Content, NEW new \in StatusSet, Edit(c, new)
        PROVE  TypeOK'
    <2>1. PICK publishedAt \in Time \cup {NullTime} :
             /\ published' = [published EXCEPT ![c] = publishedAt]
             /\ Send("edit", c, ApiOf[c], status[c], new, created[c], publishedAt)
      BY <1>3 DEF Edit, TypeOK
    <2>2. /\ status[c] \in StatusSet \cup {{}} /\ created[c] \in Time \cup {NullTime}
          /\ "edit" \in EventType /\ ApiOf[c] \in Api
      BY ContentAssumption DEF TypeOK, EventType
    <2> QED
      BY <1>3, <2>1, <2>2, SendType DEF Edit, TypeOK
  <1>4. ASSUME NEW c \in Content, Delete(c)
        PROVE  TypeOK'
    <2>1. /\ status[c] \in StatusSet \cup {{}} /\ created[c] \in Time \cup {NullTime}
          /\ published[c] \in Time \cup {NullTime}
          /\ "delete" \in EventType /\ ApiOf[c] \in Api
      BY ContentAssumption DEF TypeOK, EventType
    <2> QED
      BY <1>4, <2>1, SendType DEF Delete, TypeOK
  <1>5. ASSUME NEW c \in Content, NEW d \in Content, Rename(c, d)
        PROVE  TypeOK'
    <2>1. /\ status[c] \in StatusSet \cup {{}} /\ created[c] \in Time \cup {NullTime}
          /\ published[c] \in Time \cup {NullTime}
          /\ "edit" \in EventType /\ ApiOf[d] \in Api
      BY ContentAssumption DEF TypeOK, EventType
    <2>2. lives' \in [Content -> Nat]
      BY <1>5 DEF Rename, TypeOK
    <2> QED
      BY <1>5, <2>1, <2>2, SendType DEF Rename, TypeOK
  <1>6. ASSUME NEW a \in Api, ChangeApi(a)
        PROVE  TypeOK'
    <2>1. "edit" \in EventType
      BY DEF EventType
    <2> QED
      BY <1>6, <2>1, SendType DEF ChangeApi, TypeOK
  <1>7. ASSUME NEW w \in sent, Deliver(w)
        PROVE  TypeOK'
    <2>1. EventOK(NormalizePayload(w))
      <3>1. NormalizePayload(w).event_kind \in Kind \cup {NoKind}
        BY DeriveEventKindType DEF NormalizePayload
      <3>2. /\ now \in Time /\ w.content \in Content \cup {NullId}
            /\ w.created \in Time \cup {NullTime} /\ w.published \in Time \cup {NullTime}
        BY DEF TypeOK, Webhook
      <3> QED
        BY <3>1, <3>2 DEF NormalizePayload, EventOK
    <2> QED
      BY <1>7, <2>1 DEF Deliver, cms, TypeOK
  <1>8. ASSUME NEW w \in sent, Lose(w)
        PROVE  TypeOK'
    BY <1>8 DEF Lose, cms, TypeOK
  <1>9. CASE UNCHANGED vars
    BY <1>9 DEF vars, cms, TypeOK
  <1> QED
    BY <1>1, <1>2, <1>3, <1>4, <1>5, <1>6, <1>7, <1>8, <1>9 DEF Next

-----------------------------------------------------------------------------
(* Counting.                                                               *)

Count(condition) == IF condition THEN 1 ELSE 0

KindOf(w) == DeriveEventKind(w.type, w.old, w.new)

LEMMA OneMore ==
    ASSUME NEW S, IsFiniteSet(S), NEW x, x \notin S
    PROVE  /\ IsFiniteSet(S \cup {x}) /\ Cardinality(S) \in Nat
           /\ Cardinality(S \cup {x}) = Cardinality(S) + 1
  BY FS_AddElement, FS_CardinalityType

LEMMA OneLess ==
    ASSUME NEW S, IsFiniteSet(S), NEW x \in S
    PROVE  /\ IsFiniteSet(S \ {x}) /\ Cardinality(S) \in Nat /\ Cardinality(S \ {x}) \in Nat
           /\ Cardinality(S) = Cardinality(S \ {x}) + 1
  <1>1. IsFiniteSet(S \ {x}) /\ Cardinality(S \ {x}) = Cardinality(S) - 1
    BY FS_RemoveElement
  <1> QED
    BY <1>1, FS_CardinalityType

LEMMA FiniteParts ==
    ASSUME Distinct, NEW kinds
    PROVE  /\ IsFiniteSet(OfKind(events, kinds)) /\ Cardinality(OfKind(events, kinds)) \in Nat
           /\ IsFiniteSet(Missing(kinds)) /\ Cardinality(Missing(kinds)) \in Nat
           /\ IsFiniteSet(Online) /\ Cardinality(Online) \in Nat
  <1>1. IsFiniteSet(sent \cup lost)
    BY FS_Union DEF Distinct
  <1>2. /\ OfKind(events, kinds) \subseteq events
        /\ Missing(kinds) \subseteq sent \cup lost
        /\ Online \subseteq Content
    BY DEF OfKind, Missing, Online
  <1>3. IsFiniteSet(OfKind(events, kinds)) /\ IsFiniteSet(Missing(kinds)) /\ IsFiniteSet(Online)
    BY <1>1, <1>2, FS_Subset, ContentAssumption DEF Distinct
  <1> QED
    BY <1>3, FS_CardinalityType

LEMMA OnlineFinite == IsFiniteSet(Online') /\ Cardinality(Online') \in Nat
  <1>1. Online' \subseteq Content
    BY DEF Online
  <1> QED
    BY <1>1, FS_Subset, FS_CardinalityType, ContentAssumption

(* A webhook that is sent is missing.                                      *)
LEMMA SendCounts ==
    ASSUME Distinct, NEW w, w.id = changes + 1, changes \in Nat,
           sent' = sent \cup {w}, lost' = lost, NEW kinds
    PROVE  Cardinality(Missing(kinds)') = Cardinality(Missing(kinds)) + Count(KindOf(w) \in kinds)
  <1>1. w \notin sent \cup lost
    BY DEF Distinct
  <1>2. CASE KindOf(w) \in kinds
    <2>1. Missing(kinds)' = Missing(kinds) \cup {w} /\ w \notin Missing(kinds)
      BY <1>1, <1>2 DEF Missing, KindOf
    <2> QED
      BY <1>2, <2>1, FiniteParts, OneMore DEF Count
  <1>3. CASE KindOf(w) \notin kinds
    <2>1. Missing(kinds)' = Missing(kinds)
      BY <1>3 DEF Missing, KindOf
    <2> QED
      BY <1>3, <2>1, FiniteParts DEF Count
  <1> QED
    BY <1>2, <1>3

(* A webhook that arrives is an event instead.                             *)
LEMMA DeliverCounts ==
    ASSUME Distinct, NEW w \in sent, NEW e, e.id = w.id, e.event_kind = KindOf(w),
           sent' = sent \ {w}, lost' = lost, events' = events \cup {e}, NEW kinds
    PROVE  Cardinality(OfKind(events, kinds)') + Cardinality(Missing(kinds)')
             = Cardinality(OfKind(events, kinds)) + Cardinality(Missing(kinds))
  <1>1. e \notin events /\ w \notin lost
    BY DEF Distinct
  <1>2. CASE KindOf(w) \in kinds
    <2>1. OfKind(events, kinds)' = OfKind(events, kinds) \cup {e} /\ e \notin OfKind(events, kinds)
      BY <1>1, <1>2 DEF OfKind
    <2>2. Missing(kinds)' = Missing(kinds) \ {w} /\ w \in Missing(kinds)
      BY <1>1, <1>2 DEF Missing, KindOf
    <2>3. Cardinality(OfKind(events, kinds)') = Cardinality(OfKind(events, kinds)) + 1
      BY <2>1, FiniteParts, OneMore
    <2>4. /\ Cardinality(Missing(kinds)') \in Nat
          /\ Cardinality(Missing(kinds)) = Cardinality(Missing(kinds)') + 1
      BY <2>2, FiniteParts, OneLess
    <2> QED
      BY <2>3, <2>4, FiniteParts
  <1>3. CASE KindOf(w) \notin kinds
    <2>1. OfKind(events, kinds)' = OfKind(events, kinds) /\ Missing(kinds)' = Missing(kinds)
      BY <1>1, <1>3 DEF OfKind, Missing, KindOf
    <2> QED
      BY <2>1
  <1> QED
    BY <1>2, <1>3

(* One content changes its status.                                         *)
LEMMA OnlineCounts ==
    ASSUME Distinct, TypeOK, NEW c \in Content, NEW new, status' = [status EXCEPT ![c] = new]
    PROVE  Cardinality(Online') + Count(Live(status[c]) /\ ~Live(new))
             = Cardinality(Online) + Count(Live(new) /\ ~Live(status[c]))
  <1>1. \A d \in Content : status'[d] = IF d = c THEN new ELSE status[d]
    BY DEF TypeOK
  <1>2. c \in Online <=> Live(status[c])
    BY DEF Online
  <1>3. Online' = IF Live(new) THEN Online \cup {c} ELSE Online \ {c}
    BY <1>1 DEF Online
  <1>4. CASE Live(new) /\ ~Live(status[c])
    BY <1>2, <1>3, <1>4, FiniteParts, OneMore DEF Count
  <1>5. CASE Live(status[c]) /\ ~Live(new)
    <2>1. Cardinality(Online) = Cardinality(Online') + 1 /\ Cardinality(Online') \in Nat
      BY <1>2, <1>3, <1>5, FiniteParts, OneLess
    <2> QED
      BY <1>5, <2>1 DEF Count
  <1>6. CASE Live(status[c]) <=> Live(new)
    <2>1. Online' = Online
      BY <1>2, <1>3, <1>6
    <2> QED
      BY <1>6, <2>1 DEF Count
  <1> QED
    BY <1>4, <1>5, <1>6

(* A content takes another id.                                             *)
LEMMA RenameCounts ==
    ASSUME Distinct, TypeOK, NEW c \in Content, NEW d \in Content,
           status[c] # {}, status[d] = {},
           status' = [status EXCEPT ![c] = {}, ![d] = status[c]]
    PROVE  Cardinality(Online') = Cardinality(Online)
  <1>1. c # d /\ ~Live({})
    BY DEF Live
  <1>2. \A x \in Content : status'[x] = IF x = d THEN status[c] ELSE IF x = c THEN {} ELSE status[x]
    BY <1>1 DEF TypeOK
  <1>3. d \notin Online
    BY <1>1 DEF Online
  <1>4. CASE Live(status[c])
    <2>1. c \in Online /\ Online' = (Online \ {c}) \cup {d} /\ d \notin Online \ {c}
      BY <1>1, <1>2, <1>3, <1>4 DEF Online
    <2>2. IsFiniteSet(Online \ {c}) /\ Cardinality(Online) = Cardinality(Online \ {c}) + 1
      BY <2>1, FiniteParts, OneLess
    <2> QED
      BY <2>1, <2>2, OneMore
  <1>5. CASE ~Live(status[c])
    <2>1. Online' = Online
      BY <1>1, <1>2, <1>5 DEF Online
    <2> QED
      BY <2>1
  <1> QED
    BY <1>4, <1>5

-----------------------------------------------------------------------------
(* Kinds and types.                                                        *)

LEMMA ArmsTellTypes ==
    ASSUME NEW a \in StateArms
    PROVE  /\ a.kind \in StateArrivals <=> a.type \in {"new", "edit"}
           /\ a.kind \notin Overlays \cup {NoKind}
           /\ a.type = "edit" => a.old # NoState
  <1>1. \/ /\ a.kind \in {"INITIAL_DRAFT", "INITIAL_PUBLISH"} /\ a.type = "new"
        \/ /\ a.kind \in {"SAVE_DRAFT", "PUBLISH_FROM_DRAFT", "UPDATE_PUBLISHED", "UNPUBLISH_TO_DRAFT",
                          "UNPUBLISH_TO_CLOSED", "REOPEN_TO_DRAFT", "REPUBLISH_FROM_CLOSED"}
           /\ a.type = "edit" /\ a.old \in {"DRAFT", "PUBLISH", "CLOSED"}
        \/ /\ a.kind \in {"DELETE_DRAFT", "DELETE_PUBLISHED", "DELETE_CLOSED"} /\ a.type = "delete"
    BY DEF StateArms, Arm
  <1> QED
    BY <1>1 DEF StateArrivals, PublishedStates, PublishActions, Overlays, NoKind, NoState

LEMMA DeletionsHaveArms ==
    ASSUME NEW old \in StatusSet
    PROVE  \E a \in StateArms : /\ a.type = "delete"
                                /\ a.old = CanonicalStatus(old)
                                /\ a.new = CanonicalStatus({})
  <1>1. /\ Arm("delete", "DRAFT", NoState, "DELETE_DRAFT") \in StateArms
        /\ Arm("delete", "PUBLISH", NoState, "DELETE_PUBLISHED") \in StateArms
        /\ Arm("delete", "CLOSED", NoState, "DELETE_CLOSED") \in StateArms
    BY DEF StateArms
  <1> QED
    BY <1>1, CanonicalOfSets DEF Arm, StatusSet

LEMMA KindTellsType ==
    ASSUME NEW type, NEW old, NEW new, Change(type, old, new)
    PROVE  LET kind == DeriveEventKind(type, old, new)
           IN  IF old = {} /\ new = {} THEN kind = NoKind
               ELSE type \in {"new", "edit"} <=> kind \in StateArrivals \cup Overlays \cup {NoKind}
  <1> DEFINE kind == DeriveEventKind(type, old, new)
             matching == {a \in StateArms : /\ a.type = type
                                            /\ a.old = CanonicalStatus(old)
                                            /\ a.new = CanonicalStatus(new)}
             arm == CHOOSE a \in matching : TRUE
  <1>1. \/ type = "edit" /\ old # {} /\ kind \in Overlays
        \/ kind = IF matching = {} THEN NoKind ELSE arm.kind
    BY DEF DeriveEventKind, Overlays
  <1>2. matching # {} => arm \in StateArms /\ arm.type = type /\ arm.old = CanonicalStatus(old)
    OBVIOUS
  <1>3. type = "delete" => old # {} /\ matching # {}
    <2>1. type = "delete" => old \in StatusSet /\ new = {}
      BY DEF Change
    <2>2. old \in StatusSet => old # {}
      BY DEF StatusSet
    <2> QED
      BY <2>1, <2>2, DeletionsHaveArms
  <1>4. old = {} /\ new = {} => type = "edit"
    BY DEF Change, StatusSet
  <1>5. CanonicalStatus({}) = NoState
    BY CanonicalOfSets
  <1>6. type \in {"new", "edit", "delete"}
    BY DEF Change
  <1> HIDE DEF matching, arm
  <1>7. CASE old = {} /\ new = {}
    <2>1. matching = {}
      BY <1>2, <1>4, <1>5, <1>7, ArmsTellTypes
    <2> QED
      BY <1>1, <1>7, <2>1
  <1>8. CASE ~(old = {} /\ new = {}) /\ matching = {}
    BY <1>1, <1>3, <1>6, <1>8
  <1>9. CASE ~(old = {} /\ new = {}) /\ matching # {}
    <2>1. /\ arm.kind \in StateArrivals <=> type \in {"new", "edit"}
          /\ arm.kind \notin Overlays \cup {NoKind}
      BY <1>2, <1>9, ArmsTellTypes
    <2> QED
      BY <1>1, <1>6, <1>9, <2>1
  <1> QED
    BY <1>7, <1>8, <1>9

LEMMA SendKeepsClassified ==
    ASSUME Classified, NEW type, NEW id, NEW api, NEW old, NEW new, NEW createdAt, NEW publishedAt,
           Change(type, old, new), id = NullId <=> old = {} /\ new = {},
           Send(type, id, api, old, new, createdAt, publishedAt)
    PROVE  Classified'
  <1> DEFINE w == [id |-> changes + 1, content |-> id, api |-> api, type |-> type,
                   old |-> old, new |-> new, created |-> createdAt, published |-> publishedAt]
  <1>1. sent' = sent \cup {w} /\ events' = events
    BY DEF Send
  <1>2. w.content = id /\ w.type = type /\ w.old = old /\ w.new = new
    OBVIOUS
  <1> HIDE DEF w
  <1> QED
    BY <1>1, <1>2 DEF Classified

LEMMA ClassifiedNext == IInv /\ [Next]_vars => Classified'
  <1> SUFFICES ASSUME IInv, [Next]_vars PROVE Classified'
    OBVIOUS
  <1>0. /\ Classified /\ {} \notin StatusSet
        /\ \A c \in Content : c # NullId /\ status[c] \in StatusSet \cup {{}}
    BY ContentAssumption DEF IInv, TypeOK, StatusSet
  <1>1. ASSUME NEW c \in Content, NEW new \in {{"DRAFT"}, {"PUBLISH"}}, Create(c, new)
        PROVE  Classified'
    <2>1. PICK publishedAt : Send("new", c, ApiOf[c], {}, new, now, publishedAt)
      BY <1>1 DEF Create
    <2>2. Change("new", {}, new) /\ new # {}
      BY DEF Change
    <2> QED
      BY <1>0, <2>1, <2>2, SendKeepsClassified
  <1>2. ASSUME NEW c \in Content, NEW new \in StatusSet, Edit(c, new)
        PROVE  Classified'
    <2>1. PICK publishedAt : /\ Send("edit", c, ApiOf[c], status[c], new, created[c], publishedAt)
                             /\ status[c] # {}
      BY <1>2 DEF Edit
    <2>2. Change("edit", status[c], new)
      BY <1>0, <2>1 DEF Change
    <2> QED
      BY <1>0, <2>1, <2>2, SendKeepsClassified
  <1>3. ASSUME NEW c \in Content, Delete(c)
        PROVE  Classified'
    <2>1. Change("delete", status[c], {})
      BY <1>0, <1>3 DEF Delete, Change
    <2> QED
      BY <1>0, <1>3, <2>1, SendKeepsClassified DEF Delete
  <1>4. ASSUME NEW c \in Content, NEW d \in Content, Rename(c, d)
        PROVE  Classified'
    <2>1. Change("edit", status[c], status[c])
      BY <1>0, <1>4 DEF Rename, Change
    <2> QED
      BY <1>0, <1>4, <2>1, SendKeepsClassified DEF Rename
  <1>5. ASSUME NEW a \in Api, ChangeApi(a)
        PROVE  Classified'
    <2>1. Change("edit", {}, {})
      BY DEF Change
    <2> QED
      BY <1>0, <1>5, <2>1, SendKeepsClassified DEF ChangeApi
  <1>6. ASSUME NEW w \in sent, Deliver(w)
        PROVE  Classified'
    <2> DEFINE e == NormalizePayload(w)
    <2>1. sent' \subseteq sent /\ events' = events \cup {e}
      BY <1>6 DEF Deliver
    <2>2. /\ e.content_id = w.content /\ e.event_type = w.type
          /\ e.event_kind = DeriveEventKind(w.type, w.old, w.new)
      BY DEF NormalizePayload
    <2> HIDE DEF e
    <2>3. IF e.content_id = NullId THEN e.event_kind = NoKind
          ELSE e.event_type \in {"new", "edit"}
                 <=> e.event_kind \in StateArrivals \cup Overlays \cup {NoKind}
      BY <1>0, <2>2, KindTellsType DEF Classified
    <2> QED
      BY <1>0, <2>1, <2>3 DEF Classified
  <1>7. ASSUME NEW w \in sent, Lose(w)
        PROVE  Classified'
    BY <1>0, <1>7 DEF Lose, Classified
  <1>8. CASE Tick \/ UNCHANGED vars
    BY <1>0, <1>8 DEF Tick, vars, Classified
  <1> QED
    BY <1>1, <1>2, <1>3, <1>4, <1>5, <1>6, <1>7, <1>8 DEF Next

-----------------------------------------------------------------------------
(* Times of creation.                                                      *)

(* A content gets a life more, or stays as it is.                          *)
LEMMA SendKeepsDated ==
    ASSUME IInv, NEW type, NEW id \in Content, NEW api, NEW old, NEW new, NEW createdAt, NEW publishedAt,
           Send(type, id, api, old, new, createdAt, publishedAt),
           createdAt = created'[id], createdAt # NullTime, lives'[id] >= 1,
           \A c \in Content : \/ lives'[c] = lives[c] /\ created'[c] = created[c]
                              \/ lives'[c] = lives[c] + 1,
           \A c \in Content : status'[c] # {} => lives'[c] >= 1 /\ created'[c] # NullTime
    PROVE  Dated'
  <1> DEFINE w == [id |-> changes + 1, content |-> id, api |-> api, type |-> type,
                   old |-> old, new |-> new, created |-> createdAt, published |-> publishedAt]
  <1>1. sent' = sent \cup {w} /\ events' = events
    BY DEF Send
  <1>2. w.content = id /\ w.created = createdAt
    OBVIOUS
  <1> HIDE DEF w
  <1>3. /\ Dated /\ \A c \in Content : lives[c] \in Nat
        /\ \A v \in sent : v.content \in Content \cup {NullId}
        /\ \A e \in events : e.content_id \in Content \cup {NullId}
    BY DEF IInv, TypeOK, EventOK, Webhook
  <1>4. ASSUME NEW c \in Content, NEW at, OneLife(c, at)
        PROVE  OneLife(c, at)'
    BY <1>3, <1>4 DEF OneLife
  <1>5. OneLife(id, {createdAt})'
    BY DEF OneLife
  <1>6. \A v \in sent' : v.content # NullId => OneLife(v.content, {v.created})' /\ v.created # NullTime
    BY <1>1, <1>2, <1>3, <1>4, <1>5 DEF Dated
  <1>7. \A e \in events' : e.content_id # NullId =>
           /\ OneLife(e.content_id, {e.draft_created_at, e.content_created_at})'
           /\ e.event_kind \in PublishActions => e.content_created_at # NullTime
    BY <1>1, <1>3, <1>4 DEF Dated
  <1> QED
    BY <1>6, <1>7 DEF Dated

LEMMA DatedNext == IInv /\ [Next]_vars => Dated'
  <1> SUFFICES ASSUME IInv, [Next]_vars PROVE Dated'
    OBVIOUS
  <1>0. /\ Dated /\ Classified /\ TypeOK
        /\ now \in Time /\ NullTime \notin Time
        /\ lives \in [Content -> Nat] /\ status \in [Content -> StatusSet \cup {{}}]
        /\ created \in [Content -> Time \cup {NullTime}]
    BY ContentAssumption DEF IInv, TypeOK, Time
  <1>1. ASSUME NEW c \in Content, NEW new \in {{"DRAFT"}, {"PUBLISH"}}, Create(c, new)
        PROVE  Dated'
    <2>1. PICK publishedAt : Send("new", c, ApiOf[c], {}, new, now, publishedAt)
      BY <1>1 DEF Create
    <2>2. /\ status' = [status EXCEPT ![c] = new] /\ created' = [created EXCEPT ![c] = now]
          /\ lives' = [lives EXCEPT ![c] = @ + 1]
      BY <1>1 DEF Create
    <2>3. \A d \in Content : /\ status'[d] = IF d = c THEN new ELSE status[d]
                             /\ created'[d] = IF d = c THEN now ELSE created[d]
                             /\ lives'[d] = IF d = c THEN lives[d] + 1 ELSE lives[d]
      BY <1>0, <2>2
    <2>4. now # NullTime /\ now = created'[c] /\ lives'[c] >= 1
      BY <1>0, <2>3
    <2>5. \A d \in Content : \/ lives'[d] = lives[d] /\ created'[d] = created[d]
                             \/ lives'[d] = lives[d] + 1
      BY <2>3
    <2>6. \A d \in Content : status'[d] # {} => lives'[d] >= 1 /\ created'[d] # NullTime
      BY <1>0, <2>3, <2>4 DEF Dated
    <2> QED
      BY <2>1, <2>4, <2>5, <2>6, SendKeepsDated
  <1>2. ASSUME NEW c \in Content, NEW new \in StatusSet, Edit(c, new)
        PROVE  Dated'
    <2>1. PICK publishedAt : Send("edit", c, ApiOf[c], status[c], new, created[c], publishedAt)
      BY <1>2 DEF Edit
    <2>2. /\ status[c] # {} /\ status' = [status EXCEPT ![c] = new]
          /\ created' = created /\ lives' = lives
      BY <1>2 DEF Edit
    <2>3. created[c] # NullTime /\ lives[c] >= 1
      BY <1>0, <2>2 DEF Dated
    <2>4. \A d \in Content : status'[d] # {} => lives'[d] >= 1 /\ created'[d] # NullTime
      BY <1>0, <2>2, <2>3 DEF Dated
    <2> QED
      BY <2>1, <2>2, <2>3, <2>4, SendKeepsDated
  <1>3. ASSUME NEW c \in Content, Delete(c)
        PROVE  Dated'
    <2>1. /\ status[c] # {} /\ status' = [status EXCEPT ![c] = {}]
          /\ created' = created /\ lives' = lives
          /\ Send("delete", c, ApiOf[c], status[c], {}, created[c], published[c])
      BY <1>3 DEF Delete
    <2>2. created[c] # NullTime /\ lives[c] >= 1
      BY <1>0, <2>1 DEF Dated
    <2>3. \A d \in Content : status'[d] # {} => lives'[d] >= 1 /\ created'[d] # NullTime
      BY <1>0, <2>1 DEF Dated
    <2> QED
      BY <2>1, <2>2, <2>3, SendKeepsDated
  <1>4. ASSUME NEW c \in Content, NEW d \in Content, Rename(c, d)
        PROVE  Dated'
    <2>1. /\ status[c] # {} /\ status' = [status EXCEPT ![c] = {}, ![d] = status[c]]
          /\ created' = [created EXCEPT ![d] = created[c]]
          /\ lives' = [lives EXCEPT ![d] = @ + 1]
          /\ Send("edit", d, ApiOf[d], status[c], status[c], created[c], published[c])
      BY <1>4 DEF Rename
    <2>2. \A x \in Content : /\ status'[x] # {} => x = d \/ status[x] # {}
                             /\ created'[x] = IF x = d THEN created[c] ELSE created[x]
                             /\ lives'[x] = IF x = d THEN lives[x] + 1 ELSE lives[x]
      BY <1>0, <2>1
    <2>3. created[c] # NullTime /\ created[c] = created'[d] /\ lives'[d] >= 1
      BY <1>0, <2>1, <2>2 DEF Dated
    <2>4. \A x \in Content : \/ lives'[x] = lives[x] /\ created'[x] = created[x]
                             \/ lives'[x] = lives[x] + 1
      BY <2>2
    <2>5. \A x \in Content : status'[x] # {} => lives'[x] >= 1 /\ created'[x] # NullTime
      BY <1>0, <2>2, <2>3 DEF Dated
    <2> QED
      BY <2>1, <2>3, <2>4, <2>5, SendKeepsDated
  <1>5. ASSUME NEW a \in Api, ChangeApi(a)
        PROVE  Dated'
    <2> DEFINE w == [id |-> changes + 1, content |-> NullId, api |-> a, type |-> "edit", old |-> {},
                     new |-> {}, created |-> NullTime, published |-> NullTime]
    <2>1. sent' = sent \cup {w} /\ UNCHANGED <<events, status, created, lives>>
      BY <1>5 DEF ChangeApi, Send
    <2>2. w.content = NullId
      OBVIOUS
    <2> HIDE DEF w
    <2> QED
      BY <1>0, <2>1, <2>2 DEF Dated, OneLife
  <1>6. ASSUME NEW w \in sent, Deliver(w)
        PROVE  Dated'
    <2> DEFINE e == NormalizePayload(w)
    <2>1. sent' \subseteq sent /\ events' = events \cup {e} /\ UNCHANGED <<status, created, lives>>
      BY <1>6 DEF Deliver, cms
    <2>2. /\ e.content_id = w.content
          /\ {e.draft_created_at, e.content_created_at} \subseteq {NullTime, w.created}
          /\ Live(w.new) => e.content_created_at = w.created
          /\ e.event_kind = DeriveEventKind(w.type, w.old, w.new)
      BY DEF NormalizePayload
    <2> HIDE DEF e
    <2>3. e.event_kind \in PublishActions => Live(w.new)
      BY <1>0, <2>2, KindTellsLiveness DEF Classified
    <2>4. e.content_id # NullId =>
            /\ OneLife(e.content_id, {e.draft_created_at, e.content_created_at})
            /\ e.event_kind \in PublishActions => e.content_created_at # NullTime
      BY <1>0, <2>2, <2>3 DEF Dated, OneLife
    <2> QED
      BY <1>0, <2>1, <2>4 DEF Dated, OneLife
  <1>7. ASSUME NEW w \in sent, Lose(w)
        PROVE  Dated'
    BY <1>0, <1>7 DEF Lose, cms, Dated, OneLife
  <1>8. CASE Tick \/ UNCHANGED vars
    BY <1>0, <1>8 DEF Tick, vars, cms, Dated, OneLife
  <1> QED
    BY <1>1, <1>2, <1>3, <1>4, <1>5, <1>6, <1>7, <1>8 DEF Next

-----------------------------------------------------------------------------
(* The balance.                                                            *)

LEMMA SendKeepsInv ==
    ASSUME IInv, NEW type, NEW id, NEW api, NEW old, NEW new, NEW createdAt, NEW publishedAt,
           Change(type, old, new),
           Send(type, id, api, old, new, createdAt, publishedAt),
           Cardinality(Online') + Count(Live(old) /\ ~Live(new))
             = Cardinality(Online) + Count(Live(new) /\ ~Live(old))
    PROVE  Distinct' /\ Balance'
  <1> DEFINE w == [id |-> changes + 1, content |-> id, api |-> api, type |-> type,
                   old |-> old, new |-> new, created |-> createdAt, published |-> publishedAt]
  <1>1. /\ Distinct /\ Balance /\ changes \in Nat
        /\ changes' = changes + 1 /\ sent' = sent \cup {w} /\ lost' = lost /\ events' = events
    BY DEF IInv, TypeOK, Send
  <1>2. w.id = changes + 1 /\ KindOf(w) = DeriveEventKind(type, old, new)
    BY DEF KindOf
  <1> HIDE DEF w
  <1>3. Distinct'
    <2>1. IsFiniteSet(sent')
      BY <1>1, FS_AddElement DEF Distinct
    <2>2. w \notin lost /\ \A v \in sent : v.id # w.id
      BY <1>1, <1>2 DEF Distinct
    <2>3. \A v \in sent' \cup lost' : v.id \in 1 .. changes'
      BY <1>1, <1>2 DEF Distinct
    <2>4. \A e \in events' : e.id \in 1 .. changes' /\ e.id # w.id
      BY <1>1, <1>2 DEF Distinct
    <2> QED
      BY <1>1, <2>1, <2>2, <2>3, <2>4 DEF Distinct
  <1>4. Balance'
    <2>1. /\ Cardinality(Missing(PublishActions)') = Cardinality(Missing(PublishActions)) + Count(Live(new) /\ ~Live(old))
          /\ Cardinality(Missing(Ends)') = Cardinality(Missing(Ends)) + Count(Live(old) /\ ~Live(new))
      <3>1. /\ KindOf(w) \in PublishActions <=> Live(new) /\ ~Live(old)
            /\ KindOf(w) \in Ends <=> Live(old) /\ ~Live(new)
        BY <1>2, KindTellsLiveness
      <3>2. /\ Cardinality(Missing(PublishActions)') = Cardinality(Missing(PublishActions)) + Count(KindOf(w) \in PublishActions)
            /\ Cardinality(Missing(Ends)') = Cardinality(Missing(Ends)) + Count(KindOf(w) \in Ends)
        BY <1>1, <1>2, SendCounts
      <3> QED
        BY <3>1, <3>2 DEF Count
    <2>2. /\ OfKind(events, PublishActions)' = OfKind(events, PublishActions)
          /\ OfKind(events, Ends)' = OfKind(events, Ends)
      BY <1>1 DEF OfKind, PublishActions, Ends
    <2>3. /\ Cardinality(OfKind(events, PublishActions)) \in Nat /\ Cardinality(OfKind(events, Ends)) \in Nat
          /\ Cardinality(Missing(PublishActions)) \in Nat /\ Cardinality(Missing(Ends)) \in Nat
          /\ Cardinality(Online) \in Nat /\ Cardinality(Online') \in Nat
      BY <1>1, <1>3, FiniteParts, OnlineFinite
    <2> QED
      BY <1>1, <2>1, <2>2, <2>3 DEF Balance, Count
  <1> QED
    BY <1>3, <1>4

(* What does not touch events, webhooks and statuses.                      *)
LEMMA SameBalance ==
    ASSUME IInv, UNCHANGED <<cms, events>>, sent' \cup lost' = sent \cup lost, sent' \subseteq sent,
           sent' \cap lost' = {}, IsFiniteSet(lost')
    PROVE  Distinct' /\ Balance'
  <1>1. UNCHANGED <<status, changes>>
    BY DEF cms
  <1>2. Distinct'
    <2>1. IsFiniteSet(sent')
      BY FS_Subset DEF IInv, Distinct
    <2> QED
      BY <1>1, <2>1 DEF IInv, Distinct
  <1>3. Missing(PublishActions)' = Missing(PublishActions) /\ Missing(Ends)' = Missing(Ends)
    BY DEF Missing, PublishActions, Ends
  <1>4. Online' = Online
    BY <1>1 DEF Online
  <1> QED
    BY <1>2, <1>3, <1>4 DEF IInv, Balance, OfKind, PublishActions, Ends

LEMMA InvInit == Init => IInv
  <1> SUFFICES ASSUME Init PROVE IInv
    OBVIOUS
  <1>1. sent = {} /\ lost = {} /\ events = {} /\ Online = {}
    BY DEF Init, Online, Live
  <1>2. Distinct
    BY <1>1, FS_EmptySet DEF Distinct
  <1>3. OfKind(events, PublishActions) = {} /\ OfKind(events, Ends) = {}
        /\ Missing(PublishActions) = {} /\ Missing(Ends) = {}
    BY <1>1 DEF OfKind, Missing
  <1>4. Balance
    BY <1>1, <1>3, FS_EmptySet DEF Balance
  <1>5. Classified /\ Dated
    BY <1>1 DEF Init, Classified, Dated
  <1> QED
    BY <1>2, <1>4, <1>5, TypeInit DEF IInv

LEMMA InvNext == IInv /\ [Next]_vars => IInv'
  <1> SUFFICES ASSUME IInv, [Next]_vars PROVE Distinct' /\ Balance'
    BY TypeNext, ClassifiedNext, DatedNext DEF IInv
  <1>0. TypeOK /\ Distinct /\ Balance
    BY DEF IInv
  <1>1. CASE Tick
    BY <1>0, <1>1, SameBalance DEF Tick, Distinct
  <1>2. ASSUME NEW c \in Content, NEW new \in {{"DRAFT"}, {"PUBLISH"}}, Create(c, new)
        PROVE  Distinct' /\ Balance'
    <2>1. PICK publishedAt : /\ Send("new", c, ApiOf[c], {}, new, now, publishedAt)
                             /\ status[c] = {} /\ status' = [status EXCEPT ![c] = new]
      BY <1>2 DEF Create
    <2>2. Change("new", {}, new)
      BY DEF Change
    <2> QED
      BY <1>0, <2>1, <2>2, OnlineCounts, SendKeepsInv
  <1>3. ASSUME NEW c \in Content, NEW new \in StatusSet, Edit(c, new)
        PROVE  Distinct' /\ Balance'
    <2>1. PICK publishedAt : /\ Send("edit", c, ApiOf[c], status[c], new, created[c], publishedAt)
                             /\ status[c] # {} /\ status' = [status EXCEPT ![c] = new]
      BY <1>3 DEF Edit
    <2>2. Change("edit", status[c], new)
      BY <1>0, <2>1 DEF Change, TypeOK
    <2> QED
      BY <1>0, <2>1, <2>2, OnlineCounts, SendKeepsInv
  <1>4. ASSUME NEW c \in Content, Delete(c)
        PROVE  Distinct' /\ Balance'
    <2>1. /\ Send("delete", c, ApiOf[c], status[c], {}, created[c], published[c])
          /\ status[c] # {} /\ status' = [status EXCEPT ![c] = {}]
      BY <1>4 DEF Delete
    <2>2. Change("delete", status[c], {})
      BY <1>0, <2>1 DEF Change, TypeOK
    <2> QED
      BY <1>0, <2>1, <2>2, OnlineCounts, SendKeepsInv
  <1>5. ASSUME NEW c \in Content, NEW d \in Content, Rename(c, d)
        PROVE  Distinct' /\ Balance'
    <2>1. /\ Send("edit", d, ApiOf[d], status[c], status[c], created[c], published[c])
          /\ status[c] # {} /\ status[d] = {}
          /\ status' = [status EXCEPT ![c] = {}, ![d] = status[c]]
      BY <1>5 DEF Rename
    <2>2. Change("edit", status[c], status[c])
      BY <1>0, <2>1 DEF Change, TypeOK
    <2>3. Cardinality(Online') = Cardinality(Online)
      BY <1>0, <2>1, RenameCounts
    <2>4. Cardinality(Online') + Count(Live(status[c]) /\ ~Live(status[c]))
            = Cardinality(Online) + Count(Live(status[c]) /\ ~Live(status[c]))
      BY <2>3
    <2> QED
      BY <2>1, <2>2, <2>4, SendKeepsInv
  <1>6. ASSUME NEW a \in Api, ChangeApi(a)
        PROVE  Distinct' /\ Balance'
    <2>1. Send("edit", NullId, a, {}, {}, NullTime, NullTime) /\ status' = status
      BY <1>6 DEF ChangeApi
    <2>2. Change("edit", {}, {}) /\ Online' = Online
      BY <2>1 DEF Change, Online
    <2>3. Cardinality(Online') + Count(Live({}) /\ ~Live({}))
            = Cardinality(Online) + Count(Live({}) /\ ~Live({}))
      BY <2>2
    <2> QED
      BY <2>1, <2>2, <2>3, SendKeepsInv
  <1>7. ASSUME NEW w \in sent, Deliver(w)
        PROVE  Distinct' /\ Balance'
    <2> DEFINE e == NormalizePayload(w)
    <2>1. /\ sent' = sent \ {w} /\ events' = events \cup {e} /\ lost' = lost
          /\ changes' = changes /\ status' = status
      BY <1>7 DEF Deliver, cms
    <2>2. e.id = w.id /\ e.event_kind = KindOf(w)
      BY DEF NormalizePayload, KindOf
    <2> HIDE DEF e
    <2>3. Distinct'
      <3>1. IsFiniteSet(sent') /\ IsFiniteSet(events')
        BY <1>0, <2>1, FS_RemoveElement, FS_AddElement DEF Distinct
      <3>2. \A v \in sent' : v.id # e.id
        BY <1>0, <2>1, <2>2 DEF Distinct
      <3> QED
        BY <1>0, <2>1, <2>2, <3>1, <3>2 DEF Distinct
    <2>4. /\ Cardinality(OfKind(events, PublishActions)') + Cardinality(Missing(PublishActions)')
               = Cardinality(OfKind(events, PublishActions)) + Cardinality(Missing(PublishActions))
          /\ Cardinality(OfKind(events, Ends)') + Cardinality(Missing(Ends)')
               = Cardinality(OfKind(events, Ends)) + Cardinality(Missing(Ends))
      BY <1>0, <2>1, <2>2, DeliverCounts
    <2>5. Online' = Online
      BY <2>1 DEF Online
    <2> QED
      BY <1>0, <2>3, <2>4, <2>5 DEF Balance
  <1>8. ASSUME NEW w \in sent, Lose(w)
        PROVE  Distinct' /\ Balance'
    <2>1. UNCHANGED <<cms, events>> /\ sent' = sent \ {w} /\ lost' = lost \cup {w}
      BY <1>8 DEF Lose
    <2>2. IsFiniteSet(lost')
      BY <1>0, <2>1, FS_AddElement DEF Distinct
    <2>3. sent' \cap lost' = {} /\ sent' \cup lost' = sent \cup lost
      BY <1>0, <2>1 DEF Distinct
    <2> QED
      BY <2>1, <2>2, <2>3, SameBalance
  <1>9. CASE UNCHANGED vars
    BY <1>0, <1>9, SameBalance DEF vars, Distinct
  <1> QED
    BY <1>1, <1>2, <1>3, <1>4, <1>5, <1>6, <1>7, <1>8, <1>9 DEF Next

-----------------------------------------------------------------------------
(* Metrics that agree: what happened by day, by API and by kind are parts  *)
(* of what happened.                                                       *)

LEMMA KindsAreFinite ==
    IsFiniteSet(Kind) /\ IsFiniteSet(PublishActions) /\ PublishActions \subseteq Kind
  <1>1. /\ Kind \subseteq {"INITIAL_DRAFT", "INITIAL_PUBLISH", "SAVE_DRAFT", "PUBLISH_FROM_DRAFT"}
                     \cup {"UPDATE_PUBLISHED", "UNPUBLISH_TO_DRAFT", "UNPUBLISH_TO_CLOSED", "REOPEN_TO_DRAFT"}
                     \cup {"REPUBLISH_FROM_CLOSED", "DELETE_DRAFT", "DELETE_PUBLISHED", "DELETE_CLOSED"}
                     \cup {"ADD_DRAFT_TO_PUBLISHED", "DISCARD_DRAFT_ON_PUBLISHED"}
        /\ PublishActions \subseteq Kind
    BY KindsByName DEF PublishActions
  <1>2. IsFiniteSet(Kind)
    <2> DEFINE first == {"INITIAL_DRAFT", "INITIAL_PUBLISH", "SAVE_DRAFT", "PUBLISH_FROM_DRAFT"}
               second == {"UPDATE_PUBLISHED", "UNPUBLISH_TO_DRAFT", "UNPUBLISH_TO_CLOSED", "REOPEN_TO_DRAFT"}
               third == {"REPUBLISH_FROM_CLOSED", "DELETE_DRAFT", "DELETE_PUBLISHED", "DELETE_CLOSED"}
               fourth == {"ADD_DRAFT_TO_PUBLISHED", "DISCARD_DRAFT_ON_PUBLISHED"}
    <2>1. IsFiniteSet(first) /\ IsFiniteSet(second) /\ IsFiniteSet(third)
      BY FiniteFour
    <2>2. IsFiniteSet(fourth)
      BY FiniteFour
    <2>3. Kind \subseteq first \cup second \cup third \cup fourth
      BY <1>1
    <2> HIDE DEF first, second, third, fourth
    <2>4. IsFiniteSet(first \cup second)
      BY <2>1, FS_Union
    <2>5. IsFiniteSet(first \cup second \cup third)
      BY <2>1, <2>4, FS_Union
    <2>6. IsFiniteSet(first \cup second \cup third \cup fourth)
      BY <2>2, <2>5, FS_Union
    <2> QED
      BY <2>3, <2>6, FS_Subset
  <1> QED
    BY <1>1, <1>2, FS_Subset

LEMMA PartsAreFinite ==
    ASSUME NEW E, IsFiniteSet(E)
    PROVE  /\ \A days : IsFiniteSet(During(E, days))
           /\ \A kinds : IsFiniteSet(OfKind(E, kinds))
  BY FS_Subset DEF During, OfKind

LEMMA ApisAreFinite ==
    ASSUME NEW E, IsFiniteSet(E)
    PROVE  IsFiniteSet({e.api : e \in E})
  <1> DEFINE f == [e \in E |-> e.api]
  <1>1. {e.api : e \in E} = {f[e] : e \in E}
    OBVIOUS
  <1> HIDE DEF f
  <1> QED
    BY <1>1, FiniteImage

LEMMA DaysAddUp ==
    ASSUME NEW E, IsFiniteSet(E), NEW days, IsFiniteSet(days)
    PROVE  Total(CalendarHeatmap(E, days)) = Cardinality(During(E, days))
  <1> DEFINE part == [d \in days |-> During(E, {d})]
             f == CalendarHeatmap(E, days)
  <1>1. DOMAIN f = days /\ \A d \in days : f[d] = Cardinality(part[d])
    BY DEF CalendarHeatmap
  <1>2. \A d \in days : IsFiniteSet(part[d])
    BY PartsAreFinite
  <1>3. \A c, d \in days : c # d => part[c] \cap part[d] = {}
    BY DEF During
  <1>4. UNION {part[d] : d \in days} = During(E, days)
    BY DEF During
  <1> HIDE DEF f, part
  <1>5. Total(f) = Cardinality(UNION {part[d] : d \in days})
    BY <1>1, <1>2, <1>3, TotalOfParts
  <1> QED
    BY <1>4, <1>5 DEF f

LEMMA ApisAddUp ==
    ASSUME NEW E, IsFiniteSet(E), NEW days
    PROVE  Total([a \in DOMAIN ApiActivity(E, days) |-> ApiActivity(E, days)[a].total])
             = Cardinality(During(E, days))
  <1> DEFINE apis == {e.api : e \in During(E, days)}
             part == [a \in apis |-> {e \in During(E, days) : e.api = a}]
             f == [a \in DOMAIN ApiActivity(E, days) |-> ApiActivity(E, days)[a].total]
  <1>1. DOMAIN f = apis /\ \A a \in apis : f[a] = Cardinality(part[a])
    BY DEF ApiActivity
  <1>2. IsFiniteSet(During(E, days))
    BY PartsAreFinite
  <1>3. IsFiniteSet(apis) /\ \A a \in apis : IsFiniteSet(part[a])
    BY <1>2, ApisAreFinite, FS_Subset
  <1>4. \A a, b \in apis : a # b => part[a] \cap part[b] = {}
    OBVIOUS
  <1>5. UNION {part[a] : a \in apis} = During(E, days)
    <2>1. \A a \in apis : part[a] \subseteq During(E, days)
      OBVIOUS
    <2>2. \A e \in During(E, days) : e.api \in apis /\ e \in part[e.api]
      OBVIOUS
    <2> HIDE DEF part, apis
    <2> QED
      BY <2>1, <2>2
  <1> HIDE DEF f, part, apis
  <1>6. Total(f) = Cardinality(UNION {part[a] : a \in apis})
    BY <1>1, <1>3, <1>4, TotalOfParts
  <1> QED
    BY <1>5, <1>6 DEF f

LEMMA KindsAddUp ==
    ASSUME NEW E, IsFiniteSet(E), NEW kinds, IsFiniteSet(kinds)
    PROVE  Total([k \in kinds |-> Cardinality(OfKind(E, {k}))]) = Cardinality(OfKind(E, kinds))
  <1> DEFINE part == [k \in kinds |-> OfKind(E, {k})]
             f == [k \in kinds |-> Cardinality(OfKind(E, {k}))]
  <1>1. DOMAIN f = kinds /\ \A k \in kinds : f[k] = Cardinality(part[k])
    OBVIOUS
  <1>2. \A k \in kinds : IsFiniteSet(part[k])
    BY PartsAreFinite
  <1>3. \A k, l \in kinds : k # l => part[k] \cap part[l] = {}
    BY DEF OfKind
  <1>4. UNION {part[k] : k \in kinds} = OfKind(E, kinds)
    BY DEF OfKind
  <1> HIDE DEF f, part
  <1>5. Total(f) = Cardinality(UNION {part[k] : k \in kinds})
    BY <1>1, <1>2, <1>3, TotalOfParts
  <1> QED
    BY <1>4, <1>5 DEF f

LEMMA TrendAddsUp ==
    ASSUME NEW E, IsFiniteSet(E), NEW days, IsFiniteSet(days)
    PROVE  Total([d \in days |-> Total(PublishActionTrend(E, days)[d])])
             = PublishActionSummary(E, days).publish
  <1> DEFINE part == [d \in days |-> OfKind(During(E, {d}), PublishActions)]
             f == [d \in days |-> Total(PublishActionTrend(E, days)[d])]
  <1>1. ASSUME NEW d \in days
        PROVE  f[d] = Cardinality(part[d]) /\ IsFiniteSet(part[d])
    <2>1. IsFiniteSet(During(E, {d}))
      BY PartsAreFinite
    <2>2. PublishActionTrend(E, days)[d]
            = [k \in PublishActions |-> Cardinality(OfKind(During(E, {d}), {k}))]
      BY DEF PublishActionTrend
    <2>3. f[d] = Cardinality(OfKind(During(E, {d}), PublishActions))
      BY <2>1, <2>2, KindsAddUp, KindsAreFinite
    <2> QED
      BY <2>1, <2>3, PartsAreFinite
  <1>2. \A c, d \in days : c # d => part[c] \cap part[d] = {}
    BY DEF During, OfKind
  <1>3. UNION {part[d] : d \in days} = OfKind(During(E, days), PublishActions)
    BY DEF During, OfKind
  <1>4. DOMAIN f = days
    OBVIOUS
  <1> HIDE DEF f, part
  <1>5. Total(f) = Cardinality(UNION {part[d] : d \in days})
    BY <1>1, <1>2, <1>4, TotalOfParts
  <1> QED
    BY <1>3, <1>5 DEF f, PublishActionSummary

LEMMA ActivityAddsUp ==
    ASSUME NEW E, IsFiniteSet(E), NEW days
    PROVE  Total([a \in DOMAIN ApiActivity(E, days) |-> Total(ApiActivity(E, days)[a].count)])
             = Cardinality(OfKind(During(E, days), Kind))
  <1> DEFINE apis == {e.api : e \in During(E, days)}
             Rows(a) == {e \in During(E, days) : e.api = a}
             part == [a \in apis |-> OfKind(Rows(a), Kind)]
             f == [a \in DOMAIN ApiActivity(E, days) |-> Total(ApiActivity(E, days)[a].count)]
  <1>1. IsFiniteSet(During(E, days))
    BY PartsAreFinite
  <1>2. IsFiniteSet(apis) /\ DOMAIN f = apis
    BY <1>1, ApisAreFinite DEF ApiActivity
  <1>3. ASSUME NEW a \in apis
        PROVE  f[a] = Cardinality(part[a]) /\ IsFiniteSet(part[a])
    <2>1. IsFiniteSet(Rows(a))
      BY <1>1, FS_Subset
    <2>2. ApiActivity(E, days)[a].count = [k \in Kind |-> Cardinality(OfKind(Rows(a), {k}))]
      BY DEF ApiActivity
    <2> HIDE DEF Rows
    <2>3. f[a] = Cardinality(OfKind(Rows(a), Kind))
      BY <1>2, <2>1, <2>2, KindsAddUp, KindsAreFinite
    <2> QED
      BY <2>1, <2>3, PartsAreFinite
  <1>4. \A a, b \in apis : a # b => part[a] \cap part[b] = {}
    BY DEF OfKind
  <1>5. UNION {part[a] : a \in apis} = OfKind(During(E, days), Kind)
    <2>1. \A a \in apis : part[a] \subseteq OfKind(During(E, days), Kind)
      BY DEF OfKind
    <2>2. \A e \in OfKind(During(E, days), Kind) : e.api \in apis /\ e \in part[e.api]
      BY DEF OfKind
    <2> HIDE DEF part, apis
    <2> QED
      BY <2>1, <2>2
  <1> HIDE DEF f, part, apis
  <1>6. Total(f) = Cardinality(UNION {part[a] : a \in apis})
    BY <1>2, <1>3, <1>4, TotalOfParts
  <1> QED
    BY <1>5, <1>6 DEF f

-----------------------------------------------------------------------------
(***************************************************************************)
(* Whatever is on its way or lost, the invariant holds.                    *)
(***************************************************************************)
THEOREM Invariant == Spec => []IInv
  BY InvInit, InvNext, PTL DEF Spec

(***************************************************************************)
(* Types; in particular events lie under the day they were received on.    *)
(***************************************************************************)
THEOREM TypeCorrect == Spec => []TypeOK
  <1>1. IInv => TypeOK
    BY DEF IInv
  <1> QED
    BY <1>1, Invariant, PTL

(***************************************************************************)
(* For any contents, changes and order of arrival, publications less ends  *)
(* are the live contents once every webhook has arrived                    *)
(* (event_kind.rs:28-69, publish_actions.rs:29-33).                        *)
(***************************************************************************)
THEOREM LiveIsCounted == Spec => []LiveBalance
  <1>1. ASSUME IInv, sent \cup lost = {}
        PROVE  Cardinality(OfKind(events, PublishActions)) - Cardinality(OfKind(events, Ends))
                 = Cardinality(Online)
    <2>1. Missing(PublishActions) = {} /\ Missing(Ends) = {}
      BY <1>1 DEF Missing
    <2>2. Cardinality(Missing(PublishActions)) = 0 /\ Cardinality(Missing(Ends)) = 0
      BY <2>1, FS_EmptySet
    <2> QED
      BY <1>1, <2>2, FiniteParts DEF IInv, Balance
  <1>2. IInv => LiveBalance
    BY <1>1 DEF LiveBalance
  <1> QED
    BY <1>2, Invariant, PTL

(***************************************************************************)
(* For any length of a day and any offset of JST a query over a range      *)
(* covers the events received in it (s3_key.rs:20-26, query.rs:20-33).     *)
(***************************************************************************)
THEOREM NothingFallsBetween == Spec => []RangeCoversItsEvents
  <1>1. ASSUME TypeOK, NEW r \in Ranges, NEW e \in events,
               r[1] <= e.received_at, e.received_at <= r[2]
        PROVE  e \in During(events, Window(r[1], r[2]))
    <2>1. r[1] \in Time /\ r[2] \in Time /\ e.received_at \in Time /\ e.dt = Day(e.received_at)
      BY <1>1 DEF Ranges, TypeOK, EventOK
    <2>2. e.dt \in Day(r[1]) .. Day(r[2])
      BY <1>1, <2>1, DaysGrow
    <2> QED
      BY <2>2 DEF During, Window
  <1>2. TypeOK => RangeCoversItsEvents
    BY <1>1 DEF RangeCoversItsEvents
  <1> QED
    BY <1>2, TypeCorrect, PTL

(***************************************************************************)
(* For any events in any range, the days of the heatmap and of the trend   *)
(* add up to the totals per API and to the summary, and no event has two   *)
(* kinds (calendar_heatmap.rs, api_activity.rs, publish_actions.rs).       *)
(***************************************************************************)
THEOREM MetricsAgree == Spec => []CountsAgree
  <1>1. ASSUME IInv, NEW r \in Ranges
        PROVE  LET days == Window(r[1], r[2])
                   activity == ApiActivity(events, days)
                   trend == PublishActionTrend(events, days)
                   unknown == OfKind(During(events, days), {NoKind})
               IN  /\ Total(CalendarHeatmap(events, days))
                        = Total([a \in DOMAIN activity |-> activity[a].total])
                   /\ Total([d \in days |-> Total(trend[d])])
                        = PublishActionSummary(events, days).publish
                   /\ Total([a \in DOMAIN activity |-> Total(activity[a].count)])
                        = Cardinality(During(events, days)) - Cardinality(unknown)
    <2> DEFINE days == Window(r[1], r[2])
               known == OfKind(During(events, days), Kind)
               unknown == OfKind(During(events, days), {NoKind})
    <2>1. IsFiniteSet(events) /\ IsFiniteSet(days)
      BY <1>1, WindowIsFinite DEF IInv, Distinct
    <2>2. Cardinality(known) = Cardinality(During(events, days)) - Cardinality(unknown)
      <3>1. known \cup unknown = During(events, days)
        BY <1>1 DEF IInv, TypeOK, EventOK, OfKind, During
      <3>2. known \cap unknown = {}
        BY KindsByName DEF OfKind, NoKind
      <3>3. IsFiniteSet(known) /\ IsFiniteSet(unknown)
        BY <2>1, PartsAreFinite
      <3> HIDE DEF known, unknown
      <3> QED
        BY <3>1, <3>2, <3>3, DisjointUnion
    <2> HIDE DEF days
    <2>3. Total(CalendarHeatmap(events, days))
            = Total([a \in DOMAIN ApiActivity(events, days) |-> ApiActivity(events, days)[a].total])
      BY <2>1, DaysAddUp, ApisAddUp
    <2>4. Total([d \in days |-> Total(PublishActionTrend(events, days)[d])])
            = PublishActionSummary(events, days).publish
      BY <2>1, TrendAddsUp
    <2>5. Total([a \in DOMAIN ApiActivity(events, days) |-> Total(ApiActivity(events, days)[a].count)])
            = Cardinality(During(events, days)) - Cardinality(unknown)
      BY <2>1, <2>2, ActivityAddsUp
    <2> QED
      BY <2>3, <2>4, <2>5 DEF days
  <1>2. IInv => CountsAgree
    BY <1>1 DEF CountsAgree
  <1> QED
    BY <1>2, Invariant, PTL

-----------------------------------------------------------------------------
(* The ranking against the counts.                                         *)

LEMMA EventsAreChanges ==
    ASSUME IInv
    PROVE  IsFiniteSet(events) /\ Cardinality(events) <= MaxChanges
  <1> DEFINE f == [e \in events |-> e.id]
  <1>1. IsFiniteSet(events) /\ changes \in Nat /\ changes <= MaxChanges
    BY ContentAssumption DEF IInv, TypeOK, Distinct
  <1>2. f \in Injection(events, 1 .. changes)
    BY DEF IInv, Distinct, Injection, IsInjective
  <1>3. IsFiniteSet(1 .. changes) /\ Cardinality(1 .. changes) = changes
    BY <1>1, FS_Interval
  <1> HIDE DEF f
  <1>4. Cardinality(events) <= changes
    BY <1>2, <1>3, FS_Injection
  <1>5. Cardinality(events) \in Nat
    BY <1>1, FS_CardinalityType
  <1> QED
    BY <1>1, <1>4, <1>5, ContentAssumption

LEMMA UpdatesByKind ==
    ASSUME IInv, NEW days
    PROVE  LET nameless == {e \in OfKind(During(events, days), {NoKind}) : e.content_id # NullId}
           IN  Cardinality(Updates(events, days))
                 = PublishActionSummary(events, days).state_arrival
                     + Cardinality(OfKind(During(events, days), Overlays))
                     + Cardinality(nameless)
  <1> DEFINE arrivals == OfKind(During(events, days), StateArrivals)
             overlays == OfKind(During(events, days), Overlays)
             nameless == {e \in OfKind(During(events, days), {NoKind}) : e.content_id # NullId}
  <1>1. /\ NoKind \notin StateArrivals /\ NoKind \notin Overlays
        /\ StateArrivals \cap Overlays = {}
    BY DEF StateArrivals, PublishedStates, PublishActions, Overlays, NoKind
  <1>2. Updates(events, days) = (arrivals \cup overlays) \cup nameless
    BY <1>1 DEF IInv, Classified, Updates, OfKind, During
  <1>3. arrivals \cap overlays = {} /\ (arrivals \cup overlays) \cap nameless = {}
    BY <1>1 DEF OfKind
  <1>4. IsFiniteSet(arrivals) /\ IsFiniteSet(overlays) /\ IsFiniteSet(nameless)
    BY FS_Subset DEF IInv, Distinct, OfKind, During
  <1>5. PublishActionSummary(events, days).state_arrival = Cardinality(arrivals)
    BY DEF PublishActionSummary
  <1> HIDE DEF arrivals, overlays, nameless
  <1>6. /\ IsFiniteSet(arrivals \cup overlays)
        /\ Cardinality(arrivals \cup overlays) = Cardinality(arrivals) + Cardinality(overlays)
    BY <1>3, <1>4, DisjointUnion
  <1>7. Cardinality(Updates(events, days)) = Cardinality(arrivals \cup overlays) + Cardinality(nameless)
    BY <1>2, <1>3, <1>4, <1>6, DisjointUnion
  <1> QED
    BY <1>5, <1>6, <1>7 DEF overlays, nameless

(***************************************************************************)
(* For any contents, changes and order of arrival, the ranking of contents *)
(* by the type of their events adds up to the arrivals and overlays that   *)
(* other metrics count by kind, and its first is not below the average     *)
(* (top_updated_contents.rs:16-32, publish_actions.rs:29-33).              *)
(***************************************************************************)
THEOREM RankingAgrees == Spec => []UpdatesAreArrivals
  <1>1. ASSUME IInv, NEW r \in Ranges
        PROVE  LET days == Window(r[1], r[2])
                   all == CHOOSE top \in TopUpdatedContents(events, days, MaxChanges) : TRUE
                   updates == Total([row \in all |-> row.count])
                   nameless == {e \in OfKind(During(events, days), {NoKind}) : e.content_id # NullId}
               IN  /\ updates = PublishActionSummary(events, days).state_arrival
                                  + Cardinality(OfKind(During(events, days), Overlays))
                                  + Cardinality(nameless)
                   /\ \A top \in TopUpdatedContents(events, days, 1) : \A first \in top :
                          first.count * Cardinality({ContentOf(e) : e \in Updates(events, days)})
                            >= updates
    <2> DEFINE days == Window(r[1], r[2])
               all == CHOOSE top \in TopUpdatedContents(events, days, MaxChanges) : TRUE
               updates == Total([row \in all |-> row.count])
    <2>1. IsFiniteSet(events) /\ Cardinality(events) <= MaxChanges /\ MaxChanges \in Nat
      BY <1>1, EventsAreChanges, ContentAssumption
    <2> HIDE DEF days
    <2>2. all = RankedContents(events, days)
      <3>1. all \in TopUpdatedContents(events, days, MaxChanges)
        BY <2>1, RankingExists
      <3> HIDE DEF all
      <3> QED
        BY <2>1, <3>1, FullRanking
    <2>3. updates = Cardinality(Updates(events, days))
      <3> DEFINE f == [row \in RankedContents(events, days) |-> row.count]
      <3>1. DOMAIN f = RankedContents(events, days)
        OBVIOUS
      <3>2. updates = Total(f)
        BY <2>2
      <3>3. Total(f) = SumOf(f, DOMAIN f)
        BY DEF Total, SumOf
      <3>4. SumOf(f, RankedContents(events, days)) = Cardinality(Updates(events, days))
        BY <2>1, RowsCountUpdates
      <3> HIDE DEF f, updates
      <3> QED
        BY <3>1, <3>2, <3>3, <3>4
    <2>4. Contents(events, days) = {ContentOf(e) : e \in Updates(events, days)}
      BY DEF Contents
    <2> HIDE DEF updates
    <2>5. \A top \in TopUpdatedContents(events, days, 1) : \A first \in top :
             first.count * Cardinality({ContentOf(e) : e \in Updates(events, days)}) >= updates
      BY <2>1, <2>3, <2>4, FirstIsAboveAverage
    <2>6. updates = PublishActionSummary(events, days).state_arrival
                      + Cardinality(OfKind(During(events, days), Overlays))
                      + Cardinality({e \in OfKind(During(events, days), {NoKind}) : e.content_id # NullId})
      BY <1>1, <2>3, UpdatesByKind
    <2> QED
      BY <2>5, <2>6 DEF days, updates
  <1>2. IInv => UpdatesAreArrivals
    BY <1>1 DEF UpdatesAreArrivals
  <1> QED
    BY <1>2, Invariant, PTL

-----------------------------------------------------------------------------
(* Lead times.                                                             *)

(* An id with one life has one time of creation.                           *)
LEMMA OneDraftTime ==
    ASSUME IInv, NEW c \in Content, lives[c] = 1, DraftsAt(events, <<ApiOf[c], c>>) # {}
    PROVE  MinOf(DraftsAt(events, <<ApiOf[c], c>>)) = created[c] /\ created[c] \in Time
  <1> DEFINE drafts == DraftsAt(events, <<ApiOf[c], c>>)
  <1>1. ASSUME NEW d \in drafts
        PROVE  d = created[c] /\ d \in Time
    <2>1. PICK e \in events : /\ ContentOf(e) = <<ApiOf[c], c>>
                              /\ e.draft_created_at # NullTime /\ d = e.draft_created_at
      BY DEF DraftsAt, OfKind
    <2>2. e.content_id = c /\ c # NullId
      BY <2>1, ContentAssumption DEF ContentOf
    <2>3. OneLife(c, {e.draft_created_at, e.content_created_at}) /\ e.draft_created_at \in Time
      BY <2>1, <2>2 DEF IInv, TypeOK, EventOK, Dated
    <2> QED
      BY <2>1, <2>3 DEF OneLife
  <1>2. drafts = {created[c]} /\ created[c] \in Time
    BY <1>1
  <1>3. drafts \in SUBSET Nat /\ drafts # {}
    BY <1>2 DEF Time
  <1> HIDE DEF drafts
  <1>4. MinOf(drafts) \in drafts
    BY <1>3, LeastNumber
  <1> QED
    BY <1>2, <1>4 DEF drafts

(***************************************************************************)
(* For any contents, changes and order of arrival the two lead times agree *)
(* on an id that only one content ever had                                 *)
(* (average_draft_to_publish.rs:16-60, average_time_to_publish.rs:23-37).  *)
(***************************************************************************)
THEOREM LeadTimesAreDurations == Spec => []LeadTimesAgree
  <1>1. ASSUME IInv, NEW r \in Ranges, NEW c \in Content, lives[c] = 1,
               <<ApiOf[c], c>> \in DOMAIN DraftToPublish(events, events, Window(r[1], r[2]))
        PROVE  \E e \in TimesToPublish(events, Window(r[1], r[2]), ApiOf[c]) :
                   /\ e.content_id = c
                   /\ e.content_published_at - e.content_created_at
                        = DraftToPublish(events, events, Window(r[1], r[2]))[<<ApiOf[c], c>>]
    <2> DEFINE days == Window(r[1], r[2])
               id == <<ApiOf[c], c>>
               first == MinOf(PublishedAt(events, days, id))
               draft == MinOf(DraftsAt(events, id))
    <2>1. /\ DraftsAt(events, id) # {} /\ PublishedAt(events, days, id) # {} /\ first >= draft
          /\ DraftToPublish(events, events, days)[id] = first - draft
      BY <1>1 DEF DraftToPublish
    <2>2. draft = created[c] /\ created[c] \in Time
      BY <1>1, <2>1, OneDraftTime
    <2>3. first \in PublishedAt(events, days, id)
      <3>1. PublishedAt(events, days, id) \in SUBSET Nat
        BY <1>1 DEF PublishedAt, OfKind, During, IInv, TypeOK, EventOK, Time
      <3> QED
        BY <2>1, <3>1, LeastNumber
    <2> HIDE DEF first, draft
    <2>4. PICK e \in events : /\ e.dt \in days /\ e.event_kind = "PUBLISH_FROM_DRAFT"
                              /\ ContentOf(e) = id /\ e.content_published_at # NullTime
                              /\ e.content_published_at = first
      BY <2>3 DEF PublishedAt, OfKind, During
    <2>5. e.content_id = c /\ e.api = ApiOf[c] /\ c # NullId
      BY <2>4, ContentAssumption DEF ContentOf
    <2>6. e.event_kind \in PublishActions
      BY <2>4 DEF PublishActions
    <2>7. e.content_created_at = created[c] /\ e.content_created_at # NullTime
      BY <1>1, <2>5, <2>6 DEF IInv, Dated, OneLife
    <2>8. e \in TimesToPublish(events, days, ApiOf[c])
      BY <2>1, <2>2, <2>4, <2>5, <2>6, <2>7 DEF TimesToPublish, OfKind, During
    <2> QED
      BY <2>1, <2>2, <2>4, <2>5, <2>7, <2>8
  <1>2. IInv => LeadTimesAgree
    BY <1>1 DEF LeadTimesAgree
  <1> QED
    BY <1>2, Invariant, PTL

=============================================================================
