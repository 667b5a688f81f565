------------------------------ MODULE Metrics ------------------------------
(***************************************************************************)
(* The SQL of duckdb-query-api/src/query/*.rs, as operators on the set E   *)
(* of recorded events.  An event has the columns the queries look at:      *)
(* received_at, its partition date dt, api, content_id, event_type,        *)
(* event_kind and the three timestamps; time and dates are integers.       *)
(***************************************************************************)
EXTENDS EventKind, Integers, FiniteSets, FiniteSetsExt

CONSTANTS
    DayLength,    \* ticks of the clock in a day
    JstOffset,    \* ticks that JST, UTC+9, is ahead
    NullTime,     \* a timestamp that is NULL
    NullId        \* a content_id that is NULL

ASSUME DayAssumption == DayLength \in Nat \ {0} /\ JstOffset \in Nat

Day(t) == (t + JstOffset) \div DayLength

\* A variant that takes the days of the range in UTC.
WindowUtc(from, to) == (from \div DayLength) .. (to \div DayLength)

(* The days a query over from .. to looks at: both ends count in full.     *)
Window(from, to) == Day(from) .. Day(to)

During(E, days) == {e \in E : e.dt \in days}

OfKind(E, kinds) == {e \in E : e.event_kind \in kinds}

-----------------------------------------------------------------------------
(* Counts.                                                                 *)

\* A variant that counts first publications only.
PublishActionsFirst == {"PUBLISH_FROM_DRAFT", "INITIAL_PUBLISH"}

PublishActions == {"PUBLISH_FROM_DRAFT", "INITIAL_PUBLISH", "REPUBLISH_FROM_CLOSED"}

PublishedStates == PublishActions \cup {"UPDATE_PUBLISHED"}

StateArrivals == PublishedStates \cup {"INITIAL_DRAFT", "SAVE_DRAFT", "UNPUBLISH_TO_DRAFT",
                                       "UNPUBLISH_TO_CLOSED", "REOPEN_TO_DRAFT"}

(* One value per day, zero where nothing happened.                         *)
CalendarHeatmap(E, days) == [d \in days |-> Cardinality(During(E, {d}))]

(* One row per API with an event; the total also counts what has no kind.  *)
ApiActivity(E, days) ==
    [a \in {e.api : e \in During(E, days)} |->
        LET rows == {e \in During(E, days) : e.api = a}
        IN  [count |-> [k \in Kind |-> Cardinality(OfKind(rows, {k}))],
             total |-> Cardinality(rows)]]

PublishActionSummary(E, days) ==
    LET count(kinds) == Cardinality(OfKind(During(E, days), kinds))
    IN  [publish         |-> count(PublishActions),
         published_state |-> count(PublishedStates),
         state_arrival   |-> count(StateArrivals)]

\* A variant that forgets that a closed content can be published again.
PublishActionTrendTwoKinds(E, days) ==
    [d \in days |-> [k \in PublishActions \ {"REPUBLISH_FROM_CLOSED"} |->
                        Cardinality(OfKind(During(E, {d}), {k}))]]

PublishActionTrend(E, days) ==
    [d \in days |-> [k \in PublishActions |-> Cardinality(OfKind(During(E, {d}), {k}))]]

-----------------------------------------------------------------------------
(* Updates.                                                                *)

\* What events of one content have in common.
ContentOf(e) == <<e.api, e.content_id>>

\* A variant that takes a deletion for an update.
UpdatesOfAnyType(E, days) == {e \in During(E, days) : e.content_id # NullId}

Updates(E, days) ==
    {e \in During(E, days) : e.event_type \in {"new", "edit"} /\ e.content_id # NullId}

(* Most updates first, and among equals the one updated last.              *)
Precedes(r, q) == \/ r.count > q.count
                  \/ r.count = q.count /\ r.last_event_at > q.last_event_at

(* The answers the query may give: the order of equal rows is left open.   *)
TopUpdatedContents(E, days, limit) ==
    LET row(c) == LET of == {e \in Updates(E, days) : ContentOf(e) = c}
                  IN  [content |-> c, count |-> Cardinality(of),
                       last_event_at |-> Max({e.received_at : e \in of})]
        rows == {row(c) : c \in {ContentOf(e) : e \in Updates(E, days)}}
    IN  {top \in SUBSET rows :
            /\ Cardinality(top) = Min({limit, Cardinality(rows)})
            /\ \A r \in top, q \in rows \ top : ~Precedes(q, r)}

-----------------------------------------------------------------------------
(* Durations.                                                              *)

MinOf(S) == CHOOSE m \in S : \A x \in S : m <= x

(* The durations that an average is taken over, one per event.             *)
TimesToPublish(E, days, api) ==
    {e \in OfKind(During(E, days), PublishActions) :
        /\ e.api = api
        /\ e.content_created_at # NullTime
        /\ e.content_published_at # NullTime
        /\ e.content_published_at >= e.content_created_at}

(* The first draft of a content ever, and its first publication in days.   *)
DraftsAt(E, c) ==
    {e.draft_created_at : e \in {f \in OfKind(E, {"INITIAL_DRAFT"}) :
                                    ContentOf(f) = c /\ f.draft_created_at # NullTime}}

\* A variant that does not ask what kind of event it looks at.
PublishedAtAnyKind(E, days, c) ==
    {e.content_published_at : e \in {f \in During(E, days) :
                                        ContentOf(f) = c /\ f.content_published_at # NullTime}}

PublishedAt(E, days, c) ==
    {e.content_published_at : e \in {f \in OfKind(During(E, days), {"PUBLISH_FROM_DRAFT"}) :
                                        ContentOf(f) = c /\ f.content_published_at # NullTime}}

(* average_draft_to_publish reads the bucket twice: drafts in D, where the *)
(* range does not matter, publications in E.  One duration per content.    *)
DraftToPublish(D, E, days) ==
    LET joined == {c \in {ContentOf(e) : e \in E} :
                      /\ c[2] # NullId
                      /\ DraftsAt(D, c) # {}
                      /\ PublishedAt(E, days, c) # {}
                      /\ MinOf(PublishedAt(E, days, c)) >= MinOf(DraftsAt(D, c))}
    IN  [c \in joined |-> MinOf(PublishedAt(E, days, c)) - MinOf(DraftsAt(D, c))]

-----------------------------------------------------------------------------
(* For the properties of those who use the metrics.                        *)

Total(f) == MapThenSumSet(LAMBDA x : f[x], DOMAIN f)

=============================================================================
