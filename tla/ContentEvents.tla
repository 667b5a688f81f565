--------------------------- MODULE ContentEvents ---------------------------
(***************************************************************************)
(* The platform end to end, from a content of microCMS to a metric: every  *)
(* change of a content sends a webhook, once, which may arrive late, out   *)
(* of order or not at all; webhook-ingest turns what arrives into an event *)
(* (WebhookIngest says how it keeps that promise); Metrics counts events.  *)
(*                                                                         *)
(* microCMS is known from its documentation and from the webhooks that the *)
(* code accepts: a content has no status before it exists, and otherwise   *)
(* any of four status sets, and its id can be changed.                     *)
(***************************************************************************)
EXTENDS Metrics

CONSTANTS
    Api,          \* the APIs of the service
    Content,      \* content ids
    ApiOf,        \* the API of each
    Horizon,      \* the bound on time
    MaxChanges    \* the bound on changes

ASSUME ContentAssumption == /\ IsFiniteSet(Content)
                            /\ NullId \notin Content
                            /\ ApiOf \in [Content -> Api]
                            /\ NullTime \notin 0 .. Horizon
                            /\ Horizon \in Nat
                            /\ MaxChanges \in Nat

VARIABLES
    now,
    status,       \* the statuses of each content, {} before it exists
    created,      \* createdAt, and
    published,    \* publishedAt of each
    lives,        \* how often each id was taken
    changes,      \* changes so far
    sent,         \* webhooks on their way
    lost,         \* webhooks that never arrived
    events        \* the events in the bucket

cms == <<status, created, published, lives, changes>>
vars == <<now, cms, sent, lost, events>>

Time == 0 .. Horizon

StatusSet == {{"DRAFT"}, {"PUBLISH"}, {"PUBLISH", "DRAFT"}, {"CLOSED"}}

Webhook == [id : 1 .. MaxChanges, content : Content \cup {NullId}, api : Api,
            type : EventType, old : StatusSet \cup {{}}, new : StatusSet \cup {{}},
            created : Time \cup {NullTime}, published : Time \cup {NullTime}]

EventOK(e) ==
    /\ e.received_at \in Time
    /\ e.dt = Day(e.received_at)
    /\ e.content_id \in Content \cup {NullId}
    /\ e.event_kind \in Kind \cup {NoKind}
    /\ {e.draft_created_at, e.content_created_at, e.content_published_at} \subseteq Time \cup {NullTime}

TypeOK ==
    /\ now \in Time
    /\ status \in [Content -> StatusSet \cup {{}}]
    /\ created \in [Content -> Time \cup {NullTime}]
    /\ published \in [Content -> Time \cup {NullTime}]
    /\ lives \in [Content -> Nat]
    /\ changes \in 0 .. MaxChanges
    /\ sent \subseteq Webhook
    /\ lost \subseteq Webhook
    /\ \A e \in events : EventOK(e)

Live(statuses) == "PUBLISH" \in statuses

-----------------------------------------------------------------------------
(* microCMS                                                                *)

Tick == /\ now < Horizon
        /\ now' = now + 1
        /\ UNCHANGED <<cms, sent, lost, events>>

Send(type, id, api, old, new, createdAt, publishedAt) ==
    /\ changes < MaxChanges
    /\ changes' = changes + 1
    /\ sent' = sent \cup
           {[id |-> changes + 1, content |-> id, api |-> api, type |-> type,
             old |-> old, new |-> new, created |-> createdAt, published |-> publishedAt]}
    /\ UNCHANGED <<now, lost, events>>

Create(c, new) ==
    LET publishedAt == IF Live(new) THEN now ELSE NullTime
    IN  /\ status[c] = {}
        /\ status' = [status EXCEPT ![c] = new]
        /\ created' = [created EXCEPT ![c] = now]
        /\ published' = [published EXCEPT ![c] = publishedAt]
        /\ lives' = [lives EXCEPT ![c] = @ + 1]
        /\ Send("new", c, ApiOf[c], {}, new, now, publishedAt)

(* Publishing again may or may not move publishedAt.                       *)
Edit(c, new) ==
    /\ status[c] # {}
    /\ status' = [status EXCEPT ![c] = new]
    /\ \E publishedAt \in IF Live(new) THEN {now, published[c]} \ {NullTime} ELSE {published[c]} :
           /\ published' = [published EXCEPT ![c] = publishedAt]
           /\ Send("edit", c, ApiOf[c], status[c], new, created[c], publishedAt)
    /\ UNCHANGED <<created, lives>>

Delete(c) ==
    /\ status[c] # {}
    /\ status' = [status EXCEPT ![c] = {}]
    /\ UNCHANGED <<created, published, lives>>
    /\ Send("delete", c, ApiOf[c], status[c], {}, created[c], published[c])

Rename(c, d) ==
    /\ status[c] # {}
    /\ status[d] = {}
    /\ ApiOf[c] = ApiOf[d]
    /\ status' = [status EXCEPT ![c] = {}, ![d] = status[c]]
    /\ created' = [created EXCEPT ![d] = created[c]]
    /\ published' = [published EXCEPT ![d] = published[c]]
    /\ lives' = [lives EXCEPT ![d] = @ + 1]
    /\ Send("edit", d, ApiOf[d], status[c], status[c], created[c], published[c])

(* A change that is not about a content: settings of an API.               *)
ChangeApi(a) ==
    /\ UNCHANGED <<status, created, published, lives>>
    /\ Send("edit", NullId, a, {}, {}, NullTime, NullTime)

Lose(w) == /\ w \in sent
           /\ sent' = sent \ {w}
           /\ lost' = lost \cup {w}
           /\ UNCHANGED <<now, cms, events>>

-----------------------------------------------------------------------------
(* webhook-ingest                                                          *)

\* A variant that files an event under its day in UTC.
NormalizePayloadUtc(w) ==
    [id |-> w.id, received_at |-> now, dt |-> now \div DayLength, api |-> w.api,
     content_id |-> w.content, event_type |-> w.type,
     event_kind |-> DeriveEventKind(w.type, w.old, w.new),
     draft_created_at |-> NullTime, content_created_at |-> NullTime,
     content_published_at |-> NullTime]

(* normalize_payload: draftValue and publishValue of the new content are   *)
(* there when it has a draft or is live.                                   *)
NormalizePayload(w) ==
    [id |-> w.id, received_at |-> now, dt |-> Day(now), api |-> w.api, content_id |-> w.content,
     event_type |-> w.type, event_kind |-> DeriveEventKind(w.type, w.old, w.new),
     draft_created_at     |-> IF "DRAFT" \in w.new THEN w.created ELSE NullTime,
     content_created_at   |-> IF Live(w.new) THEN w.created ELSE NullTime,
     content_published_at |-> IF Live(w.new) THEN w.published ELSE NullTime]

Deliver(w) == /\ w \in sent
              /\ sent' = sent \ {w}
              /\ events' = events \cup {NormalizePayload(w)}
              /\ UNCHANGED <<now, cms, lost>>

-----------------------------------------------------------------------------

Init == /\ now = 0
        /\ status = [c \in Content |-> {}]
        /\ created = [c \in Content |-> NullTime]
        /\ published = [c \in Content |-> NullTime]
        /\ lives = [c \in Content |-> 0]
        /\ changes = 0
        /\ sent = {}
        /\ lost = {}
        /\ events = {}

Next == \/ Tick
        \/ \E c \in Content : \/ \E new \in StatusSet : Edit(c, new)
                              \/ \E new \in {{"DRAFT"}, {"PUBLISH"}} : Create(c, new)
                              \/ Delete(c)
                              \/ \E d \in Content : Rename(c, d)
        \/ \E a \in Api : ChangeApi(a)
        \/ \E w \in sent : Deliver(w) \/ Lose(w)

Spec == Init /\ [][Next]_vars

-----------------------------------------------------------------------------
(* Properties                                                              *)

Ranges == {r \in Time \X Time : r[1] <= r[2]}

Ends == {"UNPUBLISH_TO_DRAFT", "UNPUBLISH_TO_CLOSED", "DELETE_PUBLISHED"}

Online == {c \in Content : Live(status[c])}

(***************************************************************************)
(* The classification is sound: once every webhook has arrived, in         *)
(* whatever order, the publications that the publish metrics count, less   *)
(* the events that end one, are the contents that are live now             *)
(* (event_kind.rs:28-69, publish_actions.rs:29-33).                        *)
(***************************************************************************)
LiveBalance ==
    sent \cup lost = {} =>
        Cardinality(OfKind(events, PublishActions)) - Cardinality(OfKind(events, Ends))
            = Cardinality(Online)

Missing(kinds) == {w \in sent \cup lost : DeriveEventKind(w.type, w.old, w.new) \in kinds}

Balance == Cardinality(OfKind(events, PublishActions)) + Cardinality(Missing(PublishActions))
             = Cardinality(OfKind(events, Ends)) + Cardinality(Missing(Ends)) + Cardinality(Online)

Distinct ==
    /\ IsFiniteSet(sent) /\ IsFiniteSet(lost) /\ IsFiniteSet(events)
    /\ sent \cap lost = {}
    /\ \A w \in sent \cup lost : w.id \in 1 .. changes
    /\ \A e \in events : e.id \in 1 .. changes
    /\ \A v, w \in sent : v.id = w.id => v = w
    /\ \A e, f \in events : e.id = f.id => e = f
    /\ \A w \in sent, e \in events : w.id # e.id

Overlays == {"ADD_DRAFT_TO_PUBLISHED", "DISCARD_DRAFT_ON_PUBLISHED"}

(* The changes that send a webhook; the last but one is of settings.       *)
Change(type, old, new) ==
    \/ type = "new" /\ old = {} /\ new \in {{"DRAFT"}, {"PUBLISH"}}
    \/ type = "edit" /\ old \in StatusSet /\ new \in StatusSet
    \/ type = "edit" /\ old = {} /\ new = {}
    \/ type = "delete" /\ old \in StatusSet /\ new = {}

(* The kind of an event of a content tells whether it was a deletion.      *)
Classified ==
    /\ \A w \in sent : /\ Change(w.type, w.old, w.new)
                       /\ w.content = NullId <=> w.old = {} /\ w.new = {}
    /\ \A e \in events :
           IF e.content_id = NullId THEN e.event_kind = NoKind
           ELSE e.event_type \in {"new", "edit"}
                  <=> e.event_kind \in StateArrivals \cup Overlays \cup {NoKind}

(* While an id had one content, its webhooks and events were all created   *)
(* at the same time.                                                       *)
OneLife(content, at) == /\ lives[content] >= 1
                        /\ lives[content] = 1 => at \subseteq {NullTime, created[content]}

Dated ==
    /\ \A c \in Content : status[c] # {} => lives[c] >= 1 /\ created[c] # NullTime
    /\ \A w \in sent : w.content # NullId => OneLife(w.content, {w.created}) /\ w.created # NullTime
    /\ \A e \in events : e.content_id # NullId =>
           /\ OneLife(e.content_id, {e.draft_created_at, e.content_created_at})
           /\ e.event_kind \in PublishActions => e.content_created_at # NullTime

(***************************************************************************)
(* Inductive: also while webhooks are on their way or lost, publications   *)
(* less ends are the live contents when these are counted in; every        *)
(* webhook is one event at most; kinds, types and times of creation of     *)
(* webhooks and events go together (event_kind.rs:28-69,                   *)
(* normalize.rs:46-83).                                                    *)
(***************************************************************************)
IInv == TypeOK /\ Distinct /\ Balance /\ Classified /\ Dated

(***************************************************************************)
(* No event falls between the two services: what was received in a range   *)
(* of time is counted by a query over that range, although ingest files it *)
(* under a day and the query looks for days (s3_key.rs:20-26,              *)
(* query.rs:20-33).                                                        *)
(***************************************************************************)
RangeCoversItsEvents ==
    \A r \in Ranges : \A e \in events :
        r[1] <= e.received_at /\ e.received_at <= r[2]
            => e \in During(events, Window(r[1], r[2]))

(***************************************************************************)
(* The metrics of one range agree with each other: the days of the heatmap *)
(* and of the trend add up to the totals per API and to the summary, and   *)
(* no event has two kinds (calendar_heatmap.rs, api_activity.rs,           *)
(* publish_actions.rs).                                                    *)
(***************************************************************************)
CountsAgree ==
    \A r \in Ranges :
        LET days == Window(r[1], r[2])
            activity == ApiActivity(events, days)
            trend == PublishActionTrend(events, days)
            unknown == OfKind(During(events, days), {NoKind})
        IN  /\ Total(CalendarHeatmap(events, days)) = Total([a \in DOMAIN activity |-> activity[a].total])
            /\ Total([d \in days |-> Total(trend[d])]) = PublishActionSummary(events, days).publish
            /\ Total([a \in DOMAIN activity |-> Total(activity[a].count)])
                 = Cardinality(During(events, days)) - Cardinality(unknown)

(***************************************************************************)
(* The ranking of contents looks at the type of an event where the other   *)
(* metrics look at its kind: its counts still add up to the arrivals and   *)
(* overlays of contents, and to what has no kind, and the first of it has  *)
(* no less than the average (top_updated_contents.rs:16-32,                *)
(* publish_actions.rs:29-33).                                              *)
(***************************************************************************)
UpdatesAreArrivals ==
    \A r \in Ranges :
        LET days == Window(r[1], r[2])
            all == CHOOSE top \in TopUpdatedContents(events, days, MaxChanges) : TRUE
            updates == Total([row \in all |-> row.count])
            nameless == {e \in OfKind(During(events, days), {NoKind}) : e.content_id # NullId}
        IN  /\ updates = PublishActionSummary(events, days).state_arrival
                           + Cardinality(OfKind(During(events, days), Overlays))
                           + Cardinality(nameless)
            /\ \A top \in TopUpdatedContents(events, days, 1) : \A first \in top :
                   first.count * Cardinality({ContentOf(e) : e \in Updates(events, days)}) >= updates

(***************************************************************************)
(* The two lead times agree: for an id that only one content ever had, the *)
(* duration from draft to publication is one of its durations from         *)
(* creation to publication (average_draft_to_publish.rs:16-60,             *)
(* average_time_to_publish.rs:23-37).                                      *)
(***************************************************************************)
LeadTimesAgree ==
    \A r \in Ranges :
        LET days == Window(r[1], r[2])
            lead == DraftToPublish(events, events, days)
        IN  \A c \in Content : lives[c] = 1 /\ <<ApiOf[c], c>> \in DOMAIN lead =>
                \E e \in TimesToPublish(events, days, ApiOf[c]) :
                    /\ e.content_id = c
                    /\ e.content_published_at - e.content_created_at = lead[<<ApiOf[c], c>>]

(***************************************************************************)
(* A content has one first publication, so one range samples it: the tool  *)
(* is described as "average time from draft creation to first publish"     *)
(* (handler/mcp.rs:211).                                                   *)
(***************************************************************************)
SampledAtFirstPublish ==
    \A r \in Ranges : LET days == Window(r[1], r[2])
                      IN  \A c \in DOMAIN DraftToPublish(events, events, days) :
        LET publications == {e \in OfKind(events, {"PUBLISH_FROM_DRAFT"}) : ContentOf(e) = c}
        IN  \E e \in During(publications, days) : \A f \in publications : e.id <= f.id

=============================================================================
