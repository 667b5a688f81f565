----------------------------- MODULE DebugSeed -----------------------------
(***************************************************************************)
(* The generator of debug data (webhook-ingest/src/debug_seed.rs and the   *)
(* modules under it): from a configuration it draws a schedule of days and *)
(* events on them, each of which goes through normalize_payload like a     *)
(* webhook, and files them by partition.  The generator of random numbers  *)
(* is a choice over what it can return.  Files that cannot be written are  *)
(* in DebugWorkflow.                                                       *)
(***************************************************************************)
EXTENDS Metrics, Sequences

CONSTANTS
    Today,        \* jst_today
    Configs,      \* the configurations asked for
    Shares,       \* the tables of weights, of which the code has one
    WeightTotal,  \* what each of them adds up to
    Apis,         \* BULK_APIS
    ApiWeights,   \* BULK_API_ACTIVITY_WEIGHTS, and
    ApiTotal,     \* what they add up to
    MaxDays,      \* the longest period
    MaxU32        \* the largest u32

VARIABLES
    phase,        \* how far the generator is
    config,       \* what was asked for
    shares,       \* the weights
    targets,      \* how many events of each template to generate
    schedule,     \* the days with events
    emitted,      \* how often each loop has run
    fillers,      \* the fillers left
    events,       \* the events so far
    files,        \* the files in the directory, by key
    summary       \* DebugSeedSummary

plan == <<targets, schedule>>
progress == <<emitted, fillers, events>>
vars == <<phase, config, shares, plan, progress, files, summary>>

Config == [preset : {"smoke", "bulk"}, count : Nat, days : Nat, contents : Nat, rows_per_file : Nat]

Template == {"InitialDraft", "SaveDraft", "PublishFromDraft", "InitialPublish", "UpdatePublished",
             "AddDraftToPublished", "DiscardDraftOnPublished", "UnpublishToDraft",
             "UnpublishToClosed", "ReopenToDraft", "RepublishFromClosed", "DeleteDraft",
             "DeletePublished", "DeleteClosed"}

(* ActivityTargets::total                                                  *)
TargetTotal(f) ==
    f.InitialDraft + f.SaveDraft + f.PublishFromDraft + f.InitialPublish + f.UpdatePublished
      + f.AddDraftToPublished + f.DiscardDraftOnPublished + f.UnpublishToDraft
      + f.UnpublishToClosed + f.ReopenToDraft + f.RepublishFromClosed + f.DeleteDraft
      + f.DeletePublished + f.DeleteClosed

(***************************************************************************)
(* A table of weights: they add up, and there are no fewer first drafts    *)
(* than publications of a draft, as each of these comes with one.          *)
(***************************************************************************)
IsTable(w, total) == /\ w \in [Template -> Nat]
                     /\ TargetTotal(w) = total
                     /\ w.PublishFromDraft <= w.InitialDraft

(* The table of the code.                                                  *)
BulkWeights ==
    [ InitialDraft |-> 400, SaveDraft |-> 300, PublishFromDraft |-> 53, InitialPublish |-> 12,
      UpdatePublished |-> 377, AddDraftToPublished |-> 400, DiscardDraftOnPublished |-> 100,
      UnpublishToDraft |-> 160, UnpublishToClosed |-> 80, ReopenToDraft |-> 20,
      RepublishFromClosed |-> 8, DeleteDraft |-> 20, DeletePublished |-> 60, DeleteClosed |-> 10 ]

ASSUME BulkWeightsAreATable == IsTable(BulkWeights, 2000)

ASSUME SeedAssumption ==
    /\ Today \in Int /\ MaxDays \in Nat /\ MaxU32 \in Nat
    /\ Configs \subseteq Config
    /\ WeightTotal \in Nat \ {0}
    /\ \A w \in Shares : IsTable(w, WeightTotal)
    /\ Apis \in Seq(STRING) /\ Apis # <<>>

(* What is missing is neither an instant nor one of the ids below.         *)
Namespace == {"bulk-metric-pair", "bulk-orphan-draft", "bulk-save-draft", "bulk-direct-publish",
              "bulk-content-pool"}

ASSUME NullAssumption == NullTime \notin Int /\ NullId \notin Namespace \X STRING \X Nat

-----------------------------------------------------------------------------
(* Configuration.                                                          *)

ValidateConfig(c) == /\ c.days \in 1 .. MaxDays
                     /\ c.preset = "bulk" => c.count > 0 /\ c.contents > 0
                     /\ c.rows_per_file > 0

-----------------------------------------------------------------------------
(* Templates: type and statuses of a webhook, and which values it carries. *)

Body(type, old, new, values) == [type |-> type, old |-> old, new |-> new, values |-> values]

LifecycleBody ==
    [ InitialDraft     |-> Body("new",  {},        {"DRAFT"},   {"draft"}),
      SaveDraft        |-> Body("edit", {"DRAFT"}, {"DRAFT"},   {"draft"}),
      InitialPublish   |-> Body("new",  {},        {"PUBLISH"}, {"publish"}),
      PublishFromDraft |-> Body("edit", {"DRAFT"}, {"PUBLISH"}, {"publish"}) ]

FillerBody ==
    [ UpdatePublished         |-> Body("edit",   {"PUBLISH"},          {"PUBLISH"},          {}),
      AddDraftToPublished     |-> Body("edit",   {"PUBLISH"},          {"PUBLISH", "DRAFT"}, {"draft", "publish"}),
      DiscardDraftOnPublished |-> Body("edit",   {"PUBLISH", "DRAFT"}, {"PUBLISH"},          {"publish"}),
      UnpublishToDraft        |-> Body("edit",   {"PUBLISH"},          {"DRAFT"},            {"draft"}),
      UnpublishToClosed       |-> Body("edit",   {"PUBLISH"},          {"CLOSED"},           {}),
      ReopenToDraft           |-> Body("edit",   {"CLOSED"},           {"DRAFT"},            {"draft"}),
      RepublishFromClosed     |-> Body("edit",   {"CLOSED"},           {"PUBLISH"},          {"publish"}),
      DeleteDraft             |-> Body("delete", {"DRAFT"},            {},                   {}),
      DeletePublished         |-> Body("delete", {"PUBLISH"},          {},                   {}),
      DeleteClosed            |-> Body("delete", {"CLOSED"},           {},                   {}) ]

BulkTemplate(t) == IF t \in DOMAIN FillerBody THEN FillerBody[t] ELSE LifecycleBody[t]

\* A variant that forgets a template.
FillerTemplateNoReopen ==
    Template \ {"InitialDraft", "SaveDraft", "PublishFromDraft", "InitialPublish", "ReopenToDraft"}

FillerTemplate == Template \ {"InitialDraft", "SaveDraft", "PublishFromDraft", "InitialPublish"}

(***************************************************************************)
(* What normalize_payload makes of a body.  A timing that is not given is  *)
(* a week ago, but for the publication, which is now.                      *)
(***************************************************************************)
\* BulkEventTiming::for_filler
Untimed == [draft |-> NullTime, created |-> NullTime, published |-> NullTime]

WeekBefore(at) == at - 7 * DayLength

Or(t, default) == IF t = NullTime THEN default ELSE t

Normalized(id, api, content, body, at, timing) ==
    [id |-> id, received_at |-> at, dt |-> Day(at), api |-> api, content_id |-> content,
     event_type |-> body.type, event_kind |-> DeriveEventKind(body.type, body.old, body.new),
     draft_created_at     |-> IF "draft" \in body.values THEN Or(timing.draft, WeekBefore(at)) ELSE NullTime,
     content_created_at   |-> IF "publish" \in body.values THEN Or(timing.created, WeekBefore(at)) ELSE NullTime,
     content_published_at |-> IF "publish" \in body.values THEN Or(timing.published, at) ELSE NullTime]

\* A variant that takes the time for UTC.
JstDatetimeUtc(date, hour) == date * DayLength + hour

(* The instant of an hour of a day in JST.                                 *)
JstDatetime(date, hour) == date * DayLength + hour - JstOffset

HourOfDay(h) == (h * DayLength) \div 24

\* A variant in which all groups of events share the ids of contents.
UlidWithoutNamespace(namespace, api, index) == <<api, index>>

(* deterministic_content_ulid, a hash.                                     *)
Ulid(namespace, api, index) == <<namespace, api, index>>

-----------------------------------------------------------------------------
(* Targets.                                                                *)

SaturatingSub(a, b) == IF a >= b THEN a - b ELSE 0

\* A variant that does not hand out the remainder.
ComputeActivityTargetsRounded(total, w) ==
    [t \in Template |-> (total * w[t]) \div WeightTotal]

(* Each template gets its share, rounded down, and the last the remainder. *)
ComputeActivityTargets(total, w) ==
    LET counts == [t \in Template |-> (total * w[t]) \div WeightTotal]
    IN  [counts EXCEPT !["DeleteClosed"] = @ + SaturatingSub(total, TargetTotal(counts))]

(* The product is a u32, and recipes build with overflow checks.           *)
Overflows(total, w) == \E t \in Template : total * w[t] > MaxU32

-----------------------------------------------------------------------------
(* Schedule.                                                               *)

Period(days) == Today - days + 1 .. Today

(* A fifth of the days, rounded, but never all of them.                    *)
ZeroDays(days) == Min({(2 * days + 5) \div 10, days - 1})

\* A variant that takes the draw as it is.
DayScheduleAsDrawn(days, quiet) == {Period(days) \ quiet}

(* The days with the lowest scores are quiet; today changes places with    *)
(* the lowest of the others.                                               *)
DaySchedule(days, quiet) ==
    LET active == Period(days) \ quiet
    IN  IF Today \in active THEN {active}
        ELSE {(active \cup {Today}) \ {d} : d \in active}

(* random_received_at_on_schedule                                          *)
Moments == {JstDatetime(d, h) : d \in schedule, h \in 0 .. DayLength - 1}

-----------------------------------------------------------------------------
(* APIs.                                                                   *)

WeightedBulkApi(index) ==
    LET offset == index % ApiTotal
        upTo(k) == MapThenSumSet(LAMBDA j : ApiWeights[j], 1 .. k)
        reached == {k \in DOMAIN Apis : offset < upTo(k)}
    IN  Apis[IF reached = {} THEN Len(Apis) ELSE Min(reached)]

(* Days from the creation of a content, and from its first draft, to its   *)
(* publication.                                                            *)
Profile(lead, draft) == [lead |-> lead, draft |-> draft]

ApiTimingProfiles ==
    [ blogs |-> Profile(1, 4), authors |-> Profile(2, 2), news |-> Profile(4, 10),
      categories |-> Profile(3, 6), pages |-> Profile(8, 18), advertisements |-> Profile(5, 7),
      tags |-> Profile(1, 1), labels |-> Profile(1, 1), papers |-> Profile(14, 24),
      cards |-> Profile(4, 5) ]

ApiTimingProfile(api) ==
    IF api \in DOMAIN ApiTimingProfiles THEN ApiTimingProfiles[api] ELSE Profile(5, 8)

PublishLead(api, index) == ApiTimingProfile(api).lead + (index % 5)

DraftToPublishLead(api, index) == ApiTimingProfile(api).draft + (index % 6)

-----------------------------------------------------------------------------
(* Loops.  One after the other; each round of one appends to events.       *)

Loop == {"pair", "orphan", "save", "publish"}

Before(g) == CASE g = "pair"    -> {}
               [] g = "orphan"  -> {"pair"}
               [] g = "save"    -> {"pair", "orphan"}
               [] g = "publish" -> {"pair", "orphan", "save"}

\* A variant in which the drafts of the pairs come on top.
RoundsAllOrphans(g) ==
    CASE g = "pair"    -> targets.PublishFromDraft
      [] g = "orphan"  -> targets.InitialDraft
      [] g = "save"    -> targets.SaveDraft
      [] g = "publish" -> targets.InitialPublish

(* The drafts of the pairs count as initial drafts.                        *)
Rounds(g) ==
    CASE g = "pair"    -> targets.PublishFromDraft
      [] g = "orphan"  -> SaturatingSub(targets.InitialDraft, targets.PublishFromDraft)
      [] g = "save"    -> targets.SaveDraft
      [] g = "publish" -> targets.InitialPublish

\* A variant with one round too many.
TurnOnceMore(g) == /\ phase = "events"
                   /\ emitted[g] <= Rounds(g)
                   /\ \A h \in Before(g) : emitted[h] >= Rounds(h)

Turn(g) == /\ phase = "events"
           /\ emitted[g] < Rounds(g)
           /\ \A h \in Before(g) : emitted[h] = Rounds(h)

FillersTurn == /\ phase = "events"
               /\ \A g \in Loop : emitted[g] = Rounds(g)

(* push_bulk_event, once per template.                                     *)
PushBulkEvents(g, new) ==
    /\ events' = events \o new
    /\ emitted' = [emitted EXCEPT ![g] = @ + 1]
    /\ UNCHANGED <<phase, config, shares, plan, files, summary>>

BulkEvent(id, api, content, t, at, timing) == Normalized(id, api, content, BulkTemplate(t), at, timing)

NextId == Len(events) + 1

(* The first draft of a pair is on a day of the schedule, not after its    *)
(* publication and, if that is on the last day, before it when it can be.  *)
PushPair ==
    /\ Turn("pair")
    /\ \E at \in Moments :
        LET index == emitted["pair"]
            api == WeightedBulkApi(index)
            id == Ulid("bulk-metric-pair", api, index)
            latest == Max(schedule)
            eligible == {d \in schedule : d <= Day(at) /\ ~(Day(at) = latest /\ d = latest)}
            draft == [Untimed EXCEPT !.draft = at - DraftToPublishLead(api, index) * DayLength]
            publication == [Untimed EXCEPT !.created = at - PublishLead(api, index) * DayLength,
                                           !.published = at]
        IN  \E d \in IF eligible = {} THEN {Day(at)} ELSE eligible :
                PushBulkEvents("pair",
                    << BulkEvent(NextId, api, id, "InitialDraft", JstDatetime(d, HourOfDay(9 + (index % 6))), draft),
                       BulkEvent(NextId + 1, api, id, "PublishFromDraft", at, publication) >>)
    /\ UNCHANGED fillers

(* A draft that is never published.                                        *)
PushOrphan ==
    /\ Turn("orphan")
    /\ \E at \in Moments :
        LET index == emitted["orphan"]
            api == WeightedBulkApi(index)
        IN  PushBulkEvents("orphan",
                << BulkEvent(NextId, api, Ulid("bulk-orphan-draft", api, index), "InitialDraft", at,
                             [Untimed EXCEPT !.draft = at - ((index % 7) + 1) * DayLength]) >>)
    /\ UNCHANGED fillers

PushSaveDraft ==
    /\ Turn("save")
    /\ \E at \in Moments :
        LET index == emitted["save"]
            api == WeightedBulkApi(index)
        IN  PushBulkEvents("save",
                << BulkEvent(NextId, api, Ulid("bulk-save-draft", api, index), "SaveDraft", at,
                             [Untimed EXCEPT !.draft = at - ((index % 10) + 1) * DayLength]) >>)
    /\ UNCHANGED fillers

PushInitialPublish ==
    /\ Turn("publish")
    /\ \E at \in Moments :
        LET index == emitted["publish"]
            api == WeightedBulkApi(index)
            lead == PublishLead(api, index) + (index % 4)
        IN  PushBulkEvents("publish",
                << BulkEvent(NextId, api, Ulid("bulk-direct-publish", api, index), "InitialPublish", at,
                             [Untimed EXCEPT !.created = at - lead * DayLength, !.published = at]) >>)
    /\ UNCHANGED fillers

(* The fillers are shuffled: any of those left is next.  Their contents    *)
(* are from a pool, whatever happened to them before.                      *)
PushFiller(t) ==
    /\ FillersTurn
    /\ fillers[t] > 0
    /\ fillers' = [fillers EXCEPT ![t] = @ - 1]
    /\ \E at \in Moments : \E index \in 0 .. config.contents - 1 :
        LET api == WeightedBulkApi(emitted["filler"])
        IN  PushBulkEvents("filler",
                << BulkEvent(NextId, api, Ulid("bulk-content-pool", api, index), t, at, Untimed) >>)

-----------------------------------------------------------------------------
(* The fixed events of the smoke preset, all of them two days ago.         *)

SmokeFixture(id, api, content, type, old, new, hour, timing) ==
    LET values == (IF timing.draft # NullTime THEN {"draft"} ELSE {})
                    \cup (IF timing.created # NullTime \/ timing.published # NullTime THEN {"publish"} ELSE {})
    IN  Normalized(id, api, content, Body(type, old, new, values),
                   JstDatetime(Today - 2, HourOfDay(hour)), timing)

SmokeFixtures ==
    LET blog == "lifecycle"
        at(date, hour) == JstDatetime(date, HourOfDay(hour))
        drafted == [Untimed EXCEPT !.draft = at(Today - 7, 12)]
        published == [Untimed EXCEPT !.created = at(Today - 4, 12), !.published = at(Today - 2, 12)]
        direct == [Untimed EXCEPT !.created = at(Today - 2, 8), !.published = at(Today - 2, 14)]
        fixture(id, content, type, old, new, hour, timing) ==
            SmokeFixture(id, "blogs", content, type, old, new, hour, timing)
    IN  << fixture(1, blog,     "edit", {"DRAFT"},   {"PUBLISH"}, 12, published),
           fixture(2, blog,     "new",  {},          {"DRAFT"},   11, drafted),
           fixture(3, blog,     "edit", {"PUBLISH"}, {"PUBLISH"}, 13, Untimed),
           fixture(4, NullId,   "edit", {"PUBLISH"}, {"DRAFT"},   15, Untimed),
           fixture(5, NullId,   "edit", {"PUBLISH"}, {"CLOSED"},  15, Untimed),
           fixture(6, NullId,   "edit", {"DRAFT"},   {"DRAFT"},   16, Untimed),
           fixture(7, "direct", "new",  {},          {"PUBLISH"}, 14, direct),
           SmokeFixture(8, "authors", NullId, "delete", {"PUBLISH"}, {}, 15, Untimed) >>

-----------------------------------------------------------------------------
(* Files.                                                                  *)

Rows(s) == {s[i] : i \in DOMAIN s}

FileKey(e, name) == [api |-> e.api, dt |-> e.dt, name |-> name]

Partitions(rows) == {<<e.api, e.dt>> : e \in rows}

\* A variant that drops the rows that do not fill a file.
ShardsRoundedDown(n) == n \div config.rows_per_file

(* chunks: the last one may be short.                                      *)
Shards(n) == (n + config.rows_per_file - 1) \div config.rows_per_file

(* The events of a partition, and how many of them come before one: the    *)
(* id of an event is its place in events.                                  *)
InPartition(p) == {e \in Rows(events) : <<e.api, e.dt>> = p}

Place(e) == Cardinality({f \in InPartition(<<e.api, e.dt>>) : f.id < e.id})

(* A partition is cut into files of at most rows_per_file rows.            *)
BulkFiles ==
    LET keys == UNION {{[api |-> p[1], dt |-> p[2], name |-> n] :
                           n \in 0 .. Shards(Cardinality(InPartition(p))) - 1} : p \in Partitions(Rows(events))}
    IN  [k \in keys |-> {e \in InPartition(<<k.api, k.dt>>) : Place(e) \div config.rows_per_file = k.name}]

(* One event per file, named after it.                                     *)
SmokeFiles ==
    [k \in {FileKey(e, e.id) : e \in Rows(SmokeFixtures)} |-> {SmokeFixtures[k.name]}]

Written(new) == [k \in DOMAIN files \cup DOMAIN new |-> IF k \in DOMAIN new THEN new[k] ELSE files[k]]

Summary(rows, new) ==
    [event_count |-> Cardinality(rows), file_count |-> Cardinality(DOMAIN new),
     partition_count |-> Cardinality(Partitions(rows)),
     min_dt |-> Min({e.dt : e \in rows}), max_dt |-> Max({e.dt : e \in rows})]

-----------------------------------------------------------------------------
(* generate_debug_parquet_files                                            *)

Validate == /\ phase = "validate"
            /\ phase' = IF ValidateConfig(config) THEN "prepare" ELSE "rejected"
            /\ UNCHANGED <<config, shares, plan, progress, files, summary>>

\* A variant that leaves what is there.
PrepareNothing == /\ phase = "prepare"
                  /\ phase' = config.preset
                  /\ UNCHANGED <<config, shares, plan, progress, files, summary>>

PrepareOutputEventsDir == /\ phase = "prepare"
                          /\ phase' = config.preset
                          /\ files' = <<>>
                          /\ UNCHANGED <<config, shares, plan, progress, summary>>

GenerateSmokeFiles == /\ phase = "smoke"
                      /\ phase' = "done"
                      /\ events' = SmokeFixtures
                      /\ files' = Written(SmokeFiles)
                      /\ summary' = Summary(Rows(SmokeFixtures), SmokeFiles)
                      /\ UNCHANGED <<config, shares, plan, emitted, fillers>>

Panic == /\ phase = "bulk"
         /\ Overflows(config.count, shares)
         /\ phase' = "panicked"
         /\ UNCHANGED <<config, shares, plan, progress, files, summary>>

Plan == /\ phase = "bulk"
        /\ ~Overflows(config.count, shares)
        /\ phase' = "events"
        /\ targets' = ComputeActivityTargets(config.count, shares)
        /\ fillers' = [t \in FillerTemplate |-> targets'[t]]
        /\ \E quiet \in kSubset(ZeroDays(config.days), Period(config.days)) :
               schedule' \in DaySchedule(config.days, quiet)
        /\ UNCHANGED <<config, shares, emitted, events, files, summary>>

WriteBulkFiles == /\ FillersTurn
                  /\ \A t \in FillerTemplate : fillers[t] = 0
                  /\ phase' = "done"
                  /\ files' = Written(BulkFiles)
                  /\ summary' = Summary(Rows(events), BulkFiles)
                  /\ UNCHANGED <<config, shares, plan, progress>>

-----------------------------------------------------------------------------

\* A file of an earlier run.
StaleFile == [api |-> Apis[1], dt |-> Today - MaxDays, name |-> 0]

NoTargets == [t \in Template |-> 0]

Init == /\ phase = "validate"
        /\ config \in Configs
        /\ shares \in Shares
        /\ targets = NoTargets
        /\ schedule = {}
        /\ emitted = [g \in Loop \cup {"filler"} |-> 0]
        /\ fillers = [t \in FillerTemplate |-> 0]
        /\ events = <<>>
        /\ files \in {<<>>, [k \in {StaleFile} |-> {}]}
        /\ summary = <<>>

Next == \/ Validate \/ PrepareOutputEventsDir \/ GenerateSmokeFiles
        \/ Panic \/ Plan
        \/ PushPair \/ PushOrphan \/ PushSaveDraft \/ PushInitialPublish
        \/ \E t \in FillerTemplate : PushFiller(t)
        \/ WriteBulkFiles

Spec == Init /\ [][Next]_vars

-----------------------------------------------------------------------------
(* Properties                                                              *)

Bulk == config.preset = "bulk"

Planned == Bulk /\ phase \in {"events", "done"}

TypeOK ==
    /\ phase \in {"validate", "rejected", "prepare", "smoke", "bulk", "panicked", "events", "done"}
    /\ config \in Configs
    /\ shares \in Shares
    /\ targets \in [Template -> Nat]
    /\ schedule \subseteq Period(config.days)
    /\ emitted \in [Loop \cup {"filler"} -> Nat]
    /\ \A g \in Loop : emitted[g] <= Rounds(g)
    /\ fillers \in [FillerTemplate -> Nat]
    /\ events \in Seq(Rows(events))
    /\ \A i \in DOMAIN events : /\ events[i].id = i
                               /\ events[i].event_kind \in Kind \cup {NoKind}

(***************************************************************************)
(* The schedule reaches today, which dashboards show first, and has as     *)
(* many days as asked for but for the quiet ones, whatever the draw and    *)
(* however short the period (schedule.rs:52-66, tests.rs:600-606).         *)
(***************************************************************************)
ScheduleReachesToday ==
    Planned => /\ Today \in schedule
               /\ schedule \subseteq Period(config.days)
               /\ Cardinality(schedule) = config.days - ZeroDays(config.days)

(***************************************************************************)
(* "--count" events are generated, neither more nor fewer, although shares *)
(* are rounded and a pair makes two (docs/local-debug.md:160,              *)
(* activity.rs:74-77, bulk.rs:114-116).                                    *)
(***************************************************************************)
CountIsHonored == Bulk /\ phase = "done" => Len(events) = config.count

(* What the loops and the fillers have contributed.                        *)
Used(t) == targets[t] - fillers[t]

FillersUsed ==
    Used("UpdatePublished") + Used("AddDraftToPublished") + Used("DiscardDraftOnPublished")
      + Used("UnpublishToDraft") + Used("UnpublishToClosed") + Used("ReopenToDraft")
      + Used("RepublishFromClosed") + Used("DeleteDraft") + Used("DeletePublished")
      + Used("DeleteClosed")

LoopsMade == 2 * emitted["pair"] + emitted["orphan"] + emitted["save"] + emitted["publish"]

Made == LoopsMade + FillersUsed

(* The kind of the events of each template.                                *)
KindOf ==
    [ InitialDraft |-> "INITIAL_DRAFT", SaveDraft |-> "SAVE_DRAFT",
      PublishFromDraft |-> "PUBLISH_FROM_DRAFT", InitialPublish |-> "INITIAL_PUBLISH",
      UpdatePublished |-> "UPDATE_PUBLISHED", AddDraftToPublished |-> "ADD_DRAFT_TO_PUBLISHED",
      DiscardDraftOnPublished |-> "DISCARD_DRAFT_ON_PUBLISHED",
      UnpublishToDraft |-> "UNPUBLISH_TO_DRAFT", UnpublishToClosed |-> "UNPUBLISH_TO_CLOSED",
      ReopenToDraft |-> "REOPEN_TO_DRAFT", RepublishFromClosed |-> "REPUBLISH_FROM_CLOSED",
      DeleteDraft |-> "DELETE_DRAFT", DeletePublished |-> "DELETE_PUBLISHED",
      DeleteClosed |-> "DELETE_CLOSED" ]

(* What the generator has made so far, by the number of rounds of each     *)
(* loop and the fillers used, is what it has appended (bulk.rs:105-313),   *)
Counted ==
    /\ TypeOK
    /\ phase \notin {"validate", "rejected"} => ValidateConfig(config)
    /\ phase \in {"bulk", "events"} => Bulk
    /\ phase = "smoke" => ~Bulk
    /\ phase \notin {"events", "done"} => events = <<>> /\ \A g \in Loop : emitted[g] = 0
    /\ Planned => targets = ComputeActivityTargets(config.count, shares)
    /\ ScheduleReachesToday
    /\ Planned => Len(events) = Made
    /\ Bulk /\ phase = "done" => /\ \A g \in Loop : emitted[g] = Rounds(g)
                                 /\ \A t \in FillerTemplate : fillers[t] = 0

(* kind by kind (event_kind.rs:28-69);                                     *)
MadeOf(t) == CASE t = "InitialDraft"     -> emitted["pair"] + emitted["orphan"]
               [] t = "PublishFromDraft" -> emitted["pair"]
               [] t = "SaveDraft"        -> emitted["save"]
               [] t = "InitialPublish"   -> emitted["publish"]
               [] OTHER                  -> Used(t)

KindsCounted ==
    Planned => \A t \in Template : Cardinality(OfKind(Rows(events), {KindOf[t]})) = MadeOf(t)

(* every round of the first loop has left one publication of a draft, and  *)
(* one first draft as long before it as the API takes, and nobody else     *)
(* either of them for these contents (bulk.rs:118-207);                    *)
Pair(i) == <<WeightedBulkApi(i), Ulid("bulk-metric-pair", WeightedBulkApi(i), i)>>

Orphan(i) == <<WeightedBulkApi(i), Ulid("bulk-orphan-draft", WeightedBulkApi(i), i)>>

Publications == OfKind(Rows(events), {"PUBLISH_FROM_DRAFT"})

PairsMade ==
    Planned =>
        LET pairs == 0 .. emitted["pair"] - 1
            orphans == 0 .. emitted["orphan"] - 1
        IN  /\ \A e \in Publications : \E i \in pairs : ContentOf(e) = Pair(i)
            /\ \A e \in OfKind(Rows(events), {"INITIAL_DRAFT"}) :
                   ContentOf(e) \in {Pair(i) : i \in pairs} \cup {Orphan(i) : i \in orphans}
            /\ \A i \in pairs : \E e \in Publications :
                   LET at == e.content_published_at
                   IN  /\ {f \in Publications : ContentOf(f) = Pair(i)} = {e}
                       /\ at \in Int
                       /\ DraftsAt(Rows(events), Pair(i))
                            = {at - DraftToPublishLead(WeightedBulkApi(i), i) * DayLength}

(* and its events are on the schedule, and in the files when it is done.   *)
Filed ==
    /\ phase \in {"smoke", "bulk", "events"} => files = <<>>
    /\ Planned => \A e \in Rows(events) : e.dt \in schedule
    /\ phase = "done" => /\ ~Bulk => events = SmokeFixtures
                         /\ files = (IF Bulk THEN BulkFiles ELSE SmokeFiles)
                         /\ summary = Summary(Rows(events), files)

(***************************************************************************)
(* Inductive: all of it, at every step.                                    *)
(***************************************************************************)
IInv == Counted /\ KindsCounted /\ PairsMade /\ Filed

(***************************************************************************)
(* What the events are classified as is what the targets asked for, kind   *)
(* by kind (tests.rs:457-517, event_kind.rs:28-69).                        *)
(***************************************************************************)
KindsMeetTargets ==
    Bulk /\ phase = "done" =>
        \A t \in Template : Cardinality(OfKind(Rows(events), {KindOf[t]})) = targets[t]

(***************************************************************************)
(* "draft-to-publish metrics stay driven by coordinated metric lifecycles  *)
(* only" (template.rs:40-41): over any part of the period they see pairs,  *)
(* each with the duration of its API, and over all of it every pair;       *)
(* orphans, saved drafts, direct publications and fillers do not disturb   *)
(* them (bulk.rs:118-180, average_draft_to_publish.rs:16-60).              *)
(***************************************************************************)
PairsDriveDraftToPublish ==
    Bulk /\ phase = "done" =>
        LET rows == Rows(events)
            index == 0 .. targets.PublishFromDraft - 1
            lead(days) == DraftToPublish(rows, rows, days)
        IN  /\ \A from, to \in Period(config.days) : \A c \in DOMAIN lead(from .. to) :
                   \E i \in index : /\ c = Pair(i)
                                    /\ lead(from .. to)[c] = DraftToPublishLead(WeightedBulkApi(i), i) * DayLength
            /\ DOMAIN lead(Period(config.days)) = {Pair(i) : i \in index}

(***************************************************************************)
(* The directory holds the events of this run and of no other: each is in  *)
(* one file, of its partition, no file has more rows than allowed or none, *)
(* and the summary describes them (bulk.rs:72-103, smoke.rs:41-61,         *)
(* io.rs:11-20).                                                           *)
(***************************************************************************)
FilesHoldEvents ==
    phase = "done" =>
        /\ \A k \in DOMAIN files :
               /\ Cardinality(files[k]) \in 1 .. config.rows_per_file
               /\ \A e \in files[k] : e.api = k.api /\ e.dt = k.dt
        /\ \A e \in Rows(events) : \E k \in DOMAIN files : e \in files[k]
        /\ Total([k \in DOMAIN files |-> Cardinality(files[k])]) = Len(events)
        /\ summary.event_count = Len(events) /\ summary.file_count = Cardinality(DOMAIN files)
        /\ \A k \in DOMAIN files : summary.min_dt <= k.dt /\ k.dt <= summary.max_dt
        /\ Bulk => {summary.min_dt, summary.max_dt} \subseteq Period(config.days)

(***************************************************************************)
(* The smoke fixtures are "aligned with the baseline of the integration    *)
(* test of duckdb-query-api" (docs/local-debug.md:137): the metrics over   *)
(* them are what that test expects (duckdb-query-api/src/lib.rs:334-390).  *)
(***************************************************************************)
SmokeMatchesBaseline ==
    ~Bulk /\ phase = "done" =>
        LET rows == Rows(events)
            days == Today - 3 .. Today
            activity == ApiActivity(rows, days)
            lead == DraftToPublish(rows, rows, days)
        IN  /\ {lead[c] : c \in DOMAIN lead} = {5 * DayLength}
            /\ CalendarHeatmap(rows, days)[Today - 2] = 10
            /\ activity["blogs"].total = 9 /\ activity["authors"].total = 1
            /\ PublishActionSummary(rows, days) = [publish |-> 2, published_state |-> 3, state_arrival |-> 6]

=============================================================================
