-------------------------- MODULE DebugSeedProofs --------------------------
(***************************************************************************)
(* Proofs about DebugSeed, for every configuration and every table of      *)
(* weights.                                                                *)
(***************************************************************************)
EXTENDS DebugSeed, EventKindProofs, MetricsProofs, SequenceTheorems

-----------------------------------------------------------------------------
(* Targets.                                                                *)

LEMMA RoundedDown ==
    ASSUME NEW a \in Nat, NEW n \in Nat \ {0}
    PROVE  a \div n \in Nat /\ n * (a \div n) <= a
  OBVIOUS

LEMMA DivisionGrows ==
    ASSUME NEW a \in Nat, NEW b \in Nat, NEW n \in Nat \ {0}, a <= b
    PROVE  a \div n <= b \div n
  OBVIOUS

LEMMA ProductCancels ==
    ASSUME NEW a \in Nat, NEW b \in Nat, NEW n \in Nat \ {0}, n * a <= n * b
    PROVE  a <= b
  OBVIOUS

LEMMA ProductGrows ==
    ASSUME NEW n \in Nat, NEW a \in Nat, NEW b \in Nat, a <= b
    PROVE  n * a <= n * b
  OBVIOUS

(* The total, in partial sums.                                             *)
Part1(f) == f.InitialDraft + f.SaveDraft + f.PublishFromDraft + f.InitialPublish + f.UpdatePublished
Part2(f) == Part1(f) + f.AddDraftToPublished + f.DiscardDraftOnPublished + f.UnpublishToDraft
Part3(f) == Part2(f) + f.UnpublishToClosed + f.ReopenToDraft + f.RepublishFromClosed
Part4(f) == Part3(f) + f.DeleteDraft + f.DeletePublished + f.DeleteClosed

LEMMA TotalInParts ==
    ASSUME NEW f \in [Template -> Nat]
    PROVE  /\ Part1(f) \in Nat /\ Part2(f) \in Nat /\ Part3(f) \in Nat /\ Part4(f) \in Nat
           /\ TargetTotal(f) = Part4(f)
           /\ TargetTotal(f) \in Nat
  <1>1. /\ f.InitialDraft \in Nat
       /\ f.SaveDraft \in Nat
       /\ f.PublishFromDraft \in Nat
       /\ f.InitialPublish \in Nat
       /\ f.UpdatePublished \in Nat
       /\ f.AddDraftToPublished \in Nat
       /\ f.DiscardDraftOnPublished \in Nat
       /\ f.UnpublishToDraft \in Nat
       /\ f.UnpublishToClosed \in Nat
       /\ f.ReopenToDraft \in Nat
       /\ f.RepublishFromClosed \in Nat
       /\ f.DeleteDraft \in Nat
       /\ f.DeletePublished \in Nat
       /\ f.DeleteClosed \in Nat
    BY DEF Template
  <1>2. Part1(f) \in Nat
    BY <1>1 DEF Part1
  <1>3. Part2(f) \in Nat
    BY <1>1, <1>2 DEF Part2
  <1>4. Part3(f) \in Nat
    BY <1>1, <1>3 DEF Part3
  <1>5. Part4(f) \in Nat
    BY <1>1, <1>4 DEF Part4
  <1>6. TargetTotal(f) = Part4(f)
    BY Zenon DEF TargetTotal, Part1, Part2, Part3, Part4
  <1> QED
    BY <1>2, <1>3, <1>4, <1>5, <1>6

(* A product with a total is the total of the products.                    *)
LEMMA TotalOfProducts ==
    ASSUME NEW n \in Nat, NEW f \in [Template -> Nat],
           NEW g \in [Template -> Nat], \A t \in Template : g[t] = n * f[t]
    PROVE  n * TargetTotal(f) = TargetTotal(g)
  <1>1. /\ g.InitialDraft = n * f.InitialDraft
       /\ g.SaveDraft = n * f.SaveDraft
       /\ g.PublishFromDraft = n * f.PublishFromDraft
       /\ g.InitialPublish = n * f.InitialPublish
       /\ g.UpdatePublished = n * f.UpdatePublished
       /\ g.AddDraftToPublished = n * f.AddDraftToPublished
       /\ g.DiscardDraftOnPublished = n * f.DiscardDraftOnPublished
       /\ g.UnpublishToDraft = n * f.UnpublishToDraft
       /\ g.UnpublishToClosed = n * f.UnpublishToClosed
       /\ g.ReopenToDraft = n * f.ReopenToDraft
       /\ g.RepublishFromClosed = n * f.RepublishFromClosed
       /\ g.DeleteDraft = n * f.DeleteDraft
       /\ g.DeletePublished = n * f.DeletePublished
       /\ g.DeleteClosed = n * f.DeleteClosed
    BY DEF Template
  <1>2. /\ f.InitialDraft \in Nat
       /\ f.SaveDraft \in Nat
       /\ f.PublishFromDraft \in Nat
       /\ f.InitialPublish \in Nat
       /\ f.UpdatePublished \in Nat
       /\ f.AddDraftToPublished \in Nat
       /\ f.DiscardDraftOnPublished \in Nat
       /\ f.UnpublishToDraft \in Nat
       /\ f.UnpublishToClosed \in Nat
       /\ f.ReopenToDraft \in Nat
       /\ f.RepublishFromClosed \in Nat
       /\ f.DeleteDraft \in Nat
       /\ f.DeletePublished \in Nat
       /\ f.DeleteClosed \in Nat
    BY DEF Template
  <1>3. n * Part1(f) = Part1(g)
    <2>1. \A x \in Nat, y \in Nat : x + y \in Nat /\ n * (x + y) = n * x + n * y
      OBVIOUS
    <2>2. n * (f.InitialDraft + f.SaveDraft) = g.InitialDraft + g.SaveDraft
      BY <1>1, <1>2, <2>1
    <2>3. n * (f.InitialDraft + f.SaveDraft + f.PublishFromDraft)
            = g.InitialDraft + g.SaveDraft + g.PublishFromDraft
      BY <1>1, <1>2, <2>1, <2>2
    <2>4. n * (f.InitialDraft + f.SaveDraft + f.PublishFromDraft + f.InitialPublish)
            = g.InitialDraft + g.SaveDraft + g.PublishFromDraft + g.InitialPublish
      BY <1>1, <1>2, <2>1, <2>3
    <2> QED
      BY <1>1, <1>2, <2>1, <2>4 DEF Part1
  <1>4. n * Part2(f) = Part2(g)
    BY <1>1, <1>2, <1>3, TotalInParts DEF Part2
  <1>5. n * Part3(f) = Part3(g)
    BY <1>1, <1>2, <1>4, TotalInParts DEF Part3
  <1>6. n * Part4(f) = Part4(g)
    BY <1>1, <1>2, <1>5, TotalInParts DEF Part4
  <1> QED
    BY <1>6, TotalInParts

LEMMA TotalGrows ==
    ASSUME NEW f \in [Template -> Nat], NEW g \in [Template -> Nat],
           \A t \in Template : f[t] <= g[t]
    PROVE  TargetTotal(f) <= TargetTotal(g)
  <1>1. /\ f.InitialDraft <= g.InitialDraft
       /\ f.SaveDraft <= g.SaveDraft
       /\ f.PublishFromDraft <= g.PublishFromDraft
       /\ f.InitialPublish <= g.InitialPublish
       /\ f.UpdatePublished <= g.UpdatePublished
       /\ f.AddDraftToPublished <= g.AddDraftToPublished
       /\ f.DiscardDraftOnPublished <= g.DiscardDraftOnPublished
       /\ f.UnpublishToDraft <= g.UnpublishToDraft
       /\ f.UnpublishToClosed <= g.UnpublishToClosed
       /\ f.ReopenToDraft <= g.ReopenToDraft
       /\ f.RepublishFromClosed <= g.RepublishFromClosed
       /\ f.DeleteDraft <= g.DeleteDraft
       /\ f.DeletePublished <= g.DeletePublished
       /\ f.DeleteClosed <= g.DeleteClosed
    BY DEF Template
  <1>2. /\ f.InitialDraft \in Nat /\ g.InitialDraft \in Nat
       /\ f.SaveDraft \in Nat /\ g.SaveDraft \in Nat
       /\ f.PublishFromDraft \in Nat /\ g.PublishFromDraft \in Nat
       /\ f.InitialPublish \in Nat /\ g.InitialPublish \in Nat
       /\ f.UpdatePublished \in Nat /\ g.UpdatePublished \in Nat
       /\ f.AddDraftToPublished \in Nat /\ g.AddDraftToPublished \in Nat
       /\ f.DiscardDraftOnPublished \in Nat /\ g.DiscardDraftOnPublished \in Nat
       /\ f.UnpublishToDraft \in Nat /\ g.UnpublishToDraft \in Nat
       /\ f.UnpublishToClosed \in Nat /\ g.UnpublishToClosed \in Nat
       /\ f.ReopenToDraft \in Nat /\ g.ReopenToDraft \in Nat
       /\ f.RepublishFromClosed \in Nat /\ g.RepublishFromClosed \in Nat
       /\ f.DeleteDraft \in Nat /\ g.DeleteDraft \in Nat
       /\ f.DeletePublished \in Nat /\ g.DeletePublished \in Nat
       /\ f.DeleteClosed \in Nat /\ g.DeleteClosed \in Nat
    BY DEF Template
  <1>3. Part1(f) <= Part1(g)
    BY <1>1, <1>2 DEF Part1
  <1>4. Part2(f) <= Part2(g)
    BY <1>1, <1>2, <1>3, TotalInParts DEF Part2
  <1>5. Part3(f) <= Part3(g)
    BY <1>1, <1>2, <1>4, TotalInParts DEF Part3
  <1>6. Part4(f) <= Part4(g)
    BY <1>1, <1>2, <1>5, TotalInParts DEF Part4
  <1> QED
    BY <1>6, TotalInParts

(* The shares, rounded down, are no more than the total; what is left is   *)
(* handed out.                                                             *)
LEMMA TargetsAddUp ==
    ASSUME NEW total \in Nat, NEW w, IsTable(w, WeightTotal),
           NEW f, f = ComputeActivityTargets(total, w)
    PROVE  /\ f \in [Template -> Nat]
           /\ TargetTotal(f) = total
           /\ f.PublishFromDraft <= f.InitialDraft
  <1> DEFINE product == [t \in Template |-> total * w[t]]
             counts == [t \in Template |-> (total * w[t]) \div WeightTotal]
             scaled == [t \in Template |-> WeightTotal * counts[t]]
  <1>1. /\ WeightTotal \in Nat \ {0}
        /\ w \in [Template -> Nat] /\ TargetTotal(w) = WeightTotal
        /\ w.PublishFromDraft <= w.InitialDraft
    BY SeedAssumption DEF IsTable
  <1>2. product \in [Template -> Nat]
    BY <1>1
  <1>3. \A t \in Template : counts[t] \in Nat /\ scaled[t] \in Nat /\ scaled[t] <= product[t]
    BY <1>1, <1>2, RoundedDown
  <1>4. counts \in [Template -> Nat] /\ scaled \in [Template -> Nat]
    BY <1>3
  <1>5. TargetTotal(counts) <= total
    <2>1. TargetTotal(scaled) <= TargetTotal(product)
      BY <1>2, <1>3, <1>4, TotalGrows
    <2>2. TargetTotal(scaled) = WeightTotal * TargetTotal(counts)
      BY <1>1, <1>4, TotalOfProducts
    <2>3. TargetTotal(product) = total * WeightTotal
      BY <1>1, <1>2, TotalOfProducts
    <2>4. TargetTotal(counts) \in Nat
      BY <1>4, TotalInParts
    <2>5. WeightTotal * TargetTotal(counts) <= WeightTotal * total
      BY <1>1, <2>1, <2>2, <2>3
    <2> QED
      BY <1>1, <2>4, <2>5, ProductCancels
  <1>6. counts["PublishFromDraft"] <= counts["InitialDraft"]
    <2>1. "PublishFromDraft" \in Template /\ "InitialDraft" \in Template
      BY DEF Template
    <2>2. total * w["PublishFromDraft"] <= total * w["InitialDraft"]
      BY <1>1, <2>1, ProductGrows
    <2> QED
      BY <1>1, <1>2, <2>1, <2>2, DivisionGrows
  <1>7. TargetTotal(counts) \in Nat
    BY <1>4, TotalInParts
  <1>8. f = [counts EXCEPT !["DeleteClosed"] = @ + (total - TargetTotal(counts))]
    BY <1>5, <1>7 DEF ComputeActivityTargets, SaturatingSub
  <1> HIDE DEF counts
  <1>9. f \in [Template -> Nat]
    BY <1>4, <1>5, <1>7, <1>8 DEF Template
  <1>10. TargetTotal(f) = total
    <2>1. /\ f.InitialDraft = counts.InitialDraft
         /\ f.SaveDraft = counts.SaveDraft
         /\ f.PublishFromDraft = counts.PublishFromDraft
         /\ f.InitialPublish = counts.InitialPublish
         /\ f.UpdatePublished = counts.UpdatePublished
         /\ f.AddDraftToPublished = counts.AddDraftToPublished
         /\ f.DiscardDraftOnPublished = counts.DiscardDraftOnPublished
         /\ f.UnpublishToDraft = counts.UnpublishToDraft
         /\ f.UnpublishToClosed = counts.UnpublishToClosed
         /\ f.ReopenToDraft = counts.ReopenToDraft
         /\ f.RepublishFromClosed = counts.RepublishFromClosed
         /\ f.DeleteDraft = counts.DeleteDraft
         /\ f.DeletePublished = counts.DeletePublished
      BY <1>8 DEF Template
    <2>2. Part3(f) = Part3(counts)
      BY <2>1 DEF Part1, Part2, Part3
    <2>3. f.DeleteClosed = counts.DeleteClosed + (total - Part4(counts))
      BY <1>4, <1>8, TotalInParts DEF Template
    <2>4. Part3(counts) \in Nat /\ Part4(counts) \in Nat /\ TargetTotal(counts) = Part4(counts)
      BY <1>4, TotalInParts
    <2>5. counts.DeleteDraft \in Nat /\ counts.DeletePublished \in Nat /\ counts.DeleteClosed \in Nat
      BY <1>4 DEF Template
    <2>6. Part4(f) = total
      BY <2>1, <2>2, <2>3, <2>4, <2>5 DEF Part4
    <2> QED
      BY <1>9, <2>6, TotalInParts
  <1> QED
    BY <1>4, <1>6, <1>8, <1>9, <1>10 DEF Template

-----------------------------------------------------------------------------
(* Schedule.                                                               *)

LEMMA MinOfTwo ==
    ASSUME NEW a \in Int, NEW b \in Int
    PROVE  Min({a, b}) = IF a <= b THEN a ELSE b
  BY DEF Min

LEMMA PeriodOfDays ==
    ASSUME NEW days \in Nat \ {0}
    PROVE  /\ IsFiniteSet(Period(days)) /\ Cardinality(Period(days)) = days
           /\ Today \in Period(days) /\ Period(days) \subseteq Int
           /\ ZeroDays(days) \in 0 .. days - 1
  <1>1. Today \in Int
    BY SeedAssumption
  <1>2. Today - days + 1 \in Int /\ Today - days + 1 <= Today
    BY <1>1
  <1>3. IsFiniteSet(Period(days)) /\ Cardinality(Period(days)) = days
    BY <1>1, <1>2, FS_Interval DEF Period
  <1>4. (2 * days + 5) \div 10 \in Nat /\ days - 1 \in Nat
    OBVIOUS
  <1>5. ZeroDays(days) \in 0 .. days - 1
    BY <1>4, MinOfTwo DEF ZeroDays
  <1> QED
    BY <1>1, <1>2, <1>3, <1>5 DEF Period

LEMMA ScheduleIsComplete ==
    ASSUME NEW days \in Nat \ {0}, NEW quiet \in kSubset(ZeroDays(days), Period(days)),
           NEW active \in DaySchedule(days, quiet)
    PROVE  /\ Today \in active /\ active \subseteq Period(days)
           /\ Cardinality(active) = days - ZeroDays(days)
  <1> DEFINE loud == Period(days) \ quiet
  <1>1. quiet \subseteq Period(days) /\ Cardinality(quiet) = ZeroDays(days)
    BY DEF kSubset
  <1>2. IsFiniteSet(loud) /\ Cardinality(loud) = days - ZeroDays(days)
    <2>1. Period(days) \cap quiet = quiet
      BY <1>1
    <2> QED
      <3>1. loud = Period(days) \ quiet /\ IsFiniteSet(Period(days)) /\ Cardinality(Period(days)) = days
        BY PeriodOfDays
      <3>2. IsFiniteSet(loud)
        BY <3>1, FS_Difference
      <3>3. Cardinality(loud) = Cardinality(Period(days)) - Cardinality(Period(days) \cap quiet)
        BY <3>1, FS_Difference
      <3> QED
        BY <1>1, <2>1, <3>1, <3>2, <3>3
  <1>3. CASE Today \in loud
    BY <1>2, <1>3 DEF DaySchedule
  <1>4. CASE Today \notin loud
    <2>1. PICK d \in loud : active = (loud \cup {Today}) \ {d}
      BY <1>4 DEF DaySchedule
    <2>2. IsFiniteSet(loud \cup {Today}) /\ Cardinality(loud \cup {Today}) = Cardinality(loud) + 1
      BY <1>2, <1>4, FS_AddElement
    <2>3. Cardinality(active) = Cardinality(loud \cup {Today}) - 1
      <3>1. d \in loud \cup {Today}
        OBVIOUS
      <3> QED
        BY <2>1, <2>2, <3>1, FS_RemoveElement
    <2>4. Cardinality(loud) \in Nat
      BY <1>2, FS_CardinalityType
    <2>5. Today \in active /\ active \subseteq Period(days)
      BY <1>4, <2>1, PeriodOfDays
    <2> QED
      BY <1>2, <2>2, <2>3, <2>4, <2>5
  <1> QED
    BY <1>3, <1>4

-----------------------------------------------------------------------------
(* Events.                                                                 *)

(* A sequence is one over what is in it.                                   *)
LEMMA SeqOfRows ==
    ASSUME NEW S, NEW s \in Seq(S)
    PROVE  s \in Seq(Rows(s)) /\ Rows(s) \subseteq S
  <1>1. s \in [1 .. Len(s) -> S] /\ DOMAIN s = 1 .. Len(s) /\ Len(s) \in Nat
    OBVIOUS
  <1>2. \A i \in 1 .. Len(s) : s[i] \in Rows(s)
    BY <1>1 DEF Rows
  <1>3. s \in [1 .. Len(s) -> Rows(s)]
    BY <1>1, <1>2
  <1> QED
    BY <1>1, <1>3 DEF Rows

(* Well numbered: the n-th event has the id n, and each has a kind.        *)
Numbered(s) ==
    /\ s \in Seq(Rows(s))
    /\ \A i \in DOMAIN s : s[i].id = i /\ s[i].event_kind \in Kind \cup {NoKind}

LEMMA OneMore ==
    ASSUME NEW s, Numbered(s), NEW e,
           e.id = Len(s) + 1, e.event_kind \in Kind \cup {NoKind}
    PROVE  Numbered(s \o <<e>>) /\ Len(s \o <<e>>) = Len(s) + 1
  <1> DEFINE S == Rows(s) \cup {e}
             t == s \o <<e>>
  <1>1. s \in Seq(S) /\ <<e>> \in Seq(S)
    BY DEF Numbered
  <1>2. t \in Seq(S) /\ Len(t) = Len(s) + 1 /\ Len(s) \in Nat
    BY <1>1
  <1>3. \A i \in 1 .. Len(s) + 1 : t[i] = IF i <= Len(s) THEN s[i] ELSE e
    BY <1>1
  <1>4. DOMAIN t = 1 .. Len(s) + 1 /\ DOMAIN s = 1 .. Len(s)
    BY <1>1, <1>2
  <1>5. t \in Seq(Rows(t))
    BY <1>2, SeqOfRows
  <1>6. ASSUME NEW i \in DOMAIN t
        PROVE  t[i].id = i /\ t[i].event_kind \in Kind \cup {NoKind}
    <2>1. CASE i <= Len(s)
      <3>1. i \in DOMAIN s /\ t[i] = s[i]
        BY <1>3, <1>4, <2>1
      <3> QED
        BY <3>1 DEF Numbered
    <2>2. CASE ~(i <= Len(s))
      <3>1. i = Len(s) + 1 /\ t[i] = e
        BY <1>2, <1>3, <1>4, <2>2
      <3> QED
        BY <3>1
    <2> QED
      BY <2>1, <2>2
  <1> QED
    BY <1>2, <1>5, <1>6 DEF Numbered

(* Two events are one after the other.                                     *)
LEMMA OneByOne ==
    ASSUME NEW s, Numbered(s), NEW d, NEW e
    PROVE  s \o <<d, e>> = (s \o <<d>>) \o <<e>>
  <1> DEFINE S == Rows(s) \cup {d, e}
             t == s \o <<d>>
  <1>1. s \in Seq(S) /\ <<d>> \in Seq(S) /\ <<e>> \in Seq(S) /\ <<d, e>> \in Seq(S)
    BY DEF Numbered
  <1>2. Len(s) \in Nat
    BY <1>1
  <1>3. <<d, e>> \in Seq(S) /\ t \o <<e>> \in Seq(S) /\ s \o <<d, e>> \in Seq(S)
    BY <1>1
  <1>4. Len(t \o <<e>>) = Len(s) + 2 /\ Len(s \o <<d, e>>) = Len(s) + 2
    BY <1>1
  <1>5. \A i \in 1 .. Len(s) + 2 : (s \o <<d, e>>)[i] = IF i <= Len(s) THEN s[i]
                                                       ELSE IF i = Len(s) + 1 THEN d ELSE e
    BY <1>1, <1>2
  <1>6. \A i \in 1 .. Len(s) + 2 : (t \o <<e>>)[i] = IF i <= Len(s) THEN s[i]
                                                    ELSE IF i = Len(s) + 1 THEN d ELSE e
    BY <1>1, <1>2
  <1>7. \A i \in 1 .. Len(s \o <<d, e>>) : (s \o <<d, e>>)[i] = (t \o <<e>>)[i]
    BY <1>4, <1>5, <1>6, Zenon
  <1>8. Len(s \o <<d, e>>) = Len(t \o <<e>>)
    BY <1>4, Zenon
  <1> HIDE DEF t, S
  <1>9. s \o <<d, e>> = t \o <<e>>
    BY <1>3, <1>7, <1>8, SeqEqual, Zenon
  <1> QED
    BY <1>9 DEF t

LEMMA TwoMore ==
    ASSUME NEW s, Numbered(s), NEW d, NEW e,
           d.id = Len(s) + 1, d.event_kind \in Kind \cup {NoKind},
           e.id = Len(s) + 2, e.event_kind \in Kind \cup {NoKind}
    PROVE  Numbered(s \o <<d, e>>) /\ Len(s \o <<d, e>>) = Len(s) + 2
  <1> DEFINE t == s \o <<d>>
  <1>1. Numbered(t) /\ Len(t) = Len(s) + 1
    BY OneMore
  <1>2. Len(s) \in Nat
    BY DEF Numbered
  <1>3. e.id = Len(t) + 1
    BY <1>1, <1>2
  <1>4. s \o <<d, e>> = t \o <<e>>
    BY OneByOne
  <1> HIDE DEF t
  <1>5. Numbered(t \o <<e>>) /\ Len(t \o <<e>>) = Len(t) + 1
    BY <1>1, <1>3, OneMore
  <1>6. Len(t) + 1 = Len(s) + 2
    BY <1>1, <1>2
  <1> QED
    BY <1>4, <1>5, <1>6, Zenon

LEMMA EventIsClassified ==
    ASSUME NEW id, NEW api, NEW content, NEW body, NEW at, NEW timing
    PROVE  /\ Normalized(id, api, content, body, at, timing).id = id
           /\ Normalized(id, api, content, body, at, timing).event_kind \in Kind \cup {NoKind}
  BY DeriveEventKindType DEF Normalized

LEMMA SmokeFixturesAreNumbered == Numbered(SmokeFixtures)
  <1>1. \A id, api, content, type, old, new, hour, timing :
            LET e == SmokeFixture(id, api, content, type, old, new, hour, timing)
            IN  e.id = id /\ e.event_kind \in Kind \cup {NoKind}
    BY EventIsClassified DEF SmokeFixture
  <1>2. PICK a, b, c, d, e, f, g, h :
            /\ SmokeFixtures = <<a, b, c, d, e, f, g, h>>
            /\ a.id = 1 /\ b.id = 2 /\ c.id = 3 /\ d.id = 4
            /\ e.id = 5 /\ f.id = 6 /\ g.id = 7 /\ h.id = 8
            /\ {a.event_kind, b.event_kind, c.event_kind, d.event_kind,
                e.event_kind, f.event_kind, g.event_kind, h.event_kind} \subseteq Kind \cup {NoKind}
    BY <1>1 DEF SmokeFixtures
  <1>3. SmokeFixtures \in Seq({a, b, c, d, e, f, g, h})
    BY <1>2
  <1>4. DOMAIN SmokeFixtures = 1 .. 8
    BY <1>2
  <1>5. ASSUME NEW i \in 1 .. 8
        PROVE  SmokeFixtures[i].id = i /\ SmokeFixtures[i].event_kind \in Kind \cup {NoKind}
    <2>1. i \in {1, 2, 3, 4, 5, 6, 7, 8}
      OBVIOUS
    <2> QED
      BY <1>2, <2>1
  <1> QED
    BY <1>3, <1>4, <1>5, SeqOfRows DEF Numbered

-----------------------------------------------------------------------------
(* The inductive invariant.                                                *)

(* When all is done, the loops have contributed their targets,             *)
LEMMA AllRounds ==
    ASSUME targets \in [Template -> Nat], targets.PublishFromDraft <= targets.InitialDraft,
           \A g \in Loop : emitted[g] = Rounds(g)
    PROVE  LoopsMade = Part1(targets) - targets.UpdatePublished
  <1>1. /\ emitted["pair"] = targets.PublishFromDraft
        /\ emitted["orphan"] = targets.InitialDraft - targets.PublishFromDraft
        /\ emitted["save"] = targets.SaveDraft
        /\ emitted["publish"] = targets.InitialPublish
    BY DEF Rounds, Loop, SaturatingSub, Template
  <1>2. LoopsMade = 2 * targets.PublishFromDraft + (targets.InitialDraft - targets.PublishFromDraft)
                      + targets.SaveDraft + targets.InitialPublish
    BY <1>1, Zenon DEF LoopsMade
  <1>3. /\ targets.InitialDraft \in Int /\ targets.SaveDraft \in Int
        /\ targets.PublishFromDraft \in Int /\ targets.InitialPublish \in Int
        /\ targets.UpdatePublished \in Int
    BY DEF Template
  <1> QED
    BY <1>2, <1>3 DEF Part1

(* and the fillers theirs.                                                 *)
LEMMA AllUsed ==
    ASSUME targets \in [Template -> Nat], \A t \in FillerTemplate : fillers[t] = 0
    PROVE  FillersUsed = targets.UpdatePublished + (Part4(targets) - Part1(targets))
  <1>1. /\ Used("UpdatePublished") = targets.UpdatePublished
       /\ Used("AddDraftToPublished") = targets.AddDraftToPublished
       /\ Used("DiscardDraftOnPublished") = targets.DiscardDraftOnPublished
       /\ Used("UnpublishToDraft") = targets.UnpublishToDraft
       /\ Used("UnpublishToClosed") = targets.UnpublishToClosed
       /\ Used("ReopenToDraft") = targets.ReopenToDraft
       /\ Used("RepublishFromClosed") = targets.RepublishFromClosed
       /\ Used("DeleteDraft") = targets.DeleteDraft
       /\ Used("DeletePublished") = targets.DeletePublished
       /\ Used("DeleteClosed") = targets.DeleteClosed
    BY DEF Used, FillerTemplate, Template
  <1>2. /\ targets.UpdatePublished \in Int
       /\ targets.AddDraftToPublished \in Int
       /\ targets.DiscardDraftOnPublished \in Int
       /\ targets.UnpublishToDraft \in Int
       /\ targets.UnpublishToClosed \in Int
       /\ targets.ReopenToDraft \in Int
       /\ targets.RepublishFromClosed \in Int
       /\ targets.DeleteDraft \in Int
       /\ targets.DeletePublished \in Int
       /\ targets.DeleteClosed \in Int
    BY DEF Template
  <1>3. Part1(targets) \in Int
    BY TotalInParts
  <1>4. Part4(targets) - Part1(targets) =
            targets.AddDraftToPublished + targets.DiscardDraftOnPublished + targets.UnpublishToDraft
              + targets.UnpublishToClosed + targets.ReopenToDraft + targets.RepublishFromClosed
              + targets.DeleteDraft + targets.DeletePublished + targets.DeleteClosed
    BY <1>2, <1>3 DEF Part4, Part3, Part2
  <1> QED
    BY <1>1, <1>2, <1>4 DEF FillersUsed

LEMMA InitCounted == Init => Counted
  <1> SUFFICES ASSUME Init PROVE Counted
    OBVIOUS
  <1> USE DEF Init
  <1>1. NoTargets \in [Template -> Nat] /\ \A t \in Template : NoTargets[t] = 0
    BY DEF NoTargets
  <1>2. Numbered(events) /\ events = <<>>
    BY DEF Numbered, Rows
  <1>3. \A g \in Loop : Rounds(g) = 0
    BY <1>1 DEF Rounds, Loop, SaturatingSub, Template
  <1>4. fillers \in [FillerTemplate -> Nat] /\ emitted \in [Loop \cup {"filler"} -> Nat]
    OBVIOUS
  <1>5. TypeOK
    BY <1>1, <1>2, <1>3, <1>4 DEF TypeOK, Numbered
  <1> QED
    BY <1>2, <1>5 DEF Counted, Planned, ScheduleReachesToday

(* What a configuration that is accepted looks like.                       *)
LEMMA Accepted ==
    ASSUME TypeOK, ValidateConfig(config)
    PROVE  /\ config.days \in Nat \ {0} /\ config.count \in Nat
           /\ IsTable(shares, WeightTotal)
  BY SeedAssumption DEF TypeOK, ValidateConfig, Config

(* What the fillers have contributed.                                      *)
LEMMA UsedOfTemplates ==
    ASSUME TypeOK
    PROVE  /\ \A t \in FillerTemplate : Used(t) \in Int
           /\ FillersUsed \in Int
  <1>1. \A t \in FillerTemplate : Used(t) \in Int
    BY DEF TypeOK, Used, FillerTemplate
  <1>2. FillerTemplate = {"UpdatePublished", "AddDraftToPublished", "DiscardDraftOnPublished",
                          "UnpublishToDraft", "UnpublishToClosed", "ReopenToDraft",
                          "RepublishFromClosed", "DeleteDraft", "DeletePublished",
                          "DeleteClosed"}
    BY DEF FillerTemplate, Template
  <1>3. /\ Used("UpdatePublished") \in Int
       /\ Used("AddDraftToPublished") \in Int
       /\ Used("DiscardDraftOnPublished") \in Int
       /\ Used("UnpublishToDraft") \in Int
       /\ Used("UnpublishToClosed") \in Int
       /\ Used("ReopenToDraft") \in Int
       /\ Used("RepublishFromClosed") \in Int
       /\ Used("DeleteDraft") \in Int
       /\ Used("DeletePublished") \in Int
       /\ Used("DeleteClosed") \in Int
    BY <1>1, <1>2
  <1>4. Used("UpdatePublished") + Used("AddDraftToPublished") + Used("DiscardDraftOnPublished")
          + Used("UnpublishToDraft") + Used("UnpublishToClosed") \in Int
    BY <1>3
  <1> QED
    BY <1>1, <1>3, <1>4 DEF FillersUsed

LEMMA OneMoreUsed ==
    ASSUME NEW t \in FillerTemplate,
           \A u \in FillerTemplate : /\ Used(u) \in Int
                                     /\ Used(u)' = Used(u) + IF u = t THEN 1 ELSE 0
    PROVE  FillersUsed' = FillersUsed + 1
  <1> DEFINE One(u) == IF u = t THEN 1 ELSE 0
  <1>1. /\ Used("UpdatePublished") \in Int
       /\ Used("AddDraftToPublished") \in Int
       /\ Used("DiscardDraftOnPublished") \in Int
       /\ Used("UnpublishToDraft") \in Int
       /\ Used("UnpublishToClosed") \in Int
       /\ Used("ReopenToDraft") \in Int
       /\ Used("RepublishFromClosed") \in Int
       /\ Used("DeleteDraft") \in Int
       /\ Used("DeletePublished") \in Int
       /\ Used("DeleteClosed") \in Int
    BY DEF FillerTemplate, Template
  <1>2. /\ Used("UpdatePublished")' = Used("UpdatePublished") + One("UpdatePublished")
       /\ Used("AddDraftToPublished")' = Used("AddDraftToPublished") + One("AddDraftToPublished")
       /\ Used("DiscardDraftOnPublished")' = Used("DiscardDraftOnPublished") + One("DiscardDraftOnPublished")
       /\ Used("UnpublishToDraft")' = Used("UnpublishToDraft") + One("UnpublishToDraft")
       /\ Used("UnpublishToClosed")' = Used("UnpublishToClosed") + One("UnpublishToClosed")
       /\ Used("ReopenToDraft")' = Used("ReopenToDraft") + One("ReopenToDraft")
       /\ Used("RepublishFromClosed")' = Used("RepublishFromClosed") + One("RepublishFromClosed")
       /\ Used("DeleteDraft")' = Used("DeleteDraft") + One("DeleteDraft")
       /\ Used("DeletePublished")' = Used("DeletePublished") + One("DeletePublished")
       /\ Used("DeleteClosed")' = Used("DeleteClosed") + One("DeleteClosed")
    BY DEF FillerTemplate, Template
  <1>3. One("UpdatePublished") + One("AddDraftToPublished")
         + One("DiscardDraftOnPublished") + One("UnpublishToDraft")
         + One("UnpublishToClosed") + One("ReopenToDraft")
         + One("RepublishFromClosed") + One("DeleteDraft")
         + One("DeletePublished") + One("DeleteClosed") = 1
    BY DEF FillerTemplate, Template
  <1>4. /\ One("UpdatePublished") \in Int
       /\ One("AddDraftToPublished") \in Int
       /\ One("DiscardDraftOnPublished") \in Int
       /\ One("UnpublishToDraft") \in Int
       /\ One("UnpublishToClosed") \in Int
       /\ One("ReopenToDraft") \in Int
       /\ One("RepublishFromClosed") \in Int
       /\ One("DeleteDraft") \in Int
       /\ One("DeletePublished") \in Int
       /\ One("DeleteClosed") \in Int
    OBVIOUS
  <1> HIDE DEF One
  <1> QED
    BY <1>1, <1>2, <1>3, <1>4 DEF FillersUsed

LEMMA NoneUsed ==
    ASSUME \A t \in FillerTemplate : Used(t)' = 0
    PROVE  FillersUsed' = 0
  <1>1. /\ Used("UpdatePublished")' = 0
       /\ Used("AddDraftToPublished")' = 0
       /\ Used("DiscardDraftOnPublished")' = 0
       /\ Used("UnpublishToDraft")' = 0
       /\ Used("UnpublishToClosed")' = 0
       /\ Used("ReopenToDraft")' = 0
       /\ Used("RepublishFromClosed")' = 0
       /\ Used("DeleteDraft")' = 0
       /\ Used("DeletePublished")' = 0
       /\ Used("DeleteClosed")' = 0
    BY DEF FillerTemplate, Template
  <1> QED
    BY <1>1 DEF FillersUsed

(* While the plan stays as it is.                                          *)
LEMMA SameTypes ==
    ASSUME TypeOK, UNCHANGED <<config, shares, targets, schedule, emitted, fillers>>,
           phase' \in {"validate", "rejected", "prepare", "smoke", "bulk", "panicked", "events", "done"},
           Numbered(events')
    PROVE  TypeOK'
  <1>1. \A g \in Loop : Rounds(g)' = Rounds(g)
    BY DEF Rounds
  <1>2. Period(config.days)' = Period(config.days)
    BY DEF Period
  <1>3. events' \in Seq(Rows(events)')
    BY DEF Numbered, Rows
  <1> QED
    BY <1>1, <1>2, <1>3 DEF TypeOK, Numbered

(* Before there are events.                                                *)
LEMMA StillIdle ==
    ASSUME Counted, phase \notin {"events", "done"}, UNCHANGED <<config, shares, plan, progress>>,
           phase' \in {"rejected", "prepare", "smoke", "bulk", "panicked"},
           phase' # "rejected" => ValidateConfig(config),
           phase' = "bulk" => Bulk, phase' = "smoke" => ~Bulk
    PROVE  Counted'
  <1>1. UNCHANGED <<config, shares, targets, schedule, emitted, fillers, events>>
    BY DEF plan, progress
  <1>2. TypeOK /\ Numbered(events')
    BY <1>1 DEF Counted, TypeOK, Numbered
  <1>3. TypeOK'
    BY <1>1, <1>2, SameTypes
  <1> QED
    BY <1>1, <1>3 DEF Counted, Planned, Bulk, ScheduleReachesToday

(* While only the events grow.                                             *)
LEMMA RoundKeepsCount ==
    ASSUME Counted, phase = "events",
           UNCHANGED <<phase, config, shares, plan, files, summary>>,
           Numbered(events'),
           emitted' \in [Loop \cup {"filler"} -> Nat],
           \A g \in Loop : emitted'[g] <= Rounds(g),
           fillers' \in [FillerTemplate -> Nat],
           Len(events') = Made'
    PROVE  Counted'
  <1>1. UNCHANGED <<phase, config, shares, targets, schedule>>
    BY DEF plan
  <1>2. \A g \in Loop : Rounds(g)' = Rounds(g)
    BY <1>1 DEF Rounds
  <1>3. TypeOK'
    BY <1>1, <1>2 DEF Counted, TypeOK, Numbered, Period, Rows
  <1> QED
    BY <1>1, <1>3 DEF Counted, Planned, ScheduleReachesToday, Bulk, Period, ZeroDays, Loop

(* A round of a loop.                                                      *)
LEMMA LoopKeepsCount ==
    ASSUME Counted, NEW g \in Loop, Turn(g), NEW new, PushBulkEvents(g, new), UNCHANGED fillers,
           Numbered(events \o new), Len(events \o new) = Len(events) + IF g = "pair" THEN 2 ELSE 1
    PROVE  Counted'
  <1>1. phase = "events" /\ Bulk /\ Len(events) = Made
    BY DEF Counted, Turn, Planned
  <1>2. emitted \in [Loop \cup {"filler"} -> Nat] /\ \A h \in Loop : Rounds(h) \in Nat
    <2>1. emitted \in [Loop \cup {"filler"} -> Nat] /\ targets \in [Template -> Nat]
      BY DEF Counted, TypeOK
    <2>2. \A a, b \in Nat : SaturatingSub(a, b) \in Nat
      BY DEF SaturatingSub
    <2>3. \A h \in Loop : Rounds(h) \in Nat
      BY <2>1, <2>2 DEF Rounds, Loop, Template
    <2> QED
      BY <2>1, <2>3
  <1>3. emitted' = [emitted EXCEPT ![g] = emitted[g] + 1]
    BY DEF PushBulkEvents
  <1>4. emitted' \in [Loop \cup {"filler"} -> Nat]
    BY <1>2, <1>3
  <1>5. \A h \in Loop : emitted'[h] <= Rounds(h)
    BY <1>2, <1>3 DEF Counted, TypeOK, Turn
  <1>6. Made' = Made + IF g = "pair" THEN 2 ELSE 1
    <2>1. UNCHANGED <<targets, fillers>>
      BY DEF PushBulkEvents, plan
    <2>2. FillersUsed' = FillersUsed
      BY <2>1 DEF FillersUsed, Used
    <2>3. FillersUsed \in Int
      BY UsedOfTemplates DEF Counted
    <2>4. /\ "pair" \in Loop /\ "orphan" \in Loop /\ "save" \in Loop /\ "publish" \in Loop
          /\ g \in {"pair", "orphan", "save", "publish"}
      BY DEF Loop
    <2> DEFINE a == emitted["pair"]
               b == emitted["orphan"]
               c == emitted["save"]
               d == emitted["publish"]
    <2>5. a \in Nat /\ b \in Nat /\ c \in Nat /\ d \in Nat
      BY <1>2, <2>4
    <2>6. LoopsMade = 2 * a + b + c + d
      BY Zenon DEF LoopsMade
    <2>7. LoopsMade' = 2 * (a + IF g = "pair" THEN 1 ELSE 0) + (b + IF g = "orphan" THEN 1 ELSE 0)
                         + (c + IF g = "save" THEN 1 ELSE 0) + (d + IF g = "publish" THEN 1 ELSE 0)
      <3>1. /\ emitted'["pair"] = a + IF g = "pair" THEN 1 ELSE 0
            /\ emitted'["orphan"] = b + IF g = "orphan" THEN 1 ELSE 0
            /\ emitted'["save"] = c + IF g = "save" THEN 1 ELSE 0
            /\ emitted'["publish"] = d + IF g = "publish" THEN 1 ELSE 0
        BY <1>2, <1>3, <2>4, <2>5
      <3> QED
        BY <3>1, Zenon DEF LoopsMade
    <2> HIDE DEF a, b, c, d
    <2>8. LoopsMade \in Int /\ LoopsMade' = LoopsMade + IF g = "pair" THEN 2 ELSE 1
      BY <2>4, <2>5, <2>6, <2>7
    <2> QED
      BY <2>2, <2>3, <2>8 DEF Made
  <1> QED
    BY <1>1, <1>4, <1>5, <1>6, RoundKeepsCount DEF PushBulkEvents, Counted, TypeOK

(* A filler.                                                               *)
LEMMA FillerKeepsCount ==
    ASSUME Counted, NEW t \in FillerTemplate, FillersTurn, fillers[t] > 0,
           fillers' = [fillers EXCEPT ![t] = @ - 1],
           NEW new, PushBulkEvents("filler", new),
           Numbered(events \o new), Len(events \o new) = Len(events) + 1
    PROVE  Counted'
  <1>1. phase = "events" /\ Bulk /\ Len(events) = Made
    BY DEF Counted, FillersTurn, Planned
  <1>2. emitted \in [Loop \cup {"filler"} -> Nat] /\ fillers \in [FillerTemplate -> Nat]
    BY DEF Counted, TypeOK
  <1>3. emitted' = [emitted EXCEPT !["filler"] = emitted["filler"] + 1]
    BY DEF PushBulkEvents
  <1>4. "filler" \notin Loop
    BY DEF Loop
  <1>5. emitted' \in [Loop \cup {"filler"} -> Nat] /\ \A g \in Loop : emitted'[g] = emitted[g]
    BY <1>2, <1>3, <1>4
  <1>6. fillers' \in [FillerTemplate -> Nat]
    BY <1>2
  <1>7. FillersUsed' = FillersUsed + 1
    <2>1. \A u \in FillerTemplate : /\ Used(u) \in Int
                                   /\ Used(u)' = Used(u) + IF u = t THEN 1 ELSE 0
      BY <1>2 DEF PushBulkEvents, plan, Used, Counted, TypeOK, FillerTemplate
    <2> QED
      BY <2>1, OneMoreUsed
  <1>8. Made' = Made + 1
    <2>1. FillersUsed \in Int
      BY UsedOfTemplates DEF Counted
    <2>2. /\ emitted'["pair"] = emitted["pair"] /\ emitted["pair"] \in Nat
          /\ emitted'["orphan"] = emitted["orphan"] /\ emitted["orphan"] \in Nat
          /\ emitted'["save"] = emitted["save"] /\ emitted["save"] \in Nat
          /\ emitted'["publish"] = emitted["publish"] /\ emitted["publish"] \in Nat
      BY <1>2, <1>5 DEF Loop
    <2>3. LoopsMade' = LoopsMade
      BY <2>2, Zenon DEF LoopsMade
    <2>4. LoopsMade \in Int
      BY <2>2 DEF LoopsMade
    <2> QED
      BY <1>7, <2>1, <2>3, <2>4 DEF Made
  <1> QED
    BY <1>1, <1>5, <1>6, <1>8, RoundKeepsCount DEF PushBulkEvents, Counted, TypeOK

LEMMA NextCounted == Counted /\ [Next]_vars => Counted'
  <1> SUFFICES ASSUME Counted, [Next]_vars PROVE Counted'
    OBVIOUS
  <1>0. Numbered(events) /\ TypeOK
    BY DEF Counted, TypeOK, Numbered
  <1>1. CASE Validate
    <2>1. UNCHANGED <<config, shares, plan, progress>> /\ phase = "validate"
          /\ phase' = IF ValidateConfig(config) THEN "prepare" ELSE "rejected"
      BY <1>1 DEF Validate
    <2> QED
      BY <2>1, StillIdle DEF Bulk
  <1>2. CASE PrepareOutputEventsDir
    <2>1. UNCHANGED <<config, shares, plan, progress>> /\ phase = "prepare" /\ phase' = config.preset
      BY <1>2 DEF PrepareOutputEventsDir
    <2>2. config.preset \in {"smoke", "bulk"} /\ ValidateConfig(config)
      BY <2>1, SeedAssumption DEF Counted, TypeOK, Config
    <2> QED
      BY <2>1, <2>2, StillIdle DEF Bulk
  <1>3. CASE Panic
    <2>1. UNCHANGED <<config, shares, plan, progress>> /\ phase = "bulk" /\ phase' = "panicked"
      BY <1>3 DEF Panic
    <2> QED
      BY <2>1, StillIdle DEF Counted
  <1>4. CASE GenerateSmokeFiles
    <2>1. /\ UNCHANGED <<config, shares, targets, schedule, emitted, fillers>> /\ ~Bulk
          /\ phase' = "done" /\ events' = SmokeFixtures /\ ValidateConfig(config)
      BY <1>4 DEF GenerateSmokeFiles, plan, Counted
    <2>2. TypeOK'
      BY <2>1, <1>0, SmokeFixturesAreNumbered, SameTypes
    <2> QED
      BY <2>1, <2>2 DEF Counted, Planned, Bulk, ScheduleReachesToday
  <1>5. CASE Plan
    <2>1. PICK quiet \in kSubset(ZeroDays(config.days), Period(config.days)) :
             /\ UNCHANGED <<config, shares, emitted, events>>
             /\ Bulk /\ ValidateConfig(config) /\ phase = "bulk" /\ phase' = "events"
             /\ events = <<>> /\ \A g \in Loop : emitted[g] = 0
             /\ targets' = ComputeActivityTargets(config.count, shares)
             /\ fillers' = [t \in FillerTemplate |-> targets'[t]]
             /\ schedule' \in DaySchedule(config.days, quiet)
      BY <1>5 DEF Plan, Counted
    <2>2. targets' \in [Template -> Nat]
      BY <1>0, <2>1, Accepted, TargetsAddUp
    <2>3. /\ Today \in schedule' /\ schedule' \subseteq Period(config.days)
          /\ Cardinality(schedule') = config.days - ZeroDays(config.days)
      BY <1>0, <2>1, Accepted, ScheduleIsComplete
    <2>4. fillers' \in [FillerTemplate -> Nat]
      BY <2>1, <2>2 DEF FillerTemplate
    <2>5. \A g \in Loop : emitted'[g] <= Rounds(g)'
      BY <2>1, <2>2 DEF Rounds, Loop, Template, SaturatingSub
    <2>6. TypeOK'
      BY <1>0, <2>1, <2>2, <2>3, <2>4, <2>5 DEF TypeOK, Period, Rows
    <2>7. Made' = 0
      <3>1. LoopsMade' = 0
        BY <2>1 DEF LoopsMade, Loop
      <3>2. \A t \in FillerTemplate : Used(t)' = 0
        BY <2>1, <2>2 DEF Used, FillerTemplate
      <3>3. FillersUsed' = 0
        BY <3>2, NoneUsed
      <3> QED
        BY <3>1, <3>3 DEF Made
    <2> QED
      BY <2>1, <2>3, <2>6, <2>7 DEF Counted, Planned, Bulk, ScheduleReachesToday, Period, ZeroDays
  <1>6. CASE PushPair
    <2>1. PICK d, e : /\ PushBulkEvents("pair", <<d, e>>)
                      /\ d.id = NextId /\ d.event_kind \in Kind \cup {NoKind}
                      /\ e.id = NextId + 1 /\ e.event_kind \in Kind \cup {NoKind}
      <3>1. PICK api, content, t, at, timing, otherT, otherAt, otherTiming :
               PushBulkEvents("pair", << BulkEvent(NextId, api, content, t, at, timing),
                                         BulkEvent(NextId + 1, api, content, otherT, otherAt, otherTiming) >>)
        BY <1>6, Zenon DEF PushPair
      <3>2. \A id, a, c, b, x, y : /\ BulkEvent(id, a, c, b, x, y).id = id
                                   /\ BulkEvent(id, a, c, b, x, y).event_kind \in Kind \cup {NoKind}
        BY EventIsClassified DEF BulkEvent
      <3> DEFINE d == BulkEvent(NextId, api, content, t, at, timing)
                 e == BulkEvent(NextId + 1, api, content, otherT, otherAt, otherTiming)
      <3>3. /\ d.id = NextId /\ d.event_kind \in Kind \cup {NoKind}
            /\ e.id = NextId + 1 /\ e.event_kind \in Kind \cup {NoKind}
        BY <3>2
      <3>4. PushBulkEvents("pair", <<d, e>>)
        BY <3>1
      <3> HIDE DEF d, e
      <3> QED
        BY <3>3, <3>4
    <2>2. Len(events) \in Nat
      BY <1>0 DEF Numbered
    <2>3. d.id = Len(events) + 1 /\ e.id = Len(events) + 2
      BY <2>1, <2>2 DEF NextId
    <2>4. Numbered(events \o <<d, e>>) /\ Len(events \o <<d, e>>) = Len(events) + 2
      BY <1>0, <2>1, <2>3, TwoMore
    <2>5. Turn("pair") /\ UNCHANGED fillers /\ "pair" \in Loop
      BY <1>6 DEF PushPair, Loop
    <2> QED
      BY <2>1, <2>4, <2>5, LoopKeepsCount
  <1>7. CASE PushOrphan
    <2>1. PICK e : PushBulkEvents("orphan", <<e>>) /\ e.id = NextId /\ e.event_kind \in Kind \cup {NoKind}
      BY <1>7, EventIsClassified DEF PushOrphan, BulkEvent
    <2>2. Numbered(events \o <<e>>) /\ Len(events \o <<e>>) = Len(events) + 1
      BY <1>0, <2>1, OneMore DEF NextId
    <2>3. Turn("orphan") /\ UNCHANGED fillers /\ "orphan" \in Loop /\ "orphan" # "pair"
      BY <1>7 DEF PushOrphan, Loop
    <2> QED
      BY <2>1, <2>2, <2>3, LoopKeepsCount
  <1>8. CASE PushSaveDraft
    <2>1. PICK e : PushBulkEvents("save", <<e>>) /\ e.id = NextId /\ e.event_kind \in Kind \cup {NoKind}
      BY <1>8, EventIsClassified DEF PushSaveDraft, BulkEvent
    <2>2. Numbered(events \o <<e>>) /\ Len(events \o <<e>>) = Len(events) + 1
      BY <1>0, <2>1, OneMore DEF NextId
    <2>3. Turn("save") /\ UNCHANGED fillers /\ "save" \in Loop /\ "save" # "pair"
      BY <1>8 DEF PushSaveDraft, Loop
    <2> QED
      BY <2>1, <2>2, <2>3, LoopKeepsCount
  <1>9. CASE PushInitialPublish
    <2>1. PICK e : PushBulkEvents("publish", <<e>>) /\ e.id = NextId /\ e.event_kind \in Kind \cup {NoKind}
      BY <1>9, EventIsClassified DEF PushInitialPublish, BulkEvent
    <2>2. Numbered(events \o <<e>>) /\ Len(events \o <<e>>) = Len(events) + 1
      BY <1>0, <2>1, OneMore DEF NextId
    <2>3. Turn("publish") /\ UNCHANGED fillers /\ "publish" \in Loop /\ "publish" # "pair"
      BY <1>9 DEF PushInitialPublish, Loop
    <2> QED
      BY <2>1, <2>2, <2>3, LoopKeepsCount
  <1>10. CASE \E t \in FillerTemplate : PushFiller(t)
    <2>1. PICK t \in FillerTemplate : PushFiller(t)
      BY <1>10
    <2>2. PICK e : PushBulkEvents("filler", <<e>>) /\ e.id = NextId /\ e.event_kind \in Kind \cup {NoKind}
      BY <2>1, EventIsClassified DEF PushFiller, BulkEvent
    <2>3. Numbered(events \o <<e>>) /\ Len(events \o <<e>>) = Len(events) + 1
      BY <1>0, <2>2, OneMore DEF NextId
    <2>4. FillersTurn /\ fillers[t] > 0 /\ fillers' = [fillers EXCEPT ![t] = @ - 1]
      BY <2>1 DEF PushFiller
    <2> QED
      BY <2>2, <2>3, <2>4, FillerKeepsCount
  <1>11. CASE WriteBulkFiles
    <2>1. /\ UNCHANGED <<config, shares, targets, schedule, emitted, fillers, events>>
          /\ phase = "events" /\ phase' = "done"
          /\ \A g \in Loop : emitted[g] = Rounds(g)
          /\ \A t \in FillerTemplate : fillers[t] = 0
      BY <1>11 DEF WriteBulkFiles, FillersTurn, plan, progress
    <2>2. TypeOK'
      BY <1>0, <2>1, SameTypes
    <2>3. \A g \in Loop : Rounds(g)' = Rounds(g)
      BY <2>1 DEF Rounds
    <2>4. Made' = Made
      BY <2>1 DEF Made, LoopsMade, FillersUsed, Used
    <2> QED
      BY <2>1, <2>2, <2>3, <2>4 DEF Counted, Planned, Bulk, ScheduleReachesToday, Period, ZeroDays
  <1>12. CASE UNCHANGED vars
    <2>1. UNCHANGED <<phase, config, shares, targets, schedule, emitted, fillers, events>>
      BY <1>12 DEF vars, plan, progress
    <2>2. phase' \in {"validate", "rejected", "prepare", "smoke", "bulk", "panicked", "events", "done"}
      BY <1>0, <2>1 DEF TypeOK
    <2>3. TypeOK'
      BY <1>0, <2>1, <2>2, SameTypes
    <2>4. Made' = Made
      BY <2>1 DEF Made, LoopsMade, FillersUsed, Used
    <2> QED
      BY <2>1, <2>3, <2>4 DEF Counted, Planned, Bulk, ScheduleReachesToday, Period, ZeroDays, Rounds
  <1> QED
    BY <1>1, <1>2, <1>3, <1>4, <1>5, <1>6, <1>7, <1>8, <1>9, <1>10, <1>11, <1>12 DEF Next

-----------------------------------------------------------------------------
(* What a step appends.                                                    *)

LEMMA RowsGrow ==
    ASSUME NEW s, Numbered(s), NEW e, e.id = Len(s) + 1
    PROVE  Rows(s \o <<e>>) = Rows(s) \cup {e} /\ e \notin Rows(s)
  <1> DEFINE S == Rows(s) \cup {e}
             t == s \o <<e>>
  <1>1. s \in Seq(S) /\ <<e>> \in Seq(S) /\ Len(s) \in Nat /\ DOMAIN s = 1 .. Len(s)
    BY DEF Numbered
  <1>2. /\ DOMAIN t = 1 .. Len(s) + 1
        /\ \A i \in 1 .. Len(s) + 1 : t[i] = IF i <= Len(s) THEN s[i] ELSE e
    BY <1>1
  <1>3. t[Len(s) + 1] = e /\ Len(s) + 1 \in DOMAIN t /\ \A i \in DOMAIN s : i \in DOMAIN t /\ t[i] = s[i]
    BY <1>1, <1>2
  <1>4. \A i \in DOMAIN t : i \in DOMAIN s \/ i = Len(s) + 1
    BY <1>1, <1>2
  <1>5. \A i \in DOMAIN s : s[i].id # Len(s) + 1
    BY <1>1 DEF Numbered
  <1> HIDE DEF t
  <1>6. Rows(t) = Rows(s) \cup {e}
    BY <1>3, <1>4 DEF Rows
  <1>7. e \notin Rows(s)
    BY <1>5 DEF Rows
  <1> QED
    BY <1>6, <1>7 DEF t

LEMMA IntervalFromOne ==
    ASSUME NEW n \in Nat
    PROVE  IsFiniteSet(1 .. n) /\ Cardinality(1 .. n) = n
  BY FS_Interval

(* There are as many rows as events, as each has an id of its own.         *)
LEMMA RowsAreFinite ==
    ASSUME NEW s, Numbered(s)
    PROVE  /\ IsFiniteSet(Rows(s)) /\ Cardinality(Rows(s)) = Len(s) /\ Len(s) \in Nat
           /\ \A e, f \in Rows(s) : e.id = f.id => e = f
           /\ \A e \in Rows(s) : e.id \in 1 .. Len(s) /\ e = s[e.id]
  <1>1. Len(s) \in Nat /\ DOMAIN s = 1 .. Len(s)
    BY DEF Numbered
  <1>2. \A e \in Rows(s) : e.id \in 1 .. Len(s) /\ e = s[e.id]
    BY <1>1 DEF Rows, Numbered
  <1> DEFINE g == [i \in 1 .. Len(s) |-> s[i]]
  <1>3. g \in Bijection(1 .. Len(s), Rows(s))
    <2>1. \A i \in 1 .. Len(s) : g[i] = s[i] /\ g[i] \in Rows(s)
      BY <1>1 DEF Rows
    <2>2. g \in [1 .. Len(s) -> Rows(s)]
      BY <2>1
    <2>3. \A i, j \in 1 .. Len(s) : g[i] = g[j] => i = j
      BY <1>1, <2>1 DEF Numbered
    <2>4. \A e \in Rows(s) : \E i \in 1 .. Len(s) : g[i] = e
      BY <1>2, <2>1
    <2> HIDE DEF g
    <2> QED
      BY <2>2, <2>3, <2>4 DEF Bijection, Injection, Surjection, IsInjective
  <1>4. IsFiniteSet(1 .. Len(s)) /\ Cardinality(1 .. Len(s)) = Len(s)
    BY <1>1, IntervalFromOne
  <1> HIDE DEF g
  <1>5. IsFiniteSet(Rows(s)) /\ Cardinality(Rows(s)) = Len(s)
    BY <1>3, <1>4, FS_Bijection DEF ExistsBijection
  <1> QED
    BY <1>1, <1>2, <1>5

(* The kind of a webhook made of a template is that of the template, and   *)
(* no two have the same.                                                   *)
LEMMA KindOfTemplate ==
    ASSUME NEW t \in Template
    PROVE  DeriveEventKind(BulkTemplate(t).type, BulkTemplate(t).old, BulkTemplate(t).new) = KindOf[t]
  <1> DEFINE b == BulkTemplate(t)
             arm == Arm(b.type, CanonicalStatus(b.old), CanonicalStatus(b.new), KindOf[t])
  <1>1. CASE t \in {"AddDraftToPublished", "DiscardDraftOnPublished"}
    BY <1>1 DEF BulkTemplate, FillerBody, Body, KindOf, DeriveEventKind
  <1>2. CASE t \notin {"AddDraftToPublished", "DiscardDraftOnPublished"}
    <2>1. /\ b.type = "edit" /\ "PUBLISH" \in b.old /\ "PUBLISH" \in b.new
               => "DRAFT" \notin b.old /\ "DRAFT" \notin b.new
      BY <1>2 DEF BulkTemplate, FillerBody, LifecycleBody, Body, Template
    <2>2. arm \in StateArms
      <3>1. CASE t = "InitialDraft"
        <4>1. b.type = "new" /\ b.old = {} /\ b.new = {"DRAFT"}
          BY <3>1 DEF BulkTemplate, LifecycleBody, FillerBody, Body
        <4> QED
          BY <3>1, <4>1, CanonicalStatuses DEF StateArms, KindOf
      <3>2. CASE t = "SaveDraft"
        <4>1. b.type = "edit" /\ b.old = {"DRAFT"} /\ b.new = {"DRAFT"}
          BY <3>2 DEF BulkTemplate, LifecycleBody, FillerBody, Body
        <4> QED
          BY <3>2, <4>1, CanonicalStatuses DEF StateArms, KindOf
      <3>3. CASE t = "PublishFromDraft"
        <4>1. b.type = "edit" /\ b.old = {"DRAFT"} /\ b.new = {"PUBLISH"}
          BY <3>3 DEF BulkTemplate, LifecycleBody, FillerBody, Body
        <4> QED
          BY <3>3, <4>1, CanonicalStatuses DEF StateArms, KindOf
      <3>4. CASE t = "InitialPublish"
        <4>1. b.type = "new" /\ b.old = {} /\ b.new = {"PUBLISH"}
          BY <3>4 DEF BulkTemplate, LifecycleBody, FillerBody, Body
        <4> QED
          BY <3>4, <4>1, CanonicalStatuses DEF StateArms, KindOf
      <3>5. CASE t = "UpdatePublished"
        <4>1. b.type = "edit" /\ b.old = {"PUBLISH"} /\ b.new = {"PUBLISH"}
          BY <3>5 DEF BulkTemplate, FillerBody, Body
        <4> QED
          BY <3>5, <4>1, CanonicalStatuses DEF StateArms, KindOf
      <3>6. CASE t = "UnpublishToDraft"
        <4>1. b.type = "edit" /\ b.old = {"PUBLISH"} /\ b.new = {"DRAFT"}
          BY <3>6 DEF BulkTemplate, FillerBody, Body
        <4> QED
          BY <3>6, <4>1, CanonicalStatuses DEF StateArms, KindOf
      <3>7. CASE t = "UnpublishToClosed"
        <4>1. b.type = "edit" /\ b.old = {"PUBLISH"} /\ b.new = {"CLOSED"}
          BY <3>7 DEF BulkTemplate, FillerBody, Body
        <4> QED
          BY <3>7, <4>1, CanonicalStatuses DEF StateArms, KindOf
      <3>8. CASE t = "ReopenToDraft"
        <4>1. b.type = "edit" /\ b.old = {"CLOSED"} /\ b.new = {"DRAFT"}
          BY <3>8 DEF BulkTemplate, FillerBody, Body
        <4> QED
          BY <3>8, <4>1, CanonicalStatuses DEF StateArms, KindOf
      <3>9. CASE t = "RepublishFromClosed"
        <4>1. b.type = "edit" /\ b.old = {"CLOSED"} /\ b.new = {"PUBLISH"}
          BY <3>9 DEF BulkTemplate, FillerBody, Body
        <4> QED
          BY <3>9, <4>1, CanonicalStatuses DEF StateArms, KindOf
      <3>10. CASE t = "DeleteDraft"
        <4>1. b.type = "delete" /\ b.old = {"DRAFT"} /\ b.new = {}
          BY <3>10 DEF BulkTemplate, FillerBody, Body
        <4> QED
          BY <3>10, <4>1, CanonicalStatuses DEF StateArms, KindOf
      <3>11. CASE t = "DeletePublished"
        <4>1. b.type = "delete" /\ b.old = {"PUBLISH"} /\ b.new = {}
          BY <3>11 DEF BulkTemplate, FillerBody, Body
        <4> QED
          BY <3>11, <4>1, CanonicalStatuses DEF StateArms, KindOf
      <3>12. CASE t = "DeleteClosed"
        <4>1. b.type = "delete" /\ b.old = {"CLOSED"} /\ b.new = {}
          BY <3>12 DEF BulkTemplate, FillerBody, Body
        <4> QED
          BY <3>12, <4>1, CanonicalStatuses DEF StateArms, KindOf
      <3> QED
        BY <1>2, <3>1, <3>2, <3>3, <3>4, <3>5, <3>6, <3>7, <3>8, <3>9, <3>10, <3>11, <3>12 DEF Template
    <2>3. /\ arm.type = b.type /\ arm.kind = KindOf[t]
          /\ arm.old = CanonicalStatus(b.old) /\ arm.new = CanonicalStatus(b.new)
      BY DEF Arm
    <2> HIDE DEF arm, b
    <2>4. DeriveEventKind(b.type, b.old, b.new) = KindOf[t]
      BY <2>1, <2>2, <2>3, ArmDecides
    <2> QED
      BY <2>4 DEF b
  <1> QED
    BY <1>1, <1>2

LEMMA KindsDiffer ==
    ASSUME NEW t \in Template, NEW u \in Template, t # u
    PROVE  KindOf[t] # KindOf[u]
  BY DEF Template, KindOf

(* A day of the schedule stays what it is in UTC and back.                 *)
LEMMA DayOfTick ==
    ASSUME NEW date \in Int, NEW h \in Nat, h < DayLength
    PROVE  JstDatetime(date, h) \in Int /\ Day(JstDatetime(date, h)) = date
  <1>1. DayLength \in Nat \ {0} /\ JstOffset \in Nat
    BY DayAssumption
  <1> DEFINE n == date * DayLength
  <1>2. n \in Int
    BY <1>1
  <1>3. JstDatetime(date, h) = n + h - JstOffset
    BY DEF JstDatetime
  <1>4. Day(JstDatetime(date, h)) = (n + h) \div DayLength
    <2> HIDE DEF n
    <2>1. JstDatetime(date, h) + JstOffset = n + h
      BY <1>1, <1>2, <1>3
    <2> QED
      BY <2>1 DEF Day
  <1>5. (n + h) \div DayLength = date
    BY <1>1, <1>2
  <1> HIDE DEF n
  <1> QED
    BY <1>1, <1>2, <1>3, <1>4, <1>5

LEMMA HourIsInDay ==
    ASSUME NEW h \in 0 .. 23
    PROVE  HourOfDay(h) \in Nat /\ HourOfDay(h) < DayLength
  <1>1. DayLength \in Nat \ {0}
    BY DayAssumption
  <1> DEFINE n == h * DayLength
  <1>2. n \in Nat /\ n < 24 * DayLength
    BY <1>1
  <1>3. HourOfDay(h) = n \div 24
    BY DEF HourOfDay
  <1> HIDE DEF n
  <1> QED
    BY <1>1, <1>2, <1>3

LEMMA DayOfMoment ==
    ASSUME TypeOK, ValidateConfig(config), NEW at \in Moments
    PROVE  at \in Int /\ Day(at) \in schedule
  <1>1. PICK d \in schedule, h \in 0 .. DayLength - 1 : at = JstDatetime(d, h)
    BY DEF Moments
  <1>2. DayLength \in Nat \ {0}
    BY DayAssumption
  <1>3. d \in Int /\ h \in Nat /\ h < DayLength
    <2>1. schedule \subseteq Period(config.days) /\ config.days \in Nat \ {0}
      BY Accepted DEF TypeOK
    <2> QED
      BY <1>2, <2>1, PeriodOfDays
  <1> QED
    BY <1>1, <1>3, DayOfTick

(* What normalize_payload makes of a template.                             *)
LEMMA EventOfTemplate ==
    ASSUME NEW id, NEW api, NEW content, NEW t \in Template, NEW at, NEW timing
    PROVE  LET e == BulkEvent(id, api, content, t, at, timing)
           IN  /\ e.id = id /\ e.event_kind = KindOf[t] /\ e.dt = Day(at)
               /\ ContentOf(e) = <<api, content>>
               /\ "draft" \in BulkTemplate(t).values =>
                      e.draft_created_at = Or(timing.draft, WeekBefore(at))
               /\ "publish" \in BulkTemplate(t).values =>
                      e.content_published_at = Or(timing.published, at)
  BY KindOfTemplate DEF BulkEvent, Normalized, ContentOf

(* An event of a template, on the schedule.                                *)
Single(g, t, e) ==
    /\ PushBulkEvents(g, <<e>>)
    /\ e.id = Len(events) + 1
    /\ e.event_kind = KindOf[t]
    /\ e.dt \in schedule

LEMMA TemplatesByLoop ==
    /\ {"InitialDraft", "SaveDraft", "PublishFromDraft", "InitialPublish"} \subseteq Template
    /\ FillerTemplate \subseteq Template
  BY DEF Template, FillerTemplate

LEMMA OrphanMade ==
    ASSUME TypeOK, ValidateConfig(config), PushOrphan
    PROVE  \E e : Single("orphan", "InitialDraft", e) /\ ContentOf(e) = Orphan(emitted["orphan"])
  <1> DEFINE index == emitted["orphan"]
             api == WeightedBulkApi(index)
             content == Ulid("bulk-orphan-draft", api, index)
  <1>1. PICK at, timing :
           /\ at \in Moments
           /\ PushBulkEvents("orphan", <<BulkEvent(NextId, api, content, "InitialDraft", at, timing)>>)
    BY DEF PushOrphan
  <1> DEFINE e == BulkEvent(NextId, api, content, "InitialDraft", at, timing)
  <1>2. e.id = NextId /\ e.event_kind = KindOf["InitialDraft"] /\ e.dt = Day(at) /\ ContentOf(e) = <<api, content>>
    BY <1>1, EventOfTemplate, TemplatesByLoop
  <1>3. PushBulkEvents("orphan", <<e>>)
    BY <1>1
  <1> HIDE DEF e
  <1> QED
    BY <1>1, <1>2, <1>3, DayOfMoment DEF Single, NextId, Orphan

LEMMA SaveMade ==
    ASSUME TypeOK, ValidateConfig(config), PushSaveDraft
    PROVE  \E e : Single("save", "SaveDraft", e)
  <1>1. PICK at, api, content, timing :
           /\ at \in Moments
           /\ PushBulkEvents("save", <<BulkEvent(NextId, api, content, "SaveDraft", at, timing)>>)
    BY DEF PushSaveDraft
  <1> DEFINE e == BulkEvent(NextId, api, content, "SaveDraft", at, timing)
  <1>2. e.id = NextId /\ e.event_kind = KindOf["SaveDraft"] /\ e.dt = Day(at)
    BY <1>1, EventOfTemplate, TemplatesByLoop
  <1>3. PushBulkEvents("save", <<e>>)
    BY <1>1
  <1> HIDE DEF e
  <1> QED
    BY <1>1, <1>2, <1>3, DayOfMoment DEF Single, NextId

LEMMA PublishMade ==
    ASSUME TypeOK, ValidateConfig(config), PushInitialPublish
    PROVE  \E e : Single("publish", "InitialPublish", e)
  <1>1. PICK at, api, content, timing :
           /\ at \in Moments
           /\ PushBulkEvents("publish", <<BulkEvent(NextId, api, content, "InitialPublish", at, timing)>>)
    BY DEF PushInitialPublish
  <1> DEFINE e == BulkEvent(NextId, api, content, "InitialPublish", at, timing)
  <1>2. e.id = NextId /\ e.event_kind = KindOf["InitialPublish"] /\ e.dt = Day(at)
    BY <1>1, EventOfTemplate, TemplatesByLoop
  <1>3. PushBulkEvents("publish", <<e>>)
    BY <1>1
  <1> HIDE DEF e
  <1> QED
    BY <1>1, <1>2, <1>3, DayOfMoment DEF Single, NextId

LEMMA FillerMade ==
    ASSUME TypeOK, ValidateConfig(config), NEW t \in FillerTemplate, PushFiller(t)
    PROVE  \E e : Single("filler", t, e)
  <1>1. PICK at, api, content :
           /\ at \in Moments
           /\ PushBulkEvents("filler", <<BulkEvent(NextId, api, content, t, at, Untimed)>>)
    BY DEF PushFiller
  <1> DEFINE e == BulkEvent(NextId, api, content, t, at, Untimed)
  <1>2. e.id = NextId /\ e.event_kind = KindOf[t] /\ e.dt = Day(at)
    BY <1>1, EventOfTemplate, TemplatesByLoop
  <1>3. PushBulkEvents("filler", <<e>>)
    BY <1>1
  <1> HIDE DEF e
  <1> QED
    BY <1>1, <1>2, <1>3, DayOfMoment DEF Single, NextId

(* A round of the first loop: a first draft and its publication.           *)
Couple(d, e) ==
    /\ PushBulkEvents("pair", <<d, e>>)
    /\ d.id = Len(events) + 1 /\ e.id = Len(events) + 2
    /\ d.event_kind = KindOf["InitialDraft"] /\ e.event_kind = KindOf["PublishFromDraft"]
    /\ d.dt \in schedule /\ e.dt \in schedule
    /\ ContentOf(d) = Pair(emitted["pair"]) /\ ContentOf(e) = Pair(emitted["pair"])
    /\ e.content_published_at \in Int
    /\ d.draft_created_at = e.content_published_at
                              - DraftToPublishLead(WeightedBulkApi(emitted["pair"]), emitted["pair"]) * DayLength

LEMMA LeadsAreDays ==
    ASSUME NEW api, NEW index \in Nat
    PROVE  DraftToPublishLead(api, index) \in Nat
  <1>1. ApiTimingProfile(api).draft \in Nat
    BY DEF ApiTimingProfile, ApiTimingProfiles, Profile
  <1>2. index % 6 \in Nat
    OBVIOUS
  <1> QED
    BY <1>1, <1>2 DEF DraftToPublishLead

LEMMA PairMade ==
    ASSUME TypeOK, ValidateConfig(config), PushPair
    PROVE  \E d, e : Couple(d, e)
  <1> DEFINE index == emitted["pair"]
             api == WeightedBulkApi(index)
             content == Ulid("bulk-metric-pair", api, index)
             hour == HourOfDay(9 + (index % 6))
             lead == DraftToPublishLead(api, index)
             eligible(at) == {d \in schedule : d <= Day(at) /\ ~(Day(at) = Max(schedule) /\ d = Max(schedule))}
             draft(at) == [Untimed EXCEPT !.draft = at - lead * DayLength]
             publication(at) == [Untimed EXCEPT !.created = at - PublishLead(api, index) * DayLength,
                                                !.published = at]
             first(at, date) == BulkEvent(NextId, api, content, "InitialDraft", JstDatetime(date, hour), draft(at))
             second(at) == BulkEvent(NextId + 1, api, content, "PublishFromDraft", at, publication(at))
  <1>1. PICK at \in Moments : \E date \in IF eligible(at) = {} THEN {Day(at)} ELSE eligible(at) :
           PushBulkEvents("pair", <<first(at, date), second(at)>>)
    BY Zenon DEF PushPair
  <1>2. at \in Int /\ Day(at) \in schedule
    BY DayOfMoment
  <1>3. PICK date \in schedule : PushBulkEvents("pair", <<first(at, date), second(at)>>)
    BY <1>1, <1>2
  <1> DEFINE d == first(at, date)
             e == second(at)
  <1>4. index \in Nat /\ date \in Int
    BY PeriodOfDays, Accepted DEF TypeOK, Loop
  <1>5. JstDatetime(date, hour) \in Int /\ Day(JstDatetime(date, hour)) = date
    <2>1. 9 + (index % 6) \in 0 .. 23
      BY <1>4
    <2> QED
      BY <1>4, <2>1, HourIsInDay, DayOfTick
  <1>6. /\ d.id = NextId /\ d.event_kind = KindOf["InitialDraft"] /\ d.dt = date
        /\ ContentOf(d) = <<api, content>>
        /\ d.draft_created_at = Or(draft(at).draft, WeekBefore(JstDatetime(date, hour)))
    <2>1. "draft" \in BulkTemplate("InitialDraft").values
      BY DEF BulkTemplate, LifecycleBody, FillerBody, Body
    <2> HIDE DEF draft, hour
    <2> QED
      BY <1>5, <2>1, EventOfTemplate, TemplatesByLoop
  <1>7. /\ e.id = NextId + 1 /\ e.event_kind = KindOf["PublishFromDraft"] /\ e.dt = Day(at)
        /\ ContentOf(e) = <<api, content>>
        /\ e.content_published_at = Or(publication(at).published, at)
    <2>1. "publish" \in BulkTemplate("PublishFromDraft").values
      BY DEF BulkTemplate, LifecycleBody, FillerBody, Body
    <2> HIDE DEF publication
    <2> QED
      BY <2>1, EventOfTemplate, TemplatesByLoop
  <1>8. draft(at).draft = at - lead * DayLength /\ publication(at).published = at
    BY DEF Untimed
  <1>9. at - lead * DayLength \in Int
    BY <1>2, <1>4, LeadsAreDays, DayAssumption
  <1>10. e.content_published_at = at /\ d.draft_created_at = at - lead * DayLength
    <2> HIDE DEF draft, publication, d, e, lead
    <2> QED
      BY <1>2, <1>6, <1>7, <1>8, <1>9, NullAssumption DEF Or
  <1>11. NextId = Len(events) + 1 /\ NextId + 1 = Len(events) + 2
    BY DEF NextId, TypeOK
  <1>12. PushBulkEvents("pair", <<d, e>>)
    BY <1>3
  <1> HIDE DEF d, e
  <1> QED
    BY <1>2, <1>6, <1>7, <1>10, <1>11, <1>12 DEF Couple, Pair

-----------------------------------------------------------------------------
(* Kind by kind.                                                           *)

Count(s, t) == Cardinality(OfKind(Rows(s), {KindOf[t]}))

LEMMA OneMoreOfKind ==
    ASSUME NEW s, Numbered(s), NEW t \in Template, NEW u \in Template,
           NEW e, e.id = Len(s) + 1, e.event_kind = KindOf[t]
    PROVE  Count(s, u) \in Nat /\ Count(s \o <<e>>, u) = Count(s, u) + IF u = t THEN 1 ELSE 0
  <1> DEFINE old == OfKind(Rows(s), {KindOf[u]})
             new == OfKind(Rows(s \o <<e>>), {KindOf[u]})
  <1>1. Rows(s \o <<e>>) = Rows(s) \cup {e} /\ e \notin Rows(s)
    BY RowsGrow
  <1>2. IsFiniteSet(old)
    BY RowsAreFinite, FS_Subset DEF OfKind
  <1>3. Cardinality(old) \in Nat
    BY <1>2, FS_CardinalityType
  <1>4. CASE u = t
    <2>1. new = old \cup {e} /\ e \notin old
      BY <1>1, <1>4 DEF OfKind
    <2> HIDE DEF old, new
    <2>2. Cardinality(new) = Cardinality(old) + 1
      BY <1>2, <2>1, FS_AddElement
    <2> QED
      BY <1>3, <1>4, <2>2 DEF Count, old, new
  <1>5. CASE u # t
    <2>1. KindOf[u] # KindOf[t]
      BY <1>5, KindsDiffer
    <2>2. new = old
      BY <1>1, <2>1 DEF OfKind
    <2> HIDE DEF old, new
    <2> QED
      BY <1>3, <1>5, <2>2 DEF Count, old, new
  <1> QED
    BY <1>4, <1>5

LEMMA KindsAreKinds ==
    ASSUME NEW t \in Template
    PROVE  KindOf[t] \in Kind \cup {NoKind}
  BY KindsByName DEF Template, KindOf

(* What a round and a filler add to what there is of each template.        *)
LEMMA RoundAdds ==
    ASSUME TypeOK, NEW g \in Loop, emitted' = [emitted EXCEPT ![g] = @ + 1],
           UNCHANGED <<targets, fillers>>, NEW u \in Template
    PROVE  MadeOf(u)' = MadeOf(u) + IF \/ g = "pair" /\ u \in {"InitialDraft", "PublishFromDraft"}
                                       \/ g = "orphan" /\ u = "InitialDraft"
                                       \/ g = "save" /\ u = "SaveDraft"
                                       \/ g = "publish" /\ u = "InitialPublish"
                                    THEN 1 ELSE 0
  <1>1. /\ emitted["pair"] \in Nat /\ emitted["orphan"] \in Nat
        /\ emitted["save"] \in Nat /\ emitted["publish"] \in Nat
    BY DEF TypeOK, Loop
  <1>2. /\ emitted'["pair"] = emitted["pair"] + IF g = "pair" THEN 1 ELSE 0
        /\ emitted'["orphan"] = emitted["orphan"] + IF g = "orphan" THEN 1 ELSE 0
        /\ emitted'["save"] = emitted["save"] + IF g = "save" THEN 1 ELSE 0
        /\ emitted'["publish"] = emitted["publish"] + IF g = "publish" THEN 1 ELSE 0
    BY <1>1 DEF TypeOK, Loop
  <1>3. g \in {"pair", "orphan", "save", "publish"}
    BY DEF Loop
  <1>4. CASE u \in FillerTemplate
    <2>1. MadeOf(u) = Used(u) /\ MadeOf(u)' = Used(u)'
      BY <1>4, Zenon DEF MadeOf, FillerTemplate
    <2>2. Used(u)' = Used(u) /\ Used(u) \in Int
      BY <1>4 DEF Used, TypeOK
    <2> QED
      BY <1>4, <2>1, <2>2 DEF FillerTemplate
  <1>5. CASE u \in {"InitialDraft", "SaveDraft", "PublishFromDraft", "InitialPublish"}
    BY <1>1, <1>2, <1>3, <1>5 DEF MadeOf
  <1> QED
    BY <1>4, <1>5 DEF FillerTemplate

LEMMA FillerAdds ==
    ASSUME TypeOK, NEW t \in FillerTemplate, emitted' = [emitted EXCEPT !["filler"] = @ + 1],
           fillers' = [fillers EXCEPT ![t] = @ - 1], UNCHANGED targets, NEW u \in Template
    PROVE  MadeOf(u)' = MadeOf(u) + IF u = t THEN 1 ELSE 0
  <1>1. CASE u \in FillerTemplate
    <2>1. MadeOf(u) = Used(u) /\ MadeOf(u)' = Used(u)'
      BY <1>1, Zenon DEF MadeOf, FillerTemplate
    <2>2. Used(u)' = Used(u) + IF u = t THEN 1 ELSE 0
      BY <1>1 DEF Used, TypeOK
    <2> QED
      BY <2>1, <2>2
  <1>2. CASE u \in {"InitialDraft", "SaveDraft", "PublishFromDraft", "InitialPublish"}
    <2>1. u # t
      BY <1>2 DEF FillerTemplate
    <2>2. \A h \in {"pair", "orphan", "save", "publish"} : emitted'[h] = emitted[h] /\ emitted[h] \in Nat
      BY DEF TypeOK, Loop
    <2> QED
      BY <1>2, <2>1, <2>2 DEF MadeOf
  <1> QED
    BY <1>1, <1>2 DEF FillerTemplate

LEMMA SingleKeepsKinds ==
    ASSUME Counted, KindsCounted, phase = "events", NEW g, NEW t \in Template, NEW e, Single(g, t, e),
           \A u \in Template : MadeOf(u)' = MadeOf(u) + IF u = t THEN 1 ELSE 0
    PROVE  KindsCounted'
  <1>1. Numbered(events) /\ Planned
    BY DEF Counted, TypeOK, Numbered, Planned
  <1>2. events' = events \o <<e>>
    BY DEF Single, PushBulkEvents
  <1>3. \A u \in Template : Count(events, u) = MadeOf(u)
    BY <1>1 DEF KindsCounted, Count
  <1>4. \A u \in Template : Count(events \o <<e>>, u) = Count(events, u) + IF u = t THEN 1 ELSE 0
    BY <1>1, OneMoreOfKind DEF Single
  <1>5. \A u \in Template : Count(events', u) = MadeOf(u)'
    BY <1>2, <1>3, <1>4
  <1> QED
    BY <1>5 DEF KindsCounted, Count

LEMMA CoupleKeepsKinds ==
    ASSUME Counted, KindsCounted, phase = "events", NEW d, NEW e, Couple(d, e),
           \A u \in Template : MadeOf(u)' = MadeOf(u) + IF u \in {"InitialDraft", "PublishFromDraft"} THEN 1 ELSE 0
    PROVE  KindsCounted'
  <1> DEFINE s == events \o <<d>>
  <1>1. Numbered(events) /\ Planned /\ Len(events) \in Nat
    BY DEF Counted, TypeOK, Numbered, Planned
  <1>2. events' = s \o <<e>>
    BY <1>1, OneByOne DEF Couple, PushBulkEvents
  <1>3. "InitialDraft" \in Template /\ "PublishFromDraft" \in Template
    BY TemplatesByLoop
  <1>4. Numbered(s) /\ Len(s) = Len(events) + 1
    BY <1>1, <1>3, KindsAreKinds, OneMore DEF Couple
  <1>5. e.id = Len(s) + 1
    BY <1>1, <1>4 DEF Couple
  <1>6. \A u \in Template : /\ Count(events, u) = MadeOf(u) /\ Count(events, u) \in Nat
                            /\ Count(s, u) = Count(events, u) + IF u = "InitialDraft" THEN 1 ELSE 0
    BY <1>1, <1>3, OneMoreOfKind DEF KindsCounted, Count, Couple
  <1> HIDE DEF s
  <1>7. \A u \in Template : Count(s \o <<e>>, u) = Count(s, u) + IF u = "PublishFromDraft" THEN 1 ELSE 0
    BY <1>3, <1>4, <1>5, OneMoreOfKind DEF Couple
  <1>8. \A u \in Template : Count(events', u) = MadeOf(u)'
    BY <1>2, <1>6, <1>7
  <1> QED
    BY <1>8 DEF KindsCounted, Count

(* Where nothing is appended.                                              *)
LEMMA StillKinds ==
    ASSUME KindsCounted, UNCHANGED <<targets, emitted, fillers, events>>, Planned' => Planned
    PROVE  KindsCounted'
  BY DEF KindsCounted, MadeOf, Used

LEMMA KindsNext == Counted /\ KindsCounted /\ [Next]_vars => KindsCounted'
  <1> SUFFICES ASSUME Counted, KindsCounted, [Next]_vars PROVE KindsCounted'
    OBVIOUS
  <1>0. TypeOK /\ (phase = "events" => ValidateConfig(config))
    BY DEF Counted
  <1>1. CASE Validate
    <2>1. ~Planned'
      BY <1>1 DEF Validate, Planned
    <2> QED
      BY <2>1 DEF KindsCounted
  <1>2. CASE PrepareOutputEventsDir
    <2>1. phase' = config.preset /\ config.preset \in {"smoke", "bulk"}
      BY <1>0, <1>2, SeedAssumption DEF PrepareOutputEventsDir, TypeOK, Config
    <2>2. ~Planned'
      BY <2>1 DEF Planned
    <2> QED
      BY <2>2 DEF KindsCounted
  <1>3. CASE GenerateSmokeFiles
    <2>1. ~Planned'
      BY <1>3 DEF GenerateSmokeFiles, Counted, Planned, Bulk
    <2> QED
      BY <2>1 DEF KindsCounted
  <1>4. CASE Panic
    <2>1. ~Planned'
      BY <1>4 DEF Panic, Planned
    <2> QED
      BY <2>1 DEF KindsCounted
  <1>5. CASE Plan
    <2>1. /\ events' = <<>> /\ \A g \in Loop : emitted'[g] = 0
          /\ fillers' = [t \in FillerTemplate |-> targets'[t]]
          /\ targets' \in [Template -> Nat]
      BY <1>5, Accepted, TargetsAddUp DEF Plan, Counted
    <2>2. \A u \in Template : MadeOf(u)' = 0
      BY <2>1 DEF MadeOf, Used, Loop, FillerTemplate
    <2>3. \A u \in Template : OfKind(Rows(events'), {KindOf[u]}) = {}
      BY <2>1 DEF Rows, OfKind
    <2> QED
      BY <2>2, <2>3, FS_EmptySet DEF KindsCounted
  <1>6. CASE PushPair
    <2>1. PICK d, e : Couple(d, e)
      BY <1>0, <1>6, PairMade DEF PushPair, Turn
    <2>2. /\ emitted' = [emitted EXCEPT !["pair"] = @ + 1] /\ UNCHANGED <<targets, fillers>>
          /\ phase = "events" /\ "pair" \in Loop
      BY <1>6, <2>1 DEF Couple, PushBulkEvents, PushPair, Turn, plan, Loop
    <2>3. \A u \in Template : MadeOf(u)' = MadeOf(u) + IF u \in {"InitialDraft", "PublishFromDraft"} THEN 1 ELSE 0
      BY <1>0, <2>2, RoundAdds
    <2> QED
      BY <2>1, <2>2, <2>3, CoupleKeepsKinds
  <1>7. CASE PushOrphan
    <2>1. PICK e : Single("orphan", "InitialDraft", e)
      BY <1>0, <1>7, OrphanMade DEF PushOrphan, Turn
    <2>2. /\ emitted' = [emitted EXCEPT !["orphan"] = @ + 1] /\ UNCHANGED <<targets, fillers>>
          /\ phase = "events" /\ "orphan" \in Loop
      BY <1>7, <2>1 DEF Single, PushBulkEvents, PushOrphan, Turn, plan, Loop
    <2>3. \A u \in Template : MadeOf(u)' = MadeOf(u) + IF u = "InitialDraft" THEN 1 ELSE 0
      BY <1>0, <2>2, RoundAdds
    <2> QED
      BY <2>1, <2>2, <2>3, TemplatesByLoop, SingleKeepsKinds
  <1>8. CASE PushSaveDraft
    <2>1. PICK e : Single("save", "SaveDraft", e)
      BY <1>0, <1>8, SaveMade DEF PushSaveDraft, Turn
    <2>2. /\ emitted' = [emitted EXCEPT !["save"] = @ + 1] /\ UNCHANGED <<targets, fillers>>
          /\ phase = "events" /\ "save" \in Loop
      BY <1>8, <2>1 DEF Single, PushBulkEvents, PushSaveDraft, Turn, plan, Loop
    <2>3. \A u \in Template : MadeOf(u)' = MadeOf(u) + IF u = "SaveDraft" THEN 1 ELSE 0
      BY <1>0, <2>2, RoundAdds
    <2> QED
      BY <2>1, <2>2, <2>3, TemplatesByLoop, SingleKeepsKinds
  <1>9. CASE PushInitialPublish
    <2>1. PICK e : Single("publish", "InitialPublish", e)
      BY <1>0, <1>9, PublishMade DEF PushInitialPublish, Turn
    <2>2. /\ emitted' = [emitted EXCEPT !["publish"] = @ + 1] /\ UNCHANGED <<targets, fillers>>
          /\ phase = "events" /\ "publish" \in Loop
      BY <1>9, <2>1 DEF Single, PushBulkEvents, PushInitialPublish, Turn, plan, Loop
    <2>3. \A u \in Template : MadeOf(u)' = MadeOf(u) + IF u = "InitialPublish" THEN 1 ELSE 0
      BY <1>0, <2>2, RoundAdds
    <2> QED
      BY <2>1, <2>2, <2>3, TemplatesByLoop, SingleKeepsKinds
  <1>10. CASE \E t \in FillerTemplate : PushFiller(t)
    <2>1. PICK t \in FillerTemplate : PushFiller(t)
      BY <1>10
    <2>2. PICK e : Single("filler", t, e)
      BY <1>0, <2>1, FillerMade DEF PushFiller, FillersTurn
    <2>3. /\ emitted' = [emitted EXCEPT !["filler"] = @ + 1] /\ UNCHANGED targets
          /\ fillers' = [fillers EXCEPT ![t] = @ - 1] /\ phase = "events"
      BY <2>1, <2>2 DEF Single, PushBulkEvents, PushFiller, FillersTurn, plan
    <2>4. \A u \in Template : MadeOf(u)' = MadeOf(u) + IF u = t THEN 1 ELSE 0
      BY <1>0, <2>3, FillerAdds
    <2> QED
      BY <2>2, <2>3, <2>4, TemplatesByLoop, SingleKeepsKinds
  <1>11. CASE WriteBulkFiles
    BY <1>11, StillKinds DEF WriteBulkFiles, FillersTurn, plan, progress, Planned, Bulk
  <1>12. CASE UNCHANGED vars
    BY <1>12, StillKinds DEF vars, plan, progress, Planned, Bulk
  <1> QED
    BY <1>1, <1>2, <1>3, <1>4, <1>5, <1>6, <1>7, <1>8, <1>9, <1>10, <1>11, <1>12 DEF Next

-----------------------------------------------------------------------------
(* Pairs.                                                                  *)

LEMMA ContentsDiffer ==
    ASSUME NEW i, NEW j
    PROVE  Pair(i) # Orphan(j) /\ (Pair(i) = Pair(j) => i = j)
  BY DEF Pair, Orphan, Ulid

(* The invariant about pairs, by the publications P, the drafts D and the  *)
(* rounds m and n of the loops.                                            *)
DraftTimes(D, c) ==
    {e.draft_created_at : e \in {f \in D : ContentOf(f) = c /\ f.draft_created_at # NullTime}}

Lead(i) == DraftToPublishLead(WeightedBulkApi(i), i) * DayLength

Coupled(P, D, i, e) == /\ {f \in P : ContentOf(f) = Pair(i)} = {e}
                       /\ e.content_published_at \in Int
                       /\ DraftTimes(D, Pair(i)) = {e.content_published_at - Lead(i)}

Paired(P, D, m, n) ==
    /\ \A e \in P : \E i \in 0 .. m - 1 : ContentOf(e) = Pair(i)
    /\ \A e \in D : ContentOf(e) \in {Pair(i) : i \in 0 .. m - 1} \cup {Orphan(i) : i \in 0 .. n - 1}
    /\ \A i \in 0 .. m - 1 : \E e \in P : Coupled(P, D, i, e)

Drafts(s) == OfKind(Rows(s), {"INITIAL_DRAFT"})

Published(s) == OfKind(Rows(s), {"PUBLISH_FROM_DRAFT"})

LEMMA PairsAreSets ==
    PairsMade <=> (Planned => Paired(Published(events), Drafts(events), emitted["pair"], emitted["orphan"]))
  <1>1. \A c : DraftsAt(Rows(events), c) = DraftTimes(Drafts(events), c)
    BY DEF DraftsAt, DraftTimes, Drafts
  <1>2. Publications = Published(events)
    BY DEF Publications, Published
  <1> QED
    BY <1>1, <1>2, Zenon DEF PairsMade, Paired, Coupled, Drafts, Lead

LEMMA PairsAreSetsNext ==
    PairsMade' <=> (Planned' => Paired(Published(events'), Drafts(events'), emitted'["pair"], emitted'["orphan"]))
  <1>1. (PairsMade <=> (Planned => Paired(Published(events), Drafts(events), emitted["pair"], emitted["orphan"])))'
    BY PairsAreSets, PTL
  <1> QED
    BY <1>1

LEMMA OrphanIsUnpaired ==
    ASSUME NEW P, NEW D, NEW m \in Nat, NEW n \in Nat, Paired(P, D, m, n),
           NEW e, ContentOf(e) = Orphan(n)
    PROVE  Paired(P, D \cup {e}, m, n + 1)
  <1> DEFINE C == D \cup {e}
  <1>1. 0 .. n - 1 \subseteq 0 .. n + 1 - 1 /\ n \in 0 .. n + 1 - 1
    OBVIOUS
  <1>2. ASSUME NEW i
        PROVE  DraftTimes(C, Pair(i)) = DraftTimes(D, Pair(i))
    BY ContentsDiffer DEF DraftTimes
  <1>3. \A f \in C :
            ContentOf(f) \in {Pair(i) : i \in 0 .. m - 1} \cup {Orphan(i) : i \in 0 .. n + 1 - 1}
    BY <1>1 DEF Paired
  <1>4. \A i \in 0 .. m - 1 : \E f \in P : Coupled(P, C, i, f)
    BY <1>2 DEF Paired, Coupled
  <1>5. \A f \in P : \E i \in 0 .. m - 1 : ContentOf(f) = Pair(i)
    BY DEF Paired
  <1> HIDE DEF C
  <1>6. Paired(P, C, m, n + 1)
    BY <1>3, <1>4, <1>5 DEF Paired
  <1> QED
    BY <1>6 DEF C

LEMMA CoupleIsPaired ==
    ASSUME NEW P, NEW D, NEW m \in Nat, NEW n \in Nat, Paired(P, D, m, n),
           NEW d, ContentOf(d) = Pair(m), NEW e, ContentOf(e) = Pair(m),
           e.content_published_at \in Int, Lead(m) \in Int,
           d.draft_created_at = e.content_published_at - Lead(m)
    PROVE  Paired(P \cup {e}, D \cup {d}, m + 1, n)
  <1> DEFINE Q == P \cup {e}
             C == D \cup {d}
  <1>1. /\ 0 .. m - 1 \subseteq 0 .. m + 1 - 1 /\ m \in 0 .. m + 1 - 1
        /\ \A i \in 0 .. m + 1 - 1 : i \in 0 .. m - 1 \/ i = m
        /\ m \notin 0 .. m - 1
    OBVIOUS
  <1>2. \A f \in Q : \E i \in 0 .. m + 1 - 1 : ContentOf(f) = Pair(i)
    BY <1>1 DEF Paired
  <1>3. \A f \in C : ContentOf(f) \in {Pair(i) : i \in 0 .. m + 1 - 1} \cup {Orphan(i) : i \in 0 .. n - 1}
    BY <1>1 DEF Paired
  <1>4. ASSUME NEW i \in 0 .. m - 1
        PROVE  \E f \in Q : Coupled(Q, C, i, f)
    <2>1. Pair(i) # Pair(m)
      BY <1>1, ContentsDiffer
    <2>2. {f \in Q : ContentOf(f) = Pair(i)} = {f \in P : ContentOf(f) = Pair(i)}
      BY <2>1
    <2>3. DraftTimes(C, Pair(i)) = DraftTimes(D, Pair(i))
      BY <2>1 DEF DraftTimes
    <2> QED
      BY <2>2, <2>3 DEF Paired, Coupled
  <1>5. Coupled(Q, C, m, e)
    <2>1. \A f \in P : ContentOf(f) # Pair(m)
      BY <1>1, ContentsDiffer DEF Paired
    <2>2. \A f \in D : ContentOf(f) # Pair(m)
      BY <1>1, ContentsDiffer DEF Paired
    <2>3. {f \in Q : ContentOf(f) = Pair(m)} = {e}
      BY <2>1
    <2>4. d.draft_created_at # NullTime
      BY NullAssumption
    <2>5. {f \in C : ContentOf(f) = Pair(m) /\ f.draft_created_at # NullTime} = {d}
      BY <2>2, <2>4
    <2>6. DraftTimes(C, Pair(m)) = {e.content_published_at - Lead(m)}
      BY <2>5 DEF DraftTimes
    <2> QED
      BY <2>3, <2>6 DEF Coupled
  <1>6. \A i \in 0 .. m + 1 - 1 : \E f \in Q : Coupled(Q, C, i, f)
    BY <1>1, <1>4, <1>5
  <1> HIDE DEF Q, C
  <1>7. Paired(Q, C, m + 1, n)
    BY <1>2, <1>3, <1>6 DEF Paired
  <1> QED
    BY <1>7 DEF Q, C

LEMMA KindGrows ==
    ASSUME NEW s, Numbered(s), NEW e, e.id = Len(s) + 1
    PROVE  /\ Drafts(s \o <<e>>) = IF e.event_kind = "INITIAL_DRAFT" THEN Drafts(s) \cup {e} ELSE Drafts(s)
           /\ Published(s \o <<e>>) = IF e.event_kind = "PUBLISH_FROM_DRAFT" THEN Published(s) \cup {e}
                                      ELSE Published(s)
  <1>1. Rows(s \o <<e>>) = Rows(s) \cup {e}
    BY RowsGrow
  <1> QED
    BY <1>1 DEF Drafts, Published, OfKind

LEMMA SingleKeepsPairs ==
    ASSUME Counted, PairsMade, phase = "events", NEW g, NEW t \in Template, NEW e, Single(g, t, e),
           t \notin {"InitialDraft", "PublishFromDraft"}, g \notin {"pair", "orphan"},
           g \in Loop \cup {"filler"}
    PROVE  PairsMade'
  <1>1. Numbered(events) /\ Planned /\ TypeOK
    BY DEF Counted, TypeOK, Numbered, Planned
  <1>2. e.event_kind \notin {"INITIAL_DRAFT", "PUBLISH_FROM_DRAFT"}
    BY DEF Single, Template, KindOf
  <1>3. Drafts(events') = Drafts(events) /\ Published(events') = Published(events)
    BY <1>1, <1>2, KindGrows DEF Single, PushBulkEvents
  <1>4. emitted'["pair"] = emitted["pair"] /\ emitted'["orphan"] = emitted["orphan"]
    BY <1>1 DEF Single, PushBulkEvents, TypeOK, Loop
  <1>5. Paired(Published(events'), Drafts(events'), emitted'["pair"], emitted'["orphan"])
    BY <1>1, <1>3, <1>4, PairsAreSets
  <1> QED
    BY <1>5, PairsAreSetsNext

LEMMA PairsNext == Counted /\ PairsMade /\ [Next]_vars => PairsMade'
  <1> SUFFICES ASSUME Counted, PairsMade, [Next]_vars PROVE PairsMade'
    OBVIOUS
  <1>0. /\ TypeOK /\ (phase = "events" => ValidateConfig(config) /\ Planned) /\ Numbered(events)
        /\ emitted["pair"] \in Nat /\ emitted["orphan"] \in Nat
    BY DEF Counted, TypeOK, Numbered, Loop, Planned
  <1>1. CASE Validate
    <2>1. ~Planned'
      BY <1>1 DEF Validate, Planned
    <2> QED
      BY <2>1, PairsAreSetsNext
  <1>2. CASE PrepareOutputEventsDir
    <2>1. phase' = config.preset /\ config.preset \in {"smoke", "bulk"}
      BY <1>0, <1>2, SeedAssumption DEF PrepareOutputEventsDir, TypeOK, Config
    <2>2. ~Planned'
      BY <2>1 DEF Planned
    <2> QED
      BY <2>2, PairsAreSetsNext
  <1>3. CASE GenerateSmokeFiles
    <2>1. ~Planned'
      BY <1>3 DEF GenerateSmokeFiles, Counted, Planned, Bulk
    <2> QED
      BY <2>1, PairsAreSetsNext
  <1>4. CASE Panic
    <2>1. ~Planned'
      BY <1>4 DEF Panic, Planned
    <2> QED
      BY <2>1, PairsAreSetsNext
  <1>5. CASE Plan
    <2>1. events' = <<>> /\ emitted'["pair"] = 0 /\ emitted'["orphan"] = 0
      BY <1>5 DEF Plan, Counted, Loop
    <2>2. Published(events') = {} /\ Drafts(events') = {}
      BY <2>1 DEF Published, Drafts, Rows, OfKind
    <2>3. Paired({}, {}, 0, 0)
      BY DEF Paired
    <2> QED
      BY <2>1, <2>2, <2>3, PairsAreSetsNext
  <1>6. CASE PushPair
    <2>1. PICK d, e : Couple(d, e)
      BY <1>0, <1>6, PairMade DEF PushPair, Turn
    <2> DEFINE s == events \o <<d>>
               m == emitted["pair"]
    <2>2. Planned /\ Len(events) \in Nat
      BY <1>0, <1>6 DEF PushPair, Turn, Numbered
    <2>3. events' = s \o <<e>>
      BY <1>0, <2>1, OneByOne DEF Couple, PushBulkEvents
    <2>4. d.event_kind = "INITIAL_DRAFT" /\ e.event_kind = "PUBLISH_FROM_DRAFT"
      BY <2>1 DEF Couple, KindOf
    <2>5. Numbered(s) /\ Len(s) = Len(events) + 1
      <3>1. "InitialDraft" \in Template
        BY TemplatesByLoop
      <3> QED
        BY <1>0, <2>1, <3>1, KindsAreKinds, OneMore DEF Couple
    <2>6. Drafts(s) = Drafts(events) \cup {d} /\ Published(s) = Published(events)
      BY <1>0, <2>1, <2>4, KindGrows DEF Couple
    <2> HIDE DEF s
    <2>7. Drafts(events') = Drafts(events) \cup {d} /\ Published(events') = Published(events) \cup {e}
      <3>1. e.id = Len(s) + 1
        BY <2>1, <2>2, <2>5 DEF Couple
      <3>2. Drafts(s \o <<e>>) = Drafts(s) /\ Published(s \o <<e>>) = Published(s) \cup {e}
        BY <2>4, <2>5, <3>1, KindGrows
      <3> QED
        BY <2>3, <2>6, <3>2
    <2>8. emitted'["pair"] = m + 1 /\ emitted'["orphan"] = emitted["orphan"]
      BY <1>0, <2>1 DEF Couple, PushBulkEvents, TypeOK, Loop
    <2>9. Lead(m) \in Int
      BY <1>0, LeadsAreDays, DayAssumption DEF Lead
    <2>10. Paired(Published(events) \cup {e}, Drafts(events) \cup {d}, m + 1, emitted["orphan"])
      <3>1. Paired(Published(events), Drafts(events), m, emitted["orphan"])
        BY <2>2, PairsAreSets
      <3>2. /\ ContentOf(d) = Pair(m) /\ ContentOf(e) = Pair(m) /\ e.content_published_at \in Int
            /\ d.draft_created_at = e.content_published_at - Lead(m)
        BY <2>1 DEF Couple, Lead
      <3> HIDE DEF m
      <3>3. m \in Nat
        BY <1>0 DEF m
      <3> QED
        BY <1>0, <2>9, <3>1, <3>2, <3>3, CoupleIsPaired
    <2> QED
      BY <2>7, <2>8, <2>10, PairsAreSetsNext
  <1>7. CASE PushOrphan
    <2>1. PICK e : Single("orphan", "InitialDraft", e) /\ ContentOf(e) = Orphan(emitted["orphan"])
      BY <1>0, <1>7, OrphanMade DEF PushOrphan, Turn
    <2>2. Planned
      BY <1>0, <1>7 DEF PushOrphan, Turn
    <2>3. e.event_kind = "INITIAL_DRAFT"
      BY <2>1 DEF Single, KindOf
    <2>4. Drafts(events') = Drafts(events) \cup {e} /\ Published(events') = Published(events)
      BY <1>0, <2>1, <2>3, KindGrows DEF Single, PushBulkEvents
    <2>5. emitted'["pair"] = emitted["pair"] /\ emitted'["orphan"] = emitted["orphan"] + 1
      BY <1>0, <2>1 DEF Single, PushBulkEvents, TypeOK, Loop
    <2>6. Paired(Published(events), Drafts(events) \cup {e}, emitted["pair"], emitted["orphan"] + 1)
      BY <1>0, <2>1, <2>2, PairsAreSets, OrphanIsUnpaired
    <2> QED
      BY <2>4, <2>5, <2>6, PairsAreSetsNext
  <1>8. CASE PushSaveDraft
    <2>1. PICK e : Single("save", "SaveDraft", e)
      BY <1>0, <1>8, SaveMade DEF PushSaveDraft, Turn
    <2>2. phase = "events" /\ "SaveDraft" \in Template /\ "save" \in Loop
      BY <1>8 DEF PushSaveDraft, Turn, Template, Loop
    <2> QED
      BY <2>1, <2>2, SingleKeepsPairs
  <1>9. CASE PushInitialPublish
    <2>1. PICK e : Single("publish", "InitialPublish", e)
      BY <1>0, <1>9, PublishMade DEF PushInitialPublish, Turn
    <2>2. phase = "events" /\ "InitialPublish" \in Template /\ "publish" \in Loop
      BY <1>9 DEF PushInitialPublish, Turn, Template, Loop
    <2> QED
      BY <2>1, <2>2, SingleKeepsPairs
  <1>10. CASE \E t \in FillerTemplate : PushFiller(t)
    <2>1. PICK t \in FillerTemplate : PushFiller(t)
      BY <1>10
    <2>2. phase = "events" /\ t \in Template /\ t \notin {"InitialDraft", "PublishFromDraft"}
      BY <2>1 DEF PushFiller, FillersTurn, FillerTemplate
    <2>3. PICK e : Single("filler", t, e)
      BY <1>0, <2>1, <2>2, FillerMade
    <2> QED
      BY <2>2, <2>3, SingleKeepsPairs
  <1>11. CASE WriteBulkFiles
    <2>1. UNCHANGED <<emitted, events>> /\ Planned
      BY <1>0, <1>11 DEF WriteBulkFiles, FillersTurn, progress
    <2> QED
      BY <2>1, PairsAreSets, PairsAreSetsNext
  <1>12. CASE UNCHANGED vars
    <2>1. UNCHANGED <<emitted, events>> /\ (Planned' => Planned)
      BY <1>12 DEF vars, progress, Planned, Bulk
    <2> QED
      BY <2>1, PairsAreSets, PairsAreSetsNext
  <1> QED
    BY <1>1, <1>2, <1>3, <1>4, <1>5, <1>6, <1>7, <1>8, <1>9, <1>10, <1>11, <1>12 DEF Next

-----------------------------------------------------------------------------
(* Files.                                                                  *)

(* Into an empty directory.                                                *)
LEMMA AllIsNew ==
    ASSUME files = <<>>, NEW D, NEW new, new = [k \in D |-> new[k]]
    PROVE  Written(new) = new
  <1>1. DOMAIN files = {} /\ DOMAIN new = D
    OBVIOUS
  <1>2. Written(new) = [k \in D |-> new[k]]
    BY <1>1 DEF Written
  <1> QED
    BY <1>2, Zenon

LEMMA SmokeIsNew ==
    ASSUME files = <<>>
    PROVE  Written(SmokeFiles) = SmokeFiles
  <1>1. SmokeFiles = [k \in {FileKey(e, e.id) : e \in Rows(SmokeFixtures)} |-> SmokeFiles[k]]
    BY DEF SmokeFiles
  <1> QED
    BY <1>1, AllIsNew

LEMMA BulkIsNew ==
    ASSUME files = <<>>
    PROVE  Written(BulkFiles) = BulkFiles
  <1> DEFINE keys == UNION {{[api |-> p[1], dt |-> p[2], name |-> n] :
                                n \in 0 .. Shards(Cardinality(InPartition(p))) - 1} : p \in Partitions(Rows(events))}
  <1>1. BulkFiles = [k \in keys |-> {e \in InPartition(<<k.api, k.dt>>) : Place(e) \div config.rows_per_file = k.name}]
    BY Zenon DEF BulkFiles
  <1> HIDE DEF keys
  <1>2. BulkFiles = [k \in keys |-> BulkFiles[k]]
    BY <1>1
  <1> QED
    BY <1>2, AllIsNew

LEMMA SingleIsFiled ==
    ASSUME Counted, Filed, phase = "events", NEW g, NEW t, NEW e, Single(g, t, e)
    PROVE  Filed'
  <1>1. Numbered(events) /\ Planned
    BY DEF Counted, TypeOK, Numbered, Planned
  <1>2. Rows(events') = Rows(events) \cup {e}
    BY <1>1, RowsGrow DEF Single, PushBulkEvents
  <1>3. UNCHANGED <<phase, schedule, files>>
    BY DEF Single, PushBulkEvents, plan
  <1> QED
    BY <1>1, <1>2, <1>3 DEF Filed, Single

LEMMA CoupleIsFiled ==
    ASSUME Counted, Filed, phase = "events", NEW d, NEW e, Couple(d, e)
    PROVE  Filed'
  <1> DEFINE s == events \o <<d>>
  <1>1. Numbered(events) /\ Planned /\ Len(events) \in Nat
    BY DEF Counted, TypeOK, Numbered, Planned
  <1>2. Numbered(s) /\ Len(s) = Len(events) + 1
    <2>1. "InitialDraft" \in Template
      BY TemplatesByLoop
    <2> QED
      BY <1>1, <2>1, KindsAreKinds, OneMore DEF Couple
  <1>3. Rows(s) = Rows(events) \cup {d}
    BY <1>1, RowsGrow DEF Couple
  <1>4. events' = s \o <<e>>
    BY <1>1, OneByOne DEF Couple, PushBulkEvents
  <1> HIDE DEF s
  <1>5. Rows(events') = Rows(events) \cup {d, e}
    <2>1. e.id = Len(s) + 1
      BY <1>1, <1>2 DEF Couple
    <2>2. Rows(s \o <<e>>) = Rows(s) \cup {e}
      BY <1>2, <2>1, RowsGrow
    <2> QED
      BY <1>3, <1>4, <2>2
  <1>6. UNCHANGED <<phase, schedule, files>>
    BY DEF Couple, PushBulkEvents, plan
  <1> QED
    BY <1>1, <1>5, <1>6 DEF Filed, Couple

LEMMA FiledNext == Counted /\ Filed /\ [Next]_vars => Filed'
  <1> SUFFICES ASSUME Counted, Filed, [Next]_vars PROVE Filed'
    OBVIOUS
  <1>0. TypeOK /\ (phase = "events" => ValidateConfig(config) /\ Bulk)
    BY DEF Counted
  <1>1. CASE Validate
    BY <1>1 DEF Validate, Filed, Planned
  <1>2. CASE PrepareOutputEventsDir
    <2>1. phase' \in {"smoke", "bulk"} /\ files' = <<>>
      BY <1>0, <1>2, SeedAssumption DEF PrepareOutputEventsDir, TypeOK, Config
    <2> QED
      BY <2>1 DEF Filed, Planned
  <1>3. CASE GenerateSmokeFiles
    <2>1. ~Bulk' /\ phase' = "done" /\ events' = SmokeFixtures /\ files' = SmokeFiles
      BY <1>3, SmokeIsNew DEF GenerateSmokeFiles, Counted, Filed, Bulk
    <2>2. summary' = Summary(Rows(events'), files')
      BY <1>3, <2>1 DEF GenerateSmokeFiles
    <2>3. SmokeFiles' = SmokeFiles
      BY DEF SmokeFiles
    <2> QED
      BY <2>1, <2>2, <2>3 DEF Filed, Planned
  <1>4. CASE Panic
    BY <1>4 DEF Panic, Filed, Planned
  <1>5. CASE Plan
    <2>1. events' = <<>> /\ phase' = "events" /\ files' = <<>>
      BY <1>5 DEF Plan, Counted, Filed
    <2>2. Rows(events') = {}
      BY <2>1 DEF Rows
    <2> QED
      BY <2>1, <2>2 DEF Filed
  <1>6. CASE PushPair
    <2>1. phase = "events"
      BY <1>6 DEF PushPair, Turn
    <2>2. PICK d, e : Couple(d, e)
      BY <1>0, <1>6, <2>1, PairMade
    <2> QED
      BY <2>1, <2>2, CoupleIsFiled
  <1>7. CASE PushOrphan
    <2>1. phase = "events"
      BY <1>7 DEF PushOrphan, Turn
    <2>2. PICK e : Single("orphan", "InitialDraft", e)
      BY <1>0, <1>7, <2>1, OrphanMade
    <2> QED
      BY <2>1, <2>2, SingleIsFiled
  <1>8. CASE PushSaveDraft
    <2>1. phase = "events"
      BY <1>8 DEF PushSaveDraft, Turn
    <2>2. PICK e : Single("save", "SaveDraft", e)
      BY <1>0, <1>8, <2>1, SaveMade
    <2> QED
      BY <2>1, <2>2, SingleIsFiled
  <1>9. CASE PushInitialPublish
    <2>1. phase = "events"
      BY <1>9 DEF PushInitialPublish, Turn
    <2>2. PICK e : Single("publish", "InitialPublish", e)
      BY <1>0, <1>9, <2>1, PublishMade
    <2> QED
      BY <2>1, <2>2, SingleIsFiled
  <1>10. CASE \E t \in FillerTemplate : PushFiller(t)
    <2>1. PICK t \in FillerTemplate : PushFiller(t)
      BY <1>10
    <2>2. phase = "events"
      BY <2>1 DEF PushFiller, FillersTurn
    <2>3. PICK e : Single("filler", t, e)
      BY <1>0, <2>1, <2>2, FillerMade
    <2> QED
      BY <2>2, <2>3, SingleIsFiled
  <1>11. CASE WriteBulkFiles
    <2>1. /\ UNCHANGED <<config, schedule, events>> /\ phase = "events" /\ phase' = "done"
          /\ files' = BulkFiles /\ summary' = Summary(Rows(events), BulkFiles)
      BY <1>11, BulkIsNew DEF WriteBulkFiles, FillersTurn, plan, progress, Filed
    <2>2. BulkFiles' = BulkFiles
      BY <2>1 DEF BulkFiles, InPartition, Place, Shards
    <2>3. \A e \in Rows(events) : e.dt \in schedule
      BY <1>0, <2>1 DEF Filed, Planned
    <2> QED
      BY <1>0, <2>1, <2>2, <2>3 DEF Filed, Bulk
  <1>12. CASE UNCHANGED vars
    <2>1. UNCHANGED <<phase, config, schedule, events, files, summary>>
      BY <1>12 DEF vars, plan, progress
    <2>2. BulkFiles' = BulkFiles /\ SmokeFiles' = SmokeFiles
      BY <2>1 DEF BulkFiles, InPartition, Place, Shards, SmokeFiles
    <2> QED
      BY <2>1, <2>2 DEF Filed, Planned, Bulk
  <1> QED
    BY <1>1, <1>2, <1>3, <1>4, <1>5, <1>6, <1>7, <1>8, <1>9, <1>10, <1>11, <1>12 DEF Next

-----------------------------------------------------------------------------
(* Chunks: what each file of a partition holds.                            *)

(* How many of E come before e.                                            *)
Rank(E, e) == Cardinality({f \in E : f.id < e.id})

HasIds(E) == /\ IsFiniteSet(E)
             /\ \A e \in E : e.id \in Nat
             /\ \A e, f \in E : e.id = f.id => e = f

LEMMA RankIsBelow ==
    ASSUME NEW E, HasIds(E), NEW e \in E
    PROVE  Rank(E, e) \in 0 .. Cardinality(E) - 1 /\ Cardinality(E) \in Nat
  <1> DEFINE before == {f \in E : f.id < e.id}
  <1>1. IsFiniteSet(E \ {e}) /\ Cardinality(E \ {e}) = Cardinality(E) - 1 /\ Cardinality(E) \in Nat
    BY FS_RemoveElement, FS_CardinalityType DEF HasIds
  <1>2. before \subseteq E \ {e}
    BY DEF HasIds
  <1>3. IsFiniteSet(before) /\ Cardinality(before) <= Cardinality(E \ {e})
    BY <1>1, <1>2, FS_Subset
  <1>4. Cardinality(before) \in Nat
    BY <1>3, FS_CardinalityType
  <1> HIDE DEF before
  <1>5. Cardinality(before) \in 0 .. Cardinality(E) - 1
    BY <1>1, <1>3, <1>4
  <1> QED
    BY <1>1, <1>5 DEF before, Rank

LEMMA RanksDiffer ==
    ASSUME NEW E, HasIds(E), NEW e \in E, NEW f \in E, Rank(E, e) = Rank(E, f)
    PROVE  e = f
  <1>1. ASSUME NEW a \in E, NEW b \in E, a.id < b.id
        PROVE  Rank(E, a) < Rank(E, b)
    <2> DEFINE low == {x \in E : x.id < a.id}
               high == {x \in E : x.id < b.id}
    <2>1. IsFiniteSet(low) /\ IsFiniteSet(high)
      BY FS_Subset DEF HasIds
    <2>2. a \notin low /\ low \cup {a} \subseteq high
      BY <1>1 DEF HasIds
    <2> HIDE DEF low, high
    <2>3. IsFiniteSet(low \cup {a}) /\ Cardinality(low \cup {a}) = Cardinality(low) + 1
      BY <2>1, <2>2, FS_AddElement
    <2>4. Cardinality(low \cup {a}) <= Cardinality(high)
      BY <2>1, <2>2, FS_Subset
    <2>5. Cardinality(low) \in Nat /\ Cardinality(high) \in Nat
      BY <2>1, FS_CardinalityType
    <2>6. Cardinality(low) < Cardinality(high)
      BY <2>3, <2>4, <2>5
    <2> QED
      BY <2>6 DEF Rank, low, high
  <1>2. Rank(E, e) \in Int /\ e.id \in Nat /\ f.id \in Nat
    BY RankIsBelow DEF HasIds
  <1>3. ~(e.id < f.id) /\ ~(f.id < e.id)
    BY <1>1, <1>2
  <1> QED
    BY <1>2, <1>3 DEF HasIds

(* No gaps: an injection into a set of the same size.                      *)
LEMMA RanksAreAll ==
    ASSUME NEW E, HasIds(E), NEW r \in 0 .. Cardinality(E) - 1
    PROVE  \E e \in E : Rank(E, e) = r
  <1> DEFINE n == Cardinality(E)
             g == [e \in E |-> Rank(E, e)]
  <1>1. n \in Nat
    BY FS_CardinalityType DEF HasIds
  <1>2. IsFiniteSet(0 .. n - 1) /\ Cardinality(0 .. n - 1) = n
    <2> HIDE DEF n
    <2> QED
      BY <1>1, FS_Interval
  <1>3. g \in Injection(E, 0 .. n - 1)
    <2>1. \A e \in E : g[e] = Rank(E, e) /\ g[e] \in 0 .. n - 1
      BY RankIsBelow
    <2>2. \A e, f \in E : g[e] = g[f] => e = f
      BY <2>1, RanksDiffer
    <2>3. g \in [E -> 0 .. n - 1]
      BY <2>1
    <2> HIDE DEF g, n
    <2> QED
      BY <2>2, <2>3 DEF Injection, IsInjective
  <1> HIDE DEF g
  <1>4. g \in Surjection(E, 0 .. n - 1)
    BY <1>2, <1>3, FS_Injection
  <1>5. \E e \in E : g[e] = r
    BY <1>4 DEF Surjection
  <1> QED
    BY <1>5 DEF g

(* Quotients.                                                              *)
LEMMA QuotientOfRank ==
    ASSUME NEW r \in Nat, NEW size \in Nat \ {0}, NEW q \in Nat
    PROVE  /\ r \div size \in Nat
           /\ r \div size = q <=> r \in q * size .. q * size + (size - 1)
  OBVIOUS

LEMMA ChunkIsFull ==
    ASSUME NEW E, HasIds(E), NEW size \in Nat \ {0}, NEW q \in Nat, q * size < Cardinality(E)
    PROVE  LET chunk == {e \in E : Rank(E, e) \div size = q}
           IN  IsFiniteSet(chunk) /\ Cardinality(chunk) \in 1 .. size
  <1> DEFINE chunk == {e \in E : Rank(E, e) \div size = q}
             first == q * size
             g == [e \in chunk |-> Rank(E, e)]
  <1>1. first \in Nat /\ first \in 0 .. Cardinality(E) - 1
    BY FS_CardinalityType DEF HasIds
  <1>2. IsFiniteSet(chunk)
    BY FS_Subset DEF HasIds
  <1>3. chunk # {}
    <2>1. PICK e \in E : Rank(E, e) = first
      BY <1>1, RanksAreAll
    <2>2. first \div size = q
      BY <1>1, QuotientOfRank
    <2> QED
      BY <2>1, <2>2
  <1>4. g \in Injection(chunk, first .. first + (size - 1))
    <2>1. \A e \in chunk : g[e] = Rank(E, e) /\ g[e] \in first .. first + (size - 1)
      BY RankIsBelow, QuotientOfRank
    <2>2. \A e, f \in chunk : g[e] = g[f] => e = f
      BY <2>1, RanksDiffer
    <2>3. g \in [chunk -> first .. first + (size - 1)]
      BY <2>1
    <2> HIDE DEF g, chunk, first
    <2> QED
      BY <2>2, <2>3 DEF Injection, IsInjective
  <1> HIDE DEF g, chunk, first
  <1>5. IsFiniteSet(first .. first + (size - 1)) /\ Cardinality(first .. first + (size - 1)) = size
    BY <1>1, FS_Interval
  <1>6. Cardinality(chunk) <= size
    BY <1>4, <1>5, FS_Injection
  <1>7. Cardinality(chunk) \in Nat /\ Cardinality(chunk) # 0
    BY <1>2, <1>3, FS_CardinalityType, FS_EmptySet
  <1> QED
    BY <1>2, <1>6, <1>7 DEF chunk

(* Files with the events of s, each event in one of them.                  *)
LEMMA FilesAddUp ==
    ASSUME NEW s, Numbered(s), NEW h, IsFiniteSet(DOMAIN h),
           \A k \in DOMAIN h : h[k] \subseteq Rows(s),
           \A k, j \in DOMAIN h : k # j => h[k] \cap h[j] = {},
           \A e \in Rows(s) : \E k \in DOMAIN h : e \in h[k]
    PROVE  Total([k \in DOMAIN h |-> Cardinality(h[k])]) = Len(s)
  <1> DEFINE f == [k \in DOMAIN h |-> Cardinality(h[k])]
  <1>1. \A k \in DOMAIN f : IsFiniteSet(h[k]) /\ f[k] = Cardinality(h[k])
    BY RowsAreFinite, FS_Subset
  <1>2. DOMAIN f = DOMAIN h
    OBVIOUS
  <1>3. UNION {h[k] : k \in DOMAIN f} = Rows(s)
    BY <1>2
  <1> HIDE DEF f
  <1>4. Total(f) = Cardinality(UNION {h[k] : k \in DOMAIN f})
    BY <1>1, <1>2, TotalOfParts
  <1> QED
    BY <1>3, <1>4, RowsAreFinite DEF f

(* The first and the last of some days.                                    *)
LEMMA FirstAndLast ==
    ASSUME NEW a \in Int, NEW b \in Int, NEW S, S \subseteq a .. b, S # {}
    PROVE  /\ Min(S) \in S /\ Max(S) \in S
           /\ \A x \in S : Min(S) <= x /\ x <= Max(S)
  <1> DEFINE up == {x - a : x \in S}
             down == {b - x : x \in S}
  <1>0. \A x \in S : x \in Int /\ x - a \in Nat /\ b - x \in Nat
    OBVIOUS
  <1>1. up \in SUBSET Nat /\ up # {} /\ down \in SUBSET Nat /\ down # {}
    BY <1>0
  <1>2. PICK y \in S : \A x \in S : y - a <= x - a
    <2>1. \E y \in up : \A x \in up : y <= x
      <3> HIDE DEF up
      <3> QED
        BY <1>1, LeastNumber
    <2> QED
      BY <2>1
  <1>3. PICK z \in S : \A x \in S : b - z <= b - x
    <2>1. \E z \in down : \A x \in down : z <= x
      <3> HIDE DEF down
      <3> QED
        BY <1>1, LeastNumber
    <2> QED
      BY <2>1
  <1> HIDE DEF up, down
  <1>4. \A x \in S : y <= x
    BY <1>0, <1>2
  <1>5. \A x \in S : x <= z
    BY <1>0, <1>3
  <1> QED
    BY <1>0, <1>4, <1>5 DEF Min, Max

-----------------------------------------------------------------------------
(* What the files have to do with the events, when all is done.            *)

(* The keys and what they stand for.                                       *)
LEMMA BulkFilesAreChunks ==
    ASSUME TypeOK, ValidateConfig(config)
    PROVE  /\ \A k \in DOMAIN BulkFiles :
                  /\ k = [api |-> k.api, dt |-> k.dt, name |-> k.name]
                  /\ BulkFiles[k] = {e \in InPartition(<<k.api, k.dt>>) : Place(e) \div config.rows_per_file = k.name}
                  /\ Cardinality(BulkFiles[k]) \in 1 .. config.rows_per_file
           /\ \A e \in Rows(events) :
                  LET k == [api |-> e.api, dt |-> e.dt, name |-> Place(e) \div config.rows_per_file]
                  IN  k \in DOMAIN BulkFiles /\ e \in BulkFiles[k]
  <1> DEFINE size == config.rows_per_file
             n(p) == Cardinality(InPartition(p))
             keysOf(p) == {[api |-> p[1], dt |-> p[2], name |-> i] : i \in 0 .. Shards(n(p)) - 1}
             keys == UNION {keysOf(p) : p \in Partitions(Rows(events))}
             file(k) == {e \in InPartition(<<k.api, k.dt>>) : Place(e) \div size = k.name}
  <1>1. DOMAIN BulkFiles = keys /\ \A k \in keys : BulkFiles[k] = file(k)
    BY Zenon DEF BulkFiles
  <1>2. size \in Nat \ {0}
    BY SeedAssumption DEF TypeOK, ValidateConfig, Config
  <1>3. ASSUME NEW p
        PROVE  HasIds(InPartition(p)) /\ n(p) \in Nat
    <2>1. Numbered(events)
      BY DEF TypeOK, Numbered
    <2>2. IsFiniteSet(InPartition(p))
      BY <2>1, RowsAreFinite, FS_Subset DEF InPartition
    <2> QED
      BY <2>1, <2>2, RowsAreFinite, FS_CardinalityType DEF HasIds, InPartition
  <1>4. \A e : Place(e) = Rank(InPartition(<<e.api, e.dt>>), e)
    BY DEF Place, Rank
  <1>5. ASSUME NEW c \in Nat, NEW q \in Nat
        PROVE  q \in 0 .. Shards(c) - 1 <=> q * size < c
    <2> DEFINE m == q * size
    <2>1. m \in Nat /\ (q + 1) * size = m + size
      BY <1>2
    <2>2. Shards(c) = (c + size - 1) \div size
      BY DEF Shards
    <2>3. (c + size - 1) \div size >= q + 1 <=> (q + 1) * size <= c + size - 1
      <3> DEFINE a == c + size - 1
      <3>1. a \in Nat
        BY <1>2
      <3> HIDE DEF a, size
      <3>2. \A x \in Nat : a \div size >= x <=> x * size <= a
        BY <1>2, <3>1
      <3> QED
        BY <3>2 DEF a
    <2>4. Shards(c) \in Nat
      BY <1>2, <2>2
    <2> HIDE DEF m, size
    <2> QED
      BY <1>2, <2>1, <2>2, <2>3, <2>4 DEF m
  <1>6. ASSUME NEW k \in keys
        PROVE  /\ k = [api |-> k.api, dt |-> k.dt, name |-> k.name]
               /\ Cardinality(file(k)) \in 1 .. size
    <2>1. PICK p \in Partitions(Rows(events)) : k \in keysOf(p)
      OBVIOUS
    <2>2. PICK i \in 0 .. Shards(n(p)) - 1 : k = [api |-> p[1], dt |-> p[2], name |-> i]
      BY <2>1
    <2>3. p = <<p[1], p[2]>>
      BY DEF Partitions
    <2>4. k.api = p[1] /\ k.dt = p[2] /\ k.name = i /\ <<k.api, k.dt>> = p
      BY <2>2, <2>3
    <2>5. i \in Nat /\ i * size < n(p)
      <3>1. i \in Nat
        OBVIOUS
      <3> HIDE DEF size, n
      <3> QED
        BY <1>3, <1>5, <3>1
    <2>6. Cardinality({e \in InPartition(p) : Rank(InPartition(p), e) \div size = i}) \in 1 .. size
      <3> HIDE DEF size
      <3> QED
        BY <1>2, <1>3, <2>5, ChunkIsFull DEF n
    <2>7. file(k) = {e \in InPartition(p) : Rank(InPartition(p), e) \div size = i}
      BY <1>4, <2>4 DEF InPartition
    <2> QED
      BY <2>2, <2>4, <2>6, <2>7
  <1>7. ASSUME NEW e \in Rows(events)
        PROVE  LET k == [api |-> e.api, dt |-> e.dt, name |-> Place(e) \div size]
               IN  k \in keys /\ e \in file(k)
    <2> DEFINE p == <<e.api, e.dt>>
               q == Place(e) \div size
               k == [api |-> e.api, dt |-> e.dt, name |-> q]
    <2>1. p \in Partitions(Rows(events)) /\ e \in InPartition(p) /\ p[1] = e.api /\ p[2] = e.dt
      BY DEF Partitions, InPartition
    <2>2. Place(e) \in 0 .. n(p) - 1 /\ n(p) \in Nat
      BY <1>3, <1>4, <2>1, RankIsBelow
    <2>3. q \in Nat /\ q * size <= Place(e)
      BY <1>2, <2>2, QuotientOfRank
    <2>4. q \in 0 .. Shards(n(p)) - 1
      <3>1. q * size < n(p)
        <4> HIDE DEF q, n, p
        <4>1. q * size \in Nat
          BY <1>2, <2>3
        <4> QED
          BY <2>2, <2>3, <4>1
      <3> HIDE DEF q, n, p, size
      <3> QED
        BY <1>5, <2>2, <2>3, <3>1
    <2>5. k \in keysOf(p)
      BY <2>1, <2>4
    <2>6. k \in keys
      <3> HIDE DEF k, keysOf, p
      <3> QED
        BY <2>1, <2>5
    <2>7. e \in file(k)
      BY <2>1
    <2> QED
      BY <2>6, <2>7
  <1> HIDE DEF keys, file
  <1>8. \A k \in keys : BulkFiles[k] = {e \in InPartition(<<k.api, k.dt>>) : Place(e) \div size = k.name}
    BY <1>1 DEF file
  <1> QED
    BY <1>1, <1>6, <1>7, <1>8

LEMMA BulkFilesAreParts ==
    ASSUME TypeOK, ValidateConfig(config)
    PROVE  /\ IsFiniteSet(DOMAIN BulkFiles)
           /\ \A k \in DOMAIN BulkFiles : /\ BulkFiles[k] \subseteq Rows(events)
                                          /\ \A e \in BulkFiles[k] : e.api = k.api /\ e.dt = k.dt
           /\ \A k, j \in DOMAIN BulkFiles : k # j => BulkFiles[k] \cap BulkFiles[j] = {}
           /\ \A e \in Rows(events) : \E k \in DOMAIN BulkFiles : e \in BulkFiles[k]
  <1> DEFINE key == [e \in Rows(events) |->
                        [api |-> e.api, dt |-> e.dt, name |-> Place(e) \div config.rows_per_file]]
  <1>1. \A k \in DOMAIN BulkFiles : \A e \in BulkFiles[k] :
            e \in Rows(events) /\ e.api = k.api /\ e.dt = k.dt /\ k = key[e]
    BY BulkFilesAreChunks DEF InPartition
  <1>2. \A k \in DOMAIN BulkFiles : BulkFiles[k] # {}
    <2>1. \A k \in DOMAIN BulkFiles : Cardinality(BulkFiles[k]) # 0
      <3>1. 0 \notin 1 .. config.rows_per_file
        BY SeedAssumption DEF TypeOK, Config
      <3> QED
        BY <3>1, BulkFilesAreChunks
    <2> QED
      BY <2>1, FS_EmptySet
  <1>3. \A e \in Rows(events) : key[e] \in DOMAIN BulkFiles /\ e \in BulkFiles[key[e]]
    BY BulkFilesAreChunks
  <1> HIDE DEF key
  <1>4. DOMAIN BulkFiles = {key[e] : e \in Rows(events)}
    <2>1. \A k \in DOMAIN BulkFiles : \E e \in Rows(events) : k = key[e]
      BY <1>1, <1>2, Zenon
    <2> QED
      BY <1>3, <2>1, Zenon
  <1>5. IsFiniteSet(Rows(events))
    BY RowsAreFinite DEF TypeOK, Numbered
  <1>6. IsFiniteSet(DOMAIN BulkFiles)
    BY <1>4, <1>5, FiniteImage
  <1> QED
    BY <1>1, <1>3, <1>6

(* When it is done, it has made what was asked for.                        *)
LEMMA DoneIsCounted ==
    ASSUME Counted, Bulk, phase = "done"
    PROVE  Len(events) = config.count
  <1>1. /\ TypeOK /\ ValidateConfig(config) /\ Len(events) = Made
        /\ targets = ComputeActivityTargets(config.count, shares)
        /\ \A g \in Loop : emitted[g] = Rounds(g)
        /\ \A t \in FillerTemplate : fillers[t] = 0
    BY DEF Counted, Planned
  <1>2. /\ targets \in [Template -> Nat] /\ TargetTotal(targets) = config.count
        /\ targets.PublishFromDraft <= targets.InitialDraft
    BY <1>1, Accepted, TargetsAddUp
  <1>3. LoopsMade = Part1(targets) - targets.UpdatePublished
    BY <1>1, <1>2, AllRounds
  <1>4. FillersUsed = targets.UpdatePublished + (Part4(targets) - Part1(targets))
    BY <1>1, <1>2, AllUsed
  <1>5. Part1(targets) \in Int /\ Part4(targets) = config.count /\ targets.UpdatePublished \in Int
    BY <1>2, TotalInParts DEF Template
  <1>6. config.count \in Int
    BY <1>1, Accepted
  <1> QED
    BY <1>1, <1>3, <1>4, <1>5, <1>6 DEF Made

LEMMA SmokeFilesAreParts ==
    /\ IsFiniteSet(DOMAIN SmokeFiles)
    /\ \A k \in DOMAIN SmokeFiles : /\ SmokeFiles[k] \subseteq Rows(SmokeFixtures)
                                    /\ Cardinality(SmokeFiles[k]) = 1
                                    /\ \A e \in SmokeFiles[k] : e.api = k.api /\ e.dt = k.dt
    /\ \A k, j \in DOMAIN SmokeFiles : k # j => SmokeFiles[k] \cap SmokeFiles[j] = {}
    /\ \A e \in Rows(SmokeFixtures) : \E k \in DOMAIN SmokeFiles : e \in SmokeFiles[k]
  <1> DEFINE s == SmokeFixtures
             key == [e \in Rows(s) |-> FileKey(e, e.id)]
  <1>1. Numbered(s)
    BY SmokeFixturesAreNumbered
  <1>2. DOMAIN SmokeFiles = {key[e] : e \in Rows(s)}
    BY DEF SmokeFiles
  <1>3. \A e \in Rows(s) : key[e] \in DOMAIN SmokeFiles /\ SmokeFiles[key[e]] = {s[e.id]} /\ s[e.id] = e
    <2>1. \A e \in Rows(s) : key[e].name = e.id
      BY DEF FileKey
    <2>2. \A k \in DOMAIN SmokeFiles : SmokeFiles[k] = {s[k.name]}
      BY DEF SmokeFiles
    <2> HIDE DEF key, s
    <2> QED
      BY <1>1, <1>2, <2>1, <2>2, RowsAreFinite
  <1>4. \A e \in Rows(s) : key[e].api = e.api /\ key[e].dt = e.dt
    BY DEF FileKey
  <1> HIDE DEF key, s
  <1>5. \A k \in DOMAIN SmokeFiles : \E e \in Rows(s) : k = key[e] /\ SmokeFiles[k] = {e}
    BY <1>2, <1>3
  <1>6. IsFiniteSet(DOMAIN SmokeFiles)
    BY <1>1, <1>2, RowsAreFinite, FiniteImage
  <1>7. ASSUME NEW k \in DOMAIN SmokeFiles
        PROVE  /\ SmokeFiles[k] \subseteq Rows(s) /\ Cardinality(SmokeFiles[k]) = 1
               /\ \A e \in SmokeFiles[k] : e.api = k.api /\ e.dt = k.dt
    <2>1. PICK e \in Rows(s) : k = key[e] /\ SmokeFiles[k] = {e}
      BY <1>5
    <2>2. Cardinality({e}) = 1
      BY FS_Singleton
    <2>3. SmokeFiles[k] \subseteq Rows(s) /\ Cardinality(SmokeFiles[k]) = 1
      BY <2>1, <2>2, Zenon
    <2>4. \A x \in SmokeFiles[k] : x.api = k.api /\ x.dt = k.dt
      BY <1>4, <2>1
    <2> QED
      BY <2>3, <2>4
  <1>8. \A k, j \in DOMAIN SmokeFiles : k # j => SmokeFiles[k] \cap SmokeFiles[j] = {}
    BY <1>5
  <1>9. \A e \in Rows(s) : \E k \in DOMAIN SmokeFiles : e \in SmokeFiles[k]
    BY <1>3, <1>5
  <1> QED
    BY <1>6, <1>7, <1>8, <1>9 DEF s

(* All of the smoke preset happens two days ago.                           *)
LEMMA SmokeDates ==
    Rows(SmokeFixtures) # {} /\ \A e \in Rows(SmokeFixtures) : e.dt = Today - 2 /\ e.dt \in Int
  <1>1. Today - 2 \in Int
    BY SeedAssumption
  <1>2. ASSUME NEW id, NEW api, NEW content, NEW type, NEW old, NEW new, NEW hour, NEW timing, hour \in 0 .. 23
        PROVE  SmokeFixture(id, api, content, type, old, new, hour, timing).dt = Today - 2
    <2>1. Day(JstDatetime(Today - 2, HourOfDay(hour))) = Today - 2
      BY <1>1, <1>2, HourIsInDay, DayOfTick
    <2> QED
      BY <2>1 DEF SmokeFixture, Normalized
  <1> DEFINE at == Today - 2
  <1>3. {11, 12, 13, 14, 15, 16} \subseteq 0 .. 23
    OBVIOUS
  <1>4. \A id, api, content, type, old, new, timing : \A hour \in {11, 12, 13, 14, 15, 16} :
            SmokeFixture(id, api, content, type, old, new, hour, timing).dt = at
    BY <1>2, <1>3
  <1> HIDE DEF at
  <1>5. PICK a, b, c, d, e, f, g, h :
            /\ SmokeFixtures = <<a, b, c, d, e, f, g, h>>
            /\ a.dt = at /\ b.dt = at /\ c.dt = at /\ d.dt = at
            /\ e.dt = at /\ f.dt = at /\ g.dt = at /\ h.dt = at
    BY <1>4 DEF SmokeFixtures
  <1>6. Rows(SmokeFixtures) = {a, b, c, d, e, f, g, h}
    <2>1. DOMAIN SmokeFixtures = {1, 2, 3, 4, 5, 6, 7, 8}
      BY <1>5
    <2> QED
      BY <1>5, <2>1 DEF Rows
  <1>7. Rows(SmokeFixtures) # {} /\ \A x \in Rows(SmokeFixtures) : x.dt = at
    BY <1>5, <1>6
  <1> QED
    BY <1>1, <1>7 DEF at

(* When it is done, the files are those of the preset.                     *)
LEMMA DoneIsFiled ==
    ASSUME IInv, phase = "done"
    PROVE  FilesHoldEvents
  <1>1. /\ TypeOK /\ ValidateConfig(config) /\ Numbered(events)
        /\ config.rows_per_file \in Nat \ {0} /\ config.days \in Nat \ {0}
    BY Accepted, SeedAssumption DEF IInv, Counted, TypeOK, Numbered, ValidateConfig, Config
  <1>2. summary = Summary(Rows(events), files)
    BY DEF IInv, Filed
  <1>3. /\ IsFiniteSet(DOMAIN files)
        /\ \A k \in DOMAIN files : /\ files[k] \subseteq Rows(events)
                                   /\ Cardinality(files[k]) \in 1 .. config.rows_per_file
                                   /\ \A e \in files[k] : e.api = k.api /\ e.dt = k.dt
        /\ \A k, j \in DOMAIN files : k # j => files[k] \cap files[j] = {}
        /\ \A e \in Rows(events) : \E k \in DOMAIN files : e \in files[k]
    <2>1. CASE Bulk
      <3>1. files = BulkFiles
        BY <2>1 DEF IInv, Filed
      <3> QED
        BY <1>1, <3>1, BulkFilesAreChunks, BulkFilesAreParts
    <2>2. CASE ~Bulk
      <3>1. files = SmokeFiles /\ events = SmokeFixtures
        BY <2>2 DEF IInv, Filed
      <3>2. 1 \in 1 .. config.rows_per_file
        BY <1>1
      <3> QED
        BY <3>1, <3>2, SmokeFilesAreParts
    <2> QED
      BY <2>1, <2>2
  <1>4. Total([k \in DOMAIN files |-> Cardinality(files[k])]) = Len(events)
    BY <1>1, <1>3, FilesAddUp
  <1>5. summary.event_count = Len(events) /\ summary.file_count = Cardinality(DOMAIN files)
    BY <1>1, <1>2, RowsAreFinite DEF Summary
  <1> DEFINE dts == {e.dt : e \in Rows(events)}
  <1>6. Rows(events) # {}
    <2>1. CASE Bulk
      <3>1. Len(events) = config.count /\ config.count > 0
        BY <1>1, <2>1, DoneIsCounted DEF IInv, ValidateConfig, Bulk
      <3>2. Cardinality(Rows(events)) # 0
        BY <1>1, <3>1, RowsAreFinite, Accepted
      <3> QED
        BY <3>2, FS_EmptySet
    <2>2. CASE ~Bulk
      BY <2>2, SmokeDates DEF IInv, Filed
    <2> QED
      BY <2>1, <2>2
  <1>7. /\ Min(dts) \in dts /\ Max(dts) \in dts
        /\ \A x \in dts : Min(dts) <= x /\ x <= Max(dts)
        /\ Bulk => dts \subseteq Period(config.days)
    <2>1. dts # {}
      BY <1>6
    <2>2. CASE Bulk
      <3>1. dts \subseteq Period(config.days)
        BY <1>1, <2>2 DEF IInv, Filed, Planned, TypeOK
      <3>2. Today \in Int /\ Today - config.days + 1 \in Int
        BY <1>1, SeedAssumption
      <3> HIDE DEF dts
      <3> QED
        BY <2>1, <3>1, <3>2, FirstAndLast DEF Period
    <2>3. CASE ~Bulk
      <3>1. dts \subseteq Today - 2 .. Today - 2
        BY <2>3, SmokeDates DEF IInv, Filed
      <3>2. Today - 2 \in Int
        BY SeedAssumption
      <3> HIDE DEF dts
      <3> QED
        BY <2>1, <2>3, <3>1, <3>2, FirstAndLast
    <2> QED
      BY <2>2, <2>3
  <1>8. summary.min_dt = Min(dts) /\ summary.max_dt = Max(dts)
    BY <1>2 DEF Summary
  <1>9. \A k \in DOMAIN files : k.dt \in dts
    <2>1. \A k \in DOMAIN files : files[k] # {}
      <3>1. 0 \notin 1 .. config.rows_per_file
        BY <1>1
      <3>2. \A k \in DOMAIN files : Cardinality(files[k]) # 0
        BY <1>3, <3>1
      <3> QED
        BY <3>2, FS_EmptySet
    <2> QED
      BY <1>3, <2>1
  <1> HIDE DEF dts
  <1> QED
    BY <1>3, <1>4, <1>5, <1>7, <1>8, <1>9 DEF FilesHoldEvents

-----------------------------------------------------------------------------
(* What the metric sees.                                                   *)

LEMMA ApisAreNames ==
    ASSUME NEW i
    PROVE  WeightedBulkApi(i) \in STRING
  <1>1. Apis \in Seq(STRING) /\ Apis # <<>>
    BY SeedAssumption
  <1>2. PICK reached \in SUBSET DOMAIN Apis :
           WeightedBulkApi(i) = Apis[IF reached = {} THEN Len(Apis) ELSE Min(reached)]
    BY DEF WeightedBulkApi
  <1>3. /\ Len(Apis) \in Nat /\ DOMAIN Apis = 1 .. Len(Apis) /\ Len(Apis) \in DOMAIN Apis
        /\ \A k \in DOMAIN Apis : Apis[k] \in STRING
    BY <1>1
  <1>4. reached # {} => Min(reached) \in DOMAIN Apis
    BY <1>3, FirstAndLast
  <1> QED
    BY <1>2, <1>3, <1>4

LEMMA PairsHaveIds ==
    ASSUME NEW i \in Nat
    PROVE  Pair(i)[2] # NullId
  <1>1. Pair(i)[2] = <<"bulk-metric-pair", WeightedBulkApi(i), i>>
    BY DEF Pair, Ulid
  <1>2. WeightedBulkApi(i) \in STRING
    BY ApisAreNames
  <1>3. \A a \in STRING : <<"bulk-metric-pair", a, i>> \in Namespace \X STRING \X Nat
    BY DEF Namespace
  <1> QED
    BY <1>1, <1>2, <1>3, NullAssumption

LEMMA MinOfOne ==
    ASSUME NEW x \in Int
    PROVE  MinOf({x}) = x
  BY DEF MinOf

LEMMA MetricSeesPairs ==
    ASSUME NEW s, NEW m \in Nat, NEW n, Paired(Published(s), Drafts(s), m, n), NEW days
    PROVE  LET metric == DraftToPublish(Rows(s), Rows(s), days)
           IN  /\ \A c \in DOMAIN metric : \E i \in 0 .. m - 1 : c = Pair(i) /\ metric[c] = Lead(i)
               /\ (\A e \in Rows(s) : e.dt \in days) => DOMAIN metric = {Pair(i) : i \in 0 .. m - 1}
  <1> DEFINE E == Rows(s)
             metric == DraftToPublish(E, E, days)
             joined == {c \in {ContentOf(e) : e \in E} :
                          /\ c[2] # NullId
                          /\ DraftsAt(E, c) # {}
                          /\ PublishedAt(E, days, c) # {}
                          /\ MinOf(PublishedAt(E, days, c)) >= MinOf(DraftsAt(E, c))}
  <1>1. DOMAIN metric = joined
        /\ \A c \in joined : metric[c] = MinOf(PublishedAt(E, days, c)) - MinOf(DraftsAt(E, c))
    BY DEF DraftToPublish
  <1>2. \A c : DraftsAt(E, c) = DraftTimes(Drafts(s), c)
    BY DEF DraftsAt, DraftTimes, Drafts
  <1>3. \A i \in 0 .. m - 1 : i \in Nat /\ Lead(i) \in Nat
    BY LeadsAreDays, DayAssumption DEF Lead
  <1>4. ASSUME NEW i \in 0 .. m - 1, NEW e, Coupled(Published(s), Drafts(s), i, e)
        PROVE  /\ PublishedAt(E, days, Pair(i)) \subseteq {e.content_published_at}
               /\ e.dt \in days => PublishedAt(E, days, Pair(i)) = {e.content_published_at}
               /\ PublishedAt(E, days, Pair(i)) # {} =>
                     /\ MinOf(PublishedAt(E, days, Pair(i))) - MinOf(DraftsAt(E, Pair(i))) = Lead(i)
                     /\ MinOf(PublishedAt(E, days, Pair(i))) >= MinOf(DraftsAt(E, Pair(i)))
               /\ DraftsAt(E, Pair(i)) # {}
    <2> DEFINE at == e.content_published_at
    <2>1. /\ {f \in Published(s) : ContentOf(f) = Pair(i)} = {e} /\ at \in Int
          /\ DraftsAt(E, Pair(i)) = {at - Lead(i)}
      BY <1>2, <1>4 DEF Coupled
    <2>2. at # NullTime
      BY <2>1, NullAssumption
    <2>3. PublishedAt(E, days, Pair(i)) =
              {f.content_published_at : f \in {f \in Published(s) : /\ f.dt \in days
                                                                   /\ ContentOf(f) = Pair(i)
                                                                   /\ f.content_published_at # NullTime}}
      BY DEF PublishedAt, OfKind, During, Published
    <2>4. PublishedAt(E, days, Pair(i)) \subseteq {at}
      BY <2>1, <2>3
    <2>5. e.dt \in days => PublishedAt(E, days, Pair(i)) = {at}
      BY <2>1, <2>2, <2>3
    <2> HIDE DEF at
    <2>6. MinOf({at}) = at /\ MinOf({at - Lead(i)}) = at - Lead(i) /\ at - (at - Lead(i)) = Lead(i)
          /\ at >= at - Lead(i)
      BY <1>3, <2>1, MinOfOne
    <2>7. PublishedAt(E, days, Pair(i)) # {} => PublishedAt(E, days, Pair(i)) = {at}
      BY <2>4
    <2> HIDE DEF E
    <2> QED
      BY <2>1, <2>4, <2>5, <2>6, <2>7 DEF at
  <1>5. ASSUME NEW c \in joined
        PROVE  \E i \in 0 .. m - 1 : c = Pair(i) /\ metric[c] = Lead(i)
    <2>1. PublishedAt(E, days, c) # {} /\ metric[c] = MinOf(PublishedAt(E, days, c)) - MinOf(DraftsAt(E, c))
      BY <1>1
    <2>2. PICK f \in Published(s) : ContentOf(f) = c
      BY <2>1 DEF PublishedAt, OfKind, During, Published
    <2>3. PICK i \in 0 .. m - 1 : c = Pair(i)
      BY <2>2 DEF Paired
    <2>4. PICK e \in Published(s) : Coupled(Published(s), Drafts(s), i, e)
      BY DEF Paired
    <2> HIDE DEF E, metric
    <2> QED
      BY <1>4, <2>1, <2>3, <2>4
  <1>6. ASSUME \A e \in E : e.dt \in days, NEW i \in 0 .. m - 1
        PROVE  Pair(i) \in joined
    <2>1. PICK e \in Published(s) : Coupled(Published(s), Drafts(s), i, e)
      BY DEF Paired
    <2>2. e \in E /\ ContentOf(e) = Pair(i) /\ e.dt \in days
      BY <1>6, <2>1 DEF Coupled, Published, OfKind
    <2>3. PublishedAt(E, days, Pair(i)) # {} /\ DraftsAt(E, Pair(i)) # {}
      BY <1>4, <2>1, <2>2
    <2>4. Pair(i)[2] # NullId
      BY <1>3, PairsHaveIds
    <2> HIDE DEF E
    <2> QED
      BY <1>4, <2>1, <2>2, <2>3, <2>4
  <1> HIDE DEF joined, metric
  <1>7. (\A e \in E : e.dt \in days) => DOMAIN metric = {Pair(i) : i \in 0 .. m - 1}
    BY <1>1, <1>5, <1>6
  <1> QED
    BY <1>1, <1>5, <1>7 DEF metric

-----------------------------------------------------------------------------
(* When it is done, what has been made is what the targets asked for.      *)
LEMMA DoneMeetsTargets ==
    ASSUME Counted, Bulk, phase = "done"
    PROVE  /\ emitted["pair"] = targets.PublishFromDraft
           /\ \A t \in Template : MadeOf(t) = targets[t]
  <1>1. /\ TypeOK /\ ValidateConfig(config)
        /\ targets = ComputeActivityTargets(config.count, shares)
        /\ \A g \in Loop : emitted[g] = Rounds(g)
        /\ \A t \in FillerTemplate : fillers[t] = 0
    BY DEF Counted, Planned
  <1>2. /\ targets \in [Template -> Nat]
        /\ targets.PublishFromDraft <= targets.InitialDraft
    BY <1>1, Accepted, TargetsAddUp
  <1>3. /\ emitted["pair"] = targets.PublishFromDraft
        /\ emitted["orphan"] = targets.InitialDraft - targets.PublishFromDraft
        /\ emitted["save"] = targets.SaveDraft
        /\ emitted["publish"] = targets.InitialPublish
    BY <1>1, <1>2 DEF Rounds, Loop, SaturatingSub, Template
  <1>4. /\ MadeOf("InitialDraft") = targets.InitialDraft
        /\ MadeOf("PublishFromDraft") = targets.PublishFromDraft
        /\ MadeOf("SaveDraft") = targets.SaveDraft
        /\ MadeOf("InitialPublish") = targets.InitialPublish
    BY <1>2, <1>3 DEF MadeOf, Template
  <1>5. ASSUME NEW t \in FillerTemplate
        PROVE  MadeOf(t) = targets[t]
    <2>1. MadeOf(t) = targets[t] - 0 /\ targets[t] \in Int
      BY <1>1, <1>2 DEF MadeOf, Used, FillerTemplate
    <2> QED
      BY <2>1
  <1> QED
    BY <1>3, <1>4, <1>5 DEF FillerTemplate

-----------------------------------------------------------------------------
(* Before the first event, there is nothing to count.                      *)
LEMMA InitInv == Init => IInv
  <1>1. Init => ~Planned /\ phase = "validate"
    BY DEF Init, Planned
  <1> QED
    BY <1>1, InitCounted DEF IInv, KindsCounted, PairsMade, Filed

LEMMA NextInv == IInv /\ [Next]_vars => IInv'
  BY NextCounted, KindsNext, PairsNext, FiledNext DEF IInv

(***************************************************************************)
(* Whatever is asked for and drawn, the invariant holds: the events are    *)
(* counted, altogether and by kind, the pairs are pairs, and every event   *)
(* is on the schedule and goes to the files (bulk.rs:24-313).              *)
(***************************************************************************)
THEOREM Invariant == Spec => []IInv
  <1> QED
    BY InitInv, NextInv, PTL DEF Spec

(***************************************************************************)
(* Types of what the generator keeps; in particular the ids of the events  *)
(* are consecutive and no loop runs too often (bulk.rs:118-313).           *)
(***************************************************************************)
THEOREM TypeCorrect == Spec => []TypeOK
  <1>1. IInv => TypeOK
    BY DEF IInv, Counted
  <1> QED
    BY <1>1, Invariant, PTL

(***************************************************************************)
(* For every number of days, the schedule has today and all days but the   *)
(* quiet ones (schedule.rs:52-66).                                         *)
(***************************************************************************)
THEOREM TodayIsActive == Spec => []ScheduleReachesToday
  <1>1. IInv => ScheduleReachesToday
    BY DEF IInv, Counted
  <1> QED
    BY <1>1, Invariant, PTL

(***************************************************************************)
(* For every table of weights and every count whose products fit a u32,    *)
(* the events are as many as asked for (activity.rs:54-95,                 *)
(* bulk.rs:114-313).                                                       *)
(***************************************************************************)
THEOREM CountIsExact == Spec => []CountIsHonored
  <1>1. IInv => CountIsHonored
    BY DoneIsCounted DEF IInv, CountIsHonored
  <1> QED
    BY <1>1, Invariant, PTL

(***************************************************************************)
(* For every table and every count, the events classify as the kinds the   *)
(* targets asked for, each as often as they did: the bodies of the         *)
(* templates are told apart by derive_event_kind, and the drafts of the    *)
(* pairs are not made twice (template.rs:43-80, bulk.rs:118-313).          *)
(***************************************************************************)
THEOREM KindsAreExact == Spec => []KindsMeetTargets
  <1>1. ASSUME IInv, Bulk, phase = "done", NEW t \in Template
        PROVE  Cardinality(OfKind(Rows(events), {KindOf[t]})) = targets[t]
    <2>1. Cardinality(OfKind(Rows(events), {KindOf[t]})) = MadeOf(t)
      BY <1>1, Zenon DEF IInv, KindsCounted, Planned
    <2>2. MadeOf(t) = targets[t]
      BY <1>1, DoneMeetsTargets DEF IInv
    <2> QED
      BY <2>1, <2>2
  <1>2. IInv => KindsMeetTargets
    BY <1>1 DEF KindsMeetTargets
  <1> QED
    BY <1>2, Invariant, PTL

(***************************************************************************)
(* For every period and every part of it, the draft-to-publish metric over *)
(* the generated events sees pairs only, each with the duration of its     *)
(* API, and all of them over the whole period (template.rs:40-41,          *)
(* bulk.rs:118-180, average_draft_to_publish.rs:16-60).                    *)
(***************************************************************************)
THEOREM PairsDriveMetric == Spec => []PairsDriveDraftToPublish
  <1>1. ASSUME IInv, Bulk, phase = "done"
        PROVE  PairsDriveDraftToPublish
    <2> DEFINE rows == Rows(events)
               m == emitted["pair"]
               pairs == {Pair(i) : i \in 0 .. m - 1}
               metric(days) == DraftToPublish(rows, rows, days)
    <2>1. Paired(Published(events), Drafts(events), m, emitted["orphan"]) /\ m \in Nat
      BY <1>1, PairsAreSets DEF IInv, Counted, TypeOK, Loop, Planned
    <2>2. m = targets.PublishFromDraft
      BY <1>1, DoneMeetsTargets DEF IInv
    <2>3. \A days : /\ \A c \in DOMAIN metric(days) :
                           \E i \in 0 .. m - 1 : c = Pair(i) /\ metric(days)[c] = Lead(i)
                    /\ (\A e \in rows : e.dt \in days) => DOMAIN metric(days) = pairs
      BY <2>1, MetricSeesPairs
    <2>4. \A e \in rows : e.dt \in Period(config.days)
      BY <1>1 DEF IInv, Counted, TypeOK, Filed, Planned
    <2> HIDE DEF rows, m
    <2>5. DOMAIN metric(Period(config.days)) = pairs
      BY <2>3, <2>4, Zenon
    <2> QED
      BY <2>2, <2>3, <2>5 DEF PairsDriveDraftToPublish, Lead, rows, m
  <1>2. IInv => PairsDriveDraftToPublish
    BY <1>1 DEF PairsDriveDraftToPublish
  <1> QED
    BY <1>2, Invariant, PTL

(***************************************************************************)
(* For every number of rows a file may have and whatever was in the        *)
(* directory, the files partition the events: none is lost between two     *)
(* files or written twice, the last file of a partition may be short and   *)
(* none is empty (bulk.rs:72-103, smoke.rs:41-61, io.rs:11-20).            *)
(***************************************************************************)
THEOREM FilesAreComplete == Spec => []FilesHoldEvents
  <1>1. IInv => FilesHoldEvents
    <2>1. CASE phase = "done"
      BY <2>1, DoneIsFiled
    <2>2. CASE phase # "done"
      BY <2>2 DEF FilesHoldEvents
    <2> QED
      BY <2>1, <2>2
  <1> QED
    BY <1>1, Invariant, PTL

=============================================================================
