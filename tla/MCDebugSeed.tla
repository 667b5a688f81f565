---------------------------- MODULE MCDebugSeed ----------------------------
(***************************************************************************)
(* DebugSeed for TLC: shares of an eighth, so that a few events are a      *)
(* mixture of all loops.                                                   *)
(***************************************************************************)
EXTENDS DebugSeed, TLC

Lifecycles == [NoTargets EXCEPT !.InitialDraft = 3, !.PublishFromDraft = 1, !.SaveDraft = 1,
                                !.InitialPublish = 1, !.RepublishFromClosed = 1, !.DeleteClosed = 1]

Fillers(s, t, u) == [NoTargets EXCEPT !.InitialDraft = 3, !.PublishFromDraft = 2,
                                      ![s] = 1, ![t] = 1, ![u] = 1]

Drafts == [NoTargets EXCEPT !.InitialDraft = 4, !.PublishFromDraft = 2,
                            !.SaveDraft = 1, !.RepublishFromClosed = 1]

MCShares == { Lifecycles, Drafts,
              Fillers("AddDraftToPublished", "DiscardDraftOnPublished", "UpdatePublished"),
              Fillers("UnpublishToDraft", "UnpublishToClosed", "ReopenToDraft"),
              Fillers("RepublishFromClosed", "DeleteDraft", "DeletePublished") }

Asked(count, days, contents, rows) ==
    [preset |-> "bulk", count |-> count, days |-> days, contents |-> contents, rows_per_file |-> rows]

MCSmoke == {[preset |-> "smoke", count |-> 0, days |-> 3, contents |-> 0, rows_per_file |-> 1]}

MCConfigs == { Asked(8, 1, 2, 2), Asked(8, 2, 1, 3), Asked(5, 3, 1, 2), Asked(4, 5, 1, 2), Asked(3, 5, 2, 1),
               Asked(40, 1, 1, 1), Asked(0, 1, 1, 1), Asked(1, 6, 1, 1), Asked(1, 1, 0, 1), Asked(1, 1, 1, 0) } \cup MCSmoke

MCApis == <<"blogs", "news">>

MCApiWeights == <<2, 1>>

=============================================================================
