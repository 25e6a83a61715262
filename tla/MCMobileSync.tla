----------------------------- MODULE MCMobileSync -----------------------------
\* MobileSync with its configurations for TLC.
EXTENDS MobileSync, TLC

Idle == [target |-> "single", initial |-> 2, entries |-> 3, edits |-> 4, clock |-> 3, ops |-> {},
         upRuns |-> FALSE, upMerge |-> "LEAVE_IF_CHANGED", externalIds |-> FALSE,
         downRuns |-> {}, downMerge |-> "LEAVE_IF_CHANGED", sorted |-> TRUE,
         downEnds |-> {}, fails |-> TRUE, crashes |-> FALSE]

\* Sync ups with LEAVE_IF_CHANGED and external ids, every change around them.
UpConf ==
    [Idle EXCEPT !.upRuns = TRUE, !.externalIds = TRUE, !.crashes = TRUE, !.initial = 1,
                 !.entries = 2, !.edits = 4, !.clock = 3,
                 !.ops = {"app_create", "app_update", "app_delete", "app_purge",
                          "other_update", "other_delete", "ties"}]

\* Sorted sync downs and removals of ghosts, stopped, killed and resumed.
DownConf ==
    [Idle EXCEPT !.downRuns = {"down", "ghosts"}, !.downEnds = {"STOPPED"}, !.crashes = TRUE,
                 !.ops = {"app_update", "app_delete", "other_create", "other_update",
                          "other_delete"}]

\* Both ways, without external ids and with unsorted queries; with one change
\* less when sync downs may also fail.
BothConf ==
    [Idle EXCEPT !.upRuns = TRUE, !.upMerge = "OVERWRITE", !.sorted = FALSE,
                 !.downRuns = {"down", "ghosts"}, !.crashes = TRUE, !.initial = 1,
                 !.ops = {"app_create", "app_update", "other_delete"}]
FailingConf == [BothConf EXCEPT !.downEnds = {"STOPPED", "FAILED"}, !.initial = 2, !.edits = 3,
                                !.ops = @ \union {"other_update"}]

RecordsConfs == {UpConf, DownConf, BothConf, FailingConf}
\* Batches of two of up to three records.
BatchConf ==
    [Idle EXCEPT !.upRuns = TRUE, !.target = "batch", !.crashes = TRUE, !.initial = 2,
                 !.edits = 4, !.clock = 3,
                 !.ops = {"app_create", "app_update", "app_delete", "app_purge",
                          "other_update", "other_delete"}]
CollectionConf == [BatchConf EXCEPT !.target = "collection", !.edits = 3]
BatchConfs ==
    {[BatchConf EXCEPT !.externalIds = TRUE],
     [BatchConf EXCEPT !.upMerge = "OVERWRITE"],
     [CollectionConf EXCEPT !.externalIds = TRUE],
     [CollectionConf EXCEPT !.upMerge = "OVERWRITE"]}

\* Nothing fails.
ReRunConfs ==
    {[BatchConf EXCEPT !.upMerge = "OVERWRITE", !.crashes = FALSE, !.fails = FALSE,
                       !.initial = 1, !.entries = 2, !.edits = 4,
                       !.ops = {"app_create", "app_update", "other_delete", "ties"}]}

\* An answer is lost, then a sync down.
DuplicateConfs ==
    {[Idle EXCEPT !.upRuns = TRUE, !.externalIds = TRUE, !.downRuns = {"down"}, !.initial = 0,
                  !.edits = 1, !.ops = {"app_create"}]}

\* A sync down fails after a page.
FailedDownConfs ==
    {[Idle EXCEPT !.downRuns = {"down"}, !.downEnds = {"FAILED"}, !.edits = 2, !.clock = 2]}
=============================================================================
