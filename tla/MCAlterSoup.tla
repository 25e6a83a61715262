------------------------------ MODULE MCAlterSoup ------------------------------
\* AlterSoup with its sets of alterations, and what may happen during each, for
\* TLC.
EXTENDS AlterSoup, TLC

\* What each alteration withstands: everything while the soup stays in the
\* database; nothing that caches the old features, or leaves a file unwritten,
\* while rows become files; no deletion while files stay files; no crash and no
\* such reader while files become rows.
Disturbed ==
    (<<"internal", "internal">> :> AllOps) @@
    (<<"internal", "external">> :> AllOps \ {"retrieve", "create", "unwritable"}) @@
    (<<"external", "external">> :> AllOps \ {"delete"}) @@
    (<<"external", "internal">> :> AllOps \ {"retrieve", "crash"})

\* From files into the database, with process death.
BlobCrash == <<"external", "internal">> :> {"crash"}
=============================================================================
