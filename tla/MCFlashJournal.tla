--------------------------- MODULE MCFlashJournal ---------------------------
\* FlashJournal for TLC, under two environments that each behaviour keeps: the
\* quiet one of the configuration, and a faulty one in which lockouts time out,
\* the data grows over a dirty cache, a growth gives up its wait, and core 1
\* writes the persistent region too.
EXTENDS FlashJournal

CONSTANT FaultyChanges  \* bound on the changes in the faulty environment

VARIABLE environment

Faulty == INSTANCE FlashJournal WITH
    LockoutFails <- TRUE, QuietGrowth <- FALSE, PersistentWrites <- TRUE, MaxChanges <- FaultyChanges

MCVars == <<vars, environment>>

MCInit == Init /\ environment \in {"quiet", "faulty"}

MCNext ==
    \/ environment = "quiet" /\ Next /\ UNCHANGED environment
    \/ environment = "faulty" /\ Faulty!Next /\ UNCHANGED environment

\* The fairness of FairSpec, in the quiet environment.
MCSpec ==
    /\ MCInit
    /\ [][MCNext]_MCVars
    /\ WF_MCVars(environment = "quiet" /\ Core0 /\ UNCHANGED environment)

-----------------------------------------------------------------------------
\* Properties.

\* A journal slot programmed a second time, after a first attempt that failed half way, still
\* names the sectors of its batch, whatever the environment does; and where it is quiet, the
\* journal of a batch is complete before its first target is erased and recovery brings back
\* one batch or the other (low_flash_task; see EntriesNotGarbled and BatchesKept).
JournalKept == EntriesNotGarbled /\ (environment = "quiet" => BatchesKept)

\* In the quiet environment, what core 1 saw when flash_commit_sync returned true outlives
\* every later power loss (see SyncedSurvives).
SyncIsDurable == environment = "quiet" => SyncedSurvives

\* In the quiet environment a write-out that was requested is carried out, so that
\* flash_commit_sync does not wait for ever.
WriteOutCompletes == environment = "quiet" /\ flash_available ~> ~flash_available
=============================================================================
