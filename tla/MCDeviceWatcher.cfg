\* A watcher from its registration to its drop, with at most four notifications
\* raised, running or queued at a time.
CONSTANT MaxNotes = 4
SPECIFICATION MCFairSpec
INVARIANTS ContextAlive BoxFollowsRegistration
PROPERTIES DropTerminates ArrivalsAreReported
