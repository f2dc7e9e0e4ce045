------------------------------- MODULE Driver -------------------------------
(***************************************************************************)
(* The callbacks of ApfsDriver (src/src/driver.rs) on the threads of WinFsp, *)
(* around the cache of what is known of a path.                             *)
(*                                                                         *)
(* A path gets into the cache in two ways: resolved, with its extents, by   *)
(* get_security_by_name and open, and without extents by the listing of its *)
(* directory.  No lock is held between a look into the cache and what is    *)
(* put there later, the cache forgets what was not used for longest, and    *)
(* every operation of the volume may fail.  The volume itself is read-only. *)
(***************************************************************************)
EXTENDS FileInfo, Sequences, FiniteSets

CONSTANTS
    Threads,        \* the threads of WinFsp
    NoThread,
    Dirs,           \* paths of directories
    Root,           \* "/"
    FilePaths,      \* paths of files and symbolic links
    AbsentPaths,    \* paths that are asked for and do not exist
    Listing,        \* Listing[d]: the children of d, as the catalog has them
    Inodes,         \* Inodes[p]: number, size and times of p, as its inode has them
    BufferSizes,    \* what a buffer for a listing may hold
    Capacity,       \* STAT_CACHE_CAPACITY
    MaxCalls,       \* bound: callbacks
    MaxFaults       \* bound: I/O errors

Existing == Dirs \cup FilePaths
Paths == Existing \cup AbsentPaths

ASSUME DriverAssumption ==
    /\ NoThread \notin Threads
    /\ Root \in Dirs
    /\ Dirs \cap FilePaths = {}
    /\ Existing \cap AbsentPaths = {}
    /\ Listing \in [Dirs -> Seq(Existing)]
    /\ Inodes \in [Existing -> [oid : Nat, size : 0 .. Word - Cluster,
                               created : Times, modified : Times]]
    /\ \A d \in Dirs : Inodes[d].size = 0
    /\ BufferSizes \subseteq Nat
    /\ Capacity \in Nat \ {0}
    /\ MaxCalls \in Nat
    /\ MaxFaults \in Nat

VARIABLES
    cache,          \* stat_cache, the most recently used entry first
    cacheLock,      \* who holds its mutex from one step to the next
    volumeLock,     \* who holds the mutex of the volume
    contexts,       \* the ApfsFileContexts of what is open
    callback,       \* callback[t]: the callback that t is in
    calls,          \* how many callbacks there have been
    faults          \* how many I/O errors

locks == <<cacheLock, volumeLock>>
vars == <<cache, cacheLock, volumeLock, contexts, callback, calls, faults>>

KindOf(p) == IF p \in Dirs THEN "directory" ELSE "file"

(***************************************************************************)
(* CachedStat, with its path.  inode: its stat is that of its inode and not *)
(* the zeros of list_directory for an inode that cannot be read.  resolved  *)
(* is extents_resolved.                                                    *)
(***************************************************************************)
Entry == [path : Existing, inode : BOOLEAN, resolved : BOOLEAN]

NoEntry == [path |-> CHOOSE p \in Existing : TRUE, inode |-> FALSE,
            resolved |-> FALSE]

Zeros == [size |-> 0, created |-> 0, modified |-> 0]

StatOf(e) == IF e.inode THEN Inodes[e.path] ELSE Zeros

\* The FileInfo of an answer.  The record of a directory has the kind and the number
\* of what it names, whether or not the inode can be read.
InfoOf(e) == FillFileInfo(KindOf(e.path), Inodes[e.path].oid, StatOf(e).size,
                          StatOf(e).created, StatOf(e).modified)

\* In read_directory: entries are those of list_directory, next the one that the
\* cache is told of next, room the size of the buffer, got what it was given of
\* the listing.
Callback == [op : {"security", "open", "list", "info", "volume"},
             stage : {"idle", "lookup", "wait", "inside", "put", "fill",
                      "filling", "answer", "listed", "end"},
             path : Paths, found : Entry, entries : Seq(Entry),
             next : Nat \ {0}, room : Nat, got : Nat]

TypeOK ==
    /\ cache \in Seq(Entry)
    /\ Len(cache) <= Capacity
    /\ \A i, j \in DOMAIN cache : i # j => cache[i].path # cache[j].path
    /\ cacheLock \in Threads \cup {NoThread}
    /\ volumeLock \in Threads \cup {NoThread}
    /\ contexts \subseteq Entry
    /\ callback \in [Threads -> Callback]
    /\ calls \in 0 .. MaxCalls
    /\ faults \in 0 .. MaxFaults

NoCallback == [op |-> "info", stage |-> "idle", path |-> NoEntry.path,
               found |-> NoEntry, entries |-> <<>>, next |-> 1, room |-> 0, got |-> 0]

Init ==
    /\ cache = <<>>
    /\ cacheLock = NoThread
    /\ volumeLock = NoThread
    /\ contexts = {}
    /\ callback = [t \in Threads |-> NoCallback]
    /\ calls = 0
    /\ faults = 0
-----------------------------------------------------------------------------
Cached(p) == \E i \in DOMAIN cache : cache[i].path = p

PlaceOf(p) == CHOOSE i \in DOMAIN cache : cache[i].path = p

EntryOf(p) == cache[PlaceOf(p)]

Without(p) ==
    IF Cached(p)
    THEN SubSeq(cache, 1, PlaceOf(p) - 1)
             \o SubSeq(cache, PlaceOf(p) + 1, Len(cache))
    ELSE cache

\* LruCache::get: the entry becomes the most recently used one.
Promoted(p) == IF Cached(p) THEN <<EntryOf(p)>> \o Without(p) ELSE cache

\* Mutant of With: nothing is evicted.
WithUnbounded(e) == <<e>> \o Without(e.path)

\* LruCache::put: the least recently used entry goes when the cache is full.
With(e) ==
    LET all == <<e>> \o Without(e.path)
    IN  IF Len(all) <= Capacity THEN all ELSE SubSeq(all, 1, Capacity)

\* What stat_and_extents answers of a path.
Resolved(p) == [path |-> p, inode |-> TRUE, resolved |-> TRUE]

\* What a listing has of a child; unread are those whose inode could not be read.
Listed(p, unread) == [path |-> p, inode |-> p \notin unread, resolved |-> FALSE]
-----------------------------------------------------------------------------
At(t, stage) == callback[t].stage = stage

Goes(t, stage) == callback' = [callback EXCEPT ![t].stage = stage]

Returns(t) == callback' = [callback EXCEPT ![t] = NoCallback]

Enter(t, op, stage, p) ==
    /\ At(t, "idle")
    /\ calls < MaxCalls
    /\ calls' = calls + 1
    /\ callback' = [callback EXCEPT ![t] =
           [NoCallback EXCEPT !.op = op, !.stage = stage, !.path = p]]
    /\ UNCHANGED <<cache, locks, contexts, faults>>

\* A callback that is back before another thread takes a step.
AnswerAtOnce(t) ==
    /\ At(t, "idle")
    /\ calls < MaxCalls
    /\ calls' = calls + 1
    /\ UNCHANGED <<cache, locks, contexts, callback, faults>>

\* That the root is a directory is answered from its path alone.
GetSecurityByName(t, p) ==
    \/ p = Root /\ AnswerAtOnce(t)
    \/ p # Root /\ Enter(t, "security", "lookup", p)

Open(t, p) == Enter(t, "open", "lookup", p)

GetFileInfo(t, c) == Enter(t, "info", "lookup", c.path)

GetVolumeInfo(t) == Enter(t, "volume", "wait", NoEntry.path)

\* read_directory without a marker.
ReadDirectory(t, c) ==
    /\ c.path \in Dirs
    /\ Enter(t, "list", "wait", c.path)

Close(c) ==
    /\ contexts' = contexts \ {c}
    /\ UNCHANGED <<cache, locks, callback, calls, faults>>

\* Mutant of Serves: open takes whatever is cached.
ServesAny(op, e) == TRUE

\* open does with a cached entry if it has extents or needs none.
Serves(op, e) == op = "open" => e.resolved \/ KindOf(e.path) = "directory"

\* get_cached_stat, and the branch on its answer.
Lookup(t) ==
    /\ At(t, "lookup")
    /\ cacheLock = NoThread
    /\ LET p == callback[t].path
       IN  /\ cache' = Promoted(p)
           /\ IF Cached(p) /\ Serves(callback[t].op, EntryOf(p))
              THEN callback' = [callback EXCEPT ![t].stage = "answer",
                                                ![t].found = EntryOf(p)]
              ELSE Goes(t, "wait")
    /\ UNCHANGED <<locks, contexts, calls, faults>>

LockVolume(t) ==
    /\ At(t, "wait")
    /\ volumeLock = NoThread
    /\ volumeLock' = t
    /\ Goes(t, "inside")
    /\ UNCHANGED <<cache, cacheLock, contexts, calls, faults>>

\* stat_and_extents in get_security_by_name and open, stat in get_file_info.
Stat(t) ==
    /\ At(t, "inside")
    /\ callback[t].op \in {"security", "open", "info"}
    /\ callback[t].path \in Existing
    /\ volumeLock' = NoThread
    /\ callback' = [callback EXCEPT
           ![t].found = Resolved(callback[t].path),
           ![t].stage = IF callback[t].op = "info" THEN "answer" ELSE "put"]
    /\ UNCHANGED <<cache, cacheLock, contexts, calls, faults>>

\* list_directory in read_directory.
List(t) ==
    /\ At(t, "inside")
    /\ callback[t].op = "list"
    /\ volumeLock' = NoThread
    /\ LET names == Listing[callback[t].path]
       IN  \E unread \in {{}} \cup { {names[i]} : i \in DOMAIN names } :
               /\ faults + Cardinality(unread) <= MaxFaults
               /\ faults' = faults + Cardinality(unread)
               /\ callback' = [callback EXCEPT ![t].stage = "fill",
                      ![t].entries = [i \in DOMAIN names |-> Listed(names[i], unread)]]
    /\ UNCHANGED <<cache, cacheLock, contexts, calls>>

\* get_volume_info: what ApfsVolume and the driver have known since they were made.
TellVolume(t) ==
    /\ At(t, "inside") /\ callback[t].op = "volume"
    /\ volumeLock' = NoThread
    /\ Returns(t)
    /\ UNCHANGED <<cache, cacheLock, contexts, calls, faults>>

\* Mutant of VolumeFails: the mutex stays locked behind the error.
VolumeFailsLocked(t) ==
    /\ At(t, "inside") /\ callback[t].op # "volume"
    /\ \/ callback[t].path \notin Existing /\ UNCHANGED faults
       \/ faults < MaxFaults /\ faults' = faults + 1
    /\ Returns(t)
    /\ UNCHANGED <<cache, locks, contexts, calls>>

\* The volume answers with an error, since there is no such path or a read failed.
VolumeFails(t) ==
    /\ At(t, "inside") /\ callback[t].op # "volume"
    /\ \/ callback[t].path \notin Existing /\ UNCHANGED faults
       \/ faults < MaxFaults /\ faults' = faults + 1
    /\ volumeLock' = NoThread
    /\ Returns(t)
    /\ UNCHANGED <<cache, cacheLock, contexts, calls>>

\* put_cached_stat.
Put(t) ==
    /\ At(t, "put")
    /\ cacheLock = NoThread
    /\ cache' = With(callback[t].found)
    /\ Goes(t, "answer")
    /\ UNCHANGED <<locks, contexts, calls, faults>>

\* read_directory keeps the cache locked while it goes through the entries.
LockCache(t) ==
    /\ At(t, "fill")
    /\ cacheLock = NoThread
    /\ cacheLock' = t
    /\ Goes(t, "filling")
    /\ UNCHANGED <<cache, volumeLock, contexts, calls, faults>>

HasNext(t) == callback[t].next <= Len(callback[t].entries)

NextEntry(t) == callback[t].entries[callback[t].next]

\* Mutant of Fill: what is cached already is overwritten.
FillOverwriting(t) ==
    /\ At(t, "filling") /\ HasNext(t)
    /\ cache' = With(NextEntry(t))
    /\ callback' = [callback EXCEPT ![t].next = @ + 1]
    /\ UNCHANGED <<locks, contexts, calls, faults>>

\* LruCache::contains does not promote, and what is there stays as it is.
Fill(t) ==
    /\ At(t, "filling") /\ HasNext(t)
    /\ cache' = IF Cached(NextEntry(t).path) THEN cache ELSE With(NextEntry(t))
    /\ callback' = [callback EXCEPT ![t].next = @ + 1]
    /\ UNCHANGED <<locks, contexts, calls, faults>>

\* The DirBuffer has "." and ".." and the entries.
InBuffer(t) == Len(callback[t].entries) + 2

Fitting(t, room) == IF InBuffer(t) < room THEN InBuffer(t) ELSE room

\* The context's DirBuffer is filled and read: a listing that does not fill the
\* buffer ends with a mark.
Filled(t) ==
    /\ At(t, "filling") /\ ~ HasNext(t)
    /\ cacheLock' = NoThread
    /\ \E room \in BufferSizes :
           callback' = [callback EXCEPT
               ![t].room = room, ![t].got = Fitting(t, room),
               ![t].stage = IF InBuffer(t) < room THEN "end" ELSE "listed"]
    /\ UNCHANGED <<cache, volumeLock, contexts, calls, faults>>

\* No room for the DirBuffer, or a name that Windows has no place for.
BufferFails(t) ==
    /\ At(t, "filling") /\ ~ HasNext(t)
    /\ faults < MaxFaults /\ faults' = faults + 1
    /\ cacheLock' = NoThread
    /\ Returns(t)
    /\ UNCHANGED <<cache, volumeLock, contexts, calls>>

\* Mutant of ReadOn: the marker is ignored, and so is where it was.
ReadOnAgain(t) ==
    /\ At(t, "listed")
    /\ callback' = [callback EXCEPT ![t].stage = "end",
                                    ![t].got = @ + Fitting(t, callback[t].room)]
    /\ UNCHANGED <<cache, locks, contexts, calls, faults>>

\* Without a mark WinFsp asks again, with the last name as the marker, and takes
\* the answer Ok(0) for the end.
ReadOn(t) ==
    /\ At(t, "listed")
    /\ Goes(t, "end")
    /\ UNCHANGED <<cache, locks, contexts, calls, faults>>

ListEnds(t) ==
    /\ At(t, "end")
    /\ Returns(t)
    /\ UNCHANGED <<cache, locks, contexts, calls, faults>>

Answer(t) ==
    /\ At(t, "answer")
    /\ contexts' = IF callback[t].op = "open"
                   THEN contexts \cup {callback[t].found} ELSE contexts
    /\ Returns(t)
    /\ UNCHANGED <<cache, locks, calls, faults>>

ThreadStep(t) ==
    \/ Lookup(t) \/ LockVolume(t) \/ Stat(t) \/ List(t) \/ TellVolume(t)
    \/ VolumeFails(t) \/ Put(t) \/ LockCache(t) \/ Fill(t) \/ Filled(t)
    \/ BufferFails(t) \/ ReadOn(t) \/ ListEnds(t) \/ Answer(t)

\* The bound on the callbacks is reached and all have returned.
NoMoreCalls ==
    /\ calls = MaxCalls
    /\ \A t \in Threads : At(t, "idle")
    /\ UNCHANGED vars

Next ==
    \/ \E t \in Threads : \/ \E p \in Paths : \/ GetSecurityByName(t, p)
                                              \/ Open(t, p)
                          \/ \E c \in contexts : \/ GetFileInfo(t, c)
                                                 \/ ReadDirectory(t, c)
                          \/ GetVolumeInfo(t)
                          \/ ThreadStep(t)
    \/ \E c \in contexts : Close(c)
    \/ NoMoreCalls

\* A thread of WinFsp that can run does.
Spec == Init /\ [][Next]_vars /\ \A t \in Threads : WF_vars(ThreadStep(t))
-----------------------------------------------------------------------------
(***************************************************************************)
(* A file that is open has its extents and its size, whatever the cache had *)
(* of it when it was opened and whatever failed before: without them every  *)
(* read of it would be empty.                                              *)
(***************************************************************************)
OpenFilesAreReadable ==
    \A c \in contexts : KindOf(c.path) = "file" => c.resolved /\ c.inode

\* What a directory's record of p says is so.
IsNamedIn(info, p) ==
    /\ info.attributes = "directory" <=> p \in Dirs
    /\ info.index = Inodes[p].oid

\* What info says is so of p.
IsInfoOf(info, p) ==
    /\ IsNamedIn(info, p)
    /\ info.size = Inodes[p].size
    /\ IsAllocation(info.allocation, Inodes[p].size)
    /\ IsFileTime(info.created, Inodes[p].created)
    /\ IsFileTime(info.modified, Inodes[p].modified)

(***************************************************************************)
(* What is answered agrees with the volume, and what get_file_info says of  *)
(* an open file agrees with its context, though its entry may have been     *)
(* evicted and come back from a listing: the size, its allocation, and the  *)
(* times, before 1970, too.  A listing gives zeros for the size and times   *)
(* of an inode that it could not read, and these stay in the cache.  They   *)
(* are all that an error makes wrong: the kind and the number are right,    *)
(* and so is everything that open answers of a file, after any errors.      *)
(***************************************************************************)
AnswersAreRight ==
    \A t \in Threads :
        /\ At(t, "answer") =>
            LET p == callback[t].path
                info == InfoOf(callback[t].found)
            IN  /\ callback[t].found.path = p
                /\ IsNamedIn(info, p)
                /\ faults = 0 \/ (callback[t].op = "open" /\ p \in FilePaths)
                       => IsInfoOf(info, p)
        /\ At(t, "end") =>
            \A i \in DOMAIN callback[t].entries :
                LET p == Listing[callback[t].path][i]
                    info == InfoOf(callback[t].entries[i])
                IN  /\ IsNamedIn(info, p)
                    /\ faults = 0 => IsInfoOf(info, p)

(***************************************************************************)
(* A listing that a buffer can hold is given as a whole and nothing twice,  *)
(* though an inode in it could not be read, and though no room is left for  *)
(* the mark at its end.  Of a longer one the buffer is all that the caller  *)
(* gets: read_directory answers each marker with the end (driver.rs:286).   *)
(***************************************************************************)
ListingIsWhole ==
    \A t \in Threads :
        At(t, "end") =>
            LET n == Len(Listing[callback[t].path]) + 2
            IN  callback[t].got = IF n <= callback[t].room THEN n ELSE callback[t].room

(***************************************************************************)
(* A listing never replaces an entry that has its extents by one that has   *)
(* none, not even one that another thread has put there since the listing   *)
(* was read; such an entry leaves the cache by eviction only.               *)
(***************************************************************************)
ResolvedStays ==
    [][\A p \in Existing :
           Cached(p) /\ EntryOf(p).resolved /\ Cached(p)'
               => EntryOf(p).resolved']_vars

(***************************************************************************)
(* Every callback returns, for as many as there are: no thread waits for a  *)
(* mutex that is never unlocked.                                           *)
(***************************************************************************)
CallbacksReturn ==
    \A t \in Threads : ~ At(t, "idle") ~> At(t, "idle")
=============================================================================
