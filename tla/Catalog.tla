------------------------------ MODULE Catalog ------------------------------
(***************************************************************************)
(* What the library looks up in the catalog of a volume (catalog.rs), and   *)
(* the operations of ApfsVolume that consist of it (lib.rs).                *)
(*                                                                         *)
(* A volume that is open is vol = [disk, omap, root]: the blocks that can   *)
(* be read, the root of the volume's object map, the root of its catalog.   *)
(* A path is the sequence of its components.                                *)
(***************************************************************************)
EXTENDS BTree, SequencesExt

CONSTANT MaxDepth  \* bound: how deep walk descends, 0 for the root alone

ASSUME CatalogAssumption == MaxDepth \in Nat

\* J_TYPE_INODE, J_TYPE_FILE_EXTENT, J_TYPE_DIR_REC; ROOT_DIR_RECORD.
InodeType == 3
ExtentType == 8
DirRecType == 9
RootDir == 2

\* The values of the records.  The size of an inode is that of its data stream.
InodeVal(kind, private, size) == [kind |-> kind, private |-> private, size |-> size]
DrecVal(file, kind) == [file |-> file, kind |-> kind]
FileExtentVal(length, block) == [length |-> length, block |-> block]

Key(oid, type) == [oid |-> oid, type |-> type]

\* Where the nodes of the catalog are.
Children(vol) == Virtual(vol.disk, vol.omap)

InCatalog(vol, oid, type) == Scan(vol.disk, vol.root, Key(oid, type), Children(vol))

LookupInode(vol, oid) ==
    Then(Lookup(vol.disk, vol.root, Key(oid, InodeType), Children(vol)), LAMBDA rec :
        IF rec = Nothing THEN Err("FileNotFound") ELSE Ok(rec.val))

\* The first of the directory's records that has the name.
LookupDrec(vol, parent, name) ==
    Then(InCatalog(vol, parent, DirRecType), LAMBDA found :
        LET named == { i \in DOMAIN found.recs : found.recs[i].key.sub = name }
        IN  IF named = {} THEN Err("FileNotFound")
            ELSE Ok(found.recs[Min(named)].val))

\* The extent records of a data stream, which are keyed by the private id.
LookupExtents(vol, private) ==
    Then(InCatalog(vol, private, ExtentType), LAMBDA found :
        Ok([i \in DOMAIN found.recs |-> found.recs[i].val]))

\* What resolve_path answers when it has come to an object.
WithInode(vol, oid) ==
    Then(LookupInode(vol, oid), LAMBDA inode : Ok([oid |-> oid, inode |-> inode]))

\* current_parent, after the loop of resolve_path over all components but the last.
ParentOf(vol, path) ==
    LET parent[i \in 1 .. Len(path)] ==
            IF i = 1 THEN Ok(RootDir)
            ELSE Then(parent[i - 1], LAMBDA dir :
                 Then(LookupDrec(vol, dir, path[i - 1]), LAMBDA drec :
                     IF drec.kind # "directory" THEN Err("NotADirectory")
                     ELSE Ok(drec.file)))
    IN  parent[Len(path)]

ResolvePath(vol, path) ==
    IF path = <<>> THEN WithInode(vol, RootDir)
    ELSE Then(ParentOf(vol, path), LAMBDA dir :
         Then(LookupDrec(vol, dir, path[Len(path)]), LAMBDA drec :
             WithInode(vol, drec.file)))

SizeOrZero(inode) == IF inode.ok THEN inode.val.size ELSE 0

\* An entry of list_directory: its size is 0 if its inode cannot be read.
EntryOf(vol, rec) ==
    [name |-> rec.key.sub, oid |-> rec.val.file, kind |-> rec.val.kind,
     size |-> SizeOrZero(LookupInode(vol, rec.val.file))]

Entries(vol, dir) ==
    Then(InCatalog(vol, dir, DirRecType), LAMBDA found :
        Ok([i \in DOMAIN found.recs |-> EntryOf(vol, found.recs[i])]))
-----------------------------------------------------------------------------
\* ApfsVolume::list_directory: the root is listed without a look at its inode.
ListDirectory(vol, path) ==
    IF path = <<>> THEN Entries(vol, RootDir)
    ELSE Then(ResolvePath(vol, path), LAMBDA found :
             IF found.inode.kind # "directory" THEN Err("NotADirectory")
             ELSE Entries(vol, found.oid))

\* ApfsVolume::stat.
Stat(vol, path) ==
    Then(ResolvePath(vol, path), LAMBDA found :
        Ok([oid |-> found.oid, kind |-> found.inode.kind, size |-> found.inode.size]))

\* ApfsVolume::stat_and_extents: of a directory the size 0 and no extents.  The
\* extents are laid end to end by the module Extents.
StatAndExtents(vol, path) ==
    Then(ResolvePath(vol, path), LAMBDA found :
        IF found.inode.kind = "directory"
        THEN Ok([oid |-> found.oid, kind |-> "directory", extents |-> <<>>, size |-> 0])
        ELSE Then(LookupExtents(vol, found.inode.private), LAMBDA extents :
                 Ok([oid |-> found.oid, kind |-> found.inode.kind,
                     extents |-> extents, size |-> found.inode.size])))

\* Mutant of Exists: a path that cannot be resolved does not exist.
ExistsIfResolved(vol, path) == Ok(ResolvePath(vol, path).ok)

\* ApfsVolume::exists: an error other than FileNotFound is passed on.
Exists(vol, path) ==
    LET found == ResolvePath(vol, path)
    IN  IF found.ok THEN Ok(TRUE)
        ELSE IF found.err = "FileNotFound" THEN Ok(FALSE)
        ELSE found

\* walk_recursive, for each entry of a directory: its path, then what is below it.
\* "below" lists a subdirectory.
WalkEntries(entries, path, below) ==
    LET upTo[i \in 0 .. Len(entries)] ==
            IF i = 0 THEN Ok(<<>>)
            ELSE LET e == entries[i]
                     here == Append(path, e.name)
                 IN  Then(upTo[i - 1], LAMBDA sofar :
                     Then(IF e.kind = "directory"
                          THEN below[[dir |-> e.oid, path |-> here]] ELSE Ok(<<>>),
                          LAMBDA more : Ok(Append(sofar, here) \o more)))
    IN  upTo[Len(entries)]

\* The directory that is walked, and its path.
WalkArgs == [dir : Nat, path : Seq(Nat)]

\* Mutant of WalkDir: the path of the directory is lost.
WalkDirFromRoot(vol, below) ==
    [at \in WalkArgs |->
        Then(Entries(vol, at.dir), LAMBDA entries : WalkEntries(entries, <<>>, below))]

WalkDir(vol, below) ==
    [at \in WalkArgs |->
        Then(Entries(vol, at.dir), LAMBDA entries : WalkEntries(entries, at.path, below))]

WalkTooDeep == [at \in WalkArgs |-> Err("StackOverflow")]

\* ApfsVolume::walk.
Walk(vol) ==
    LET level[n \in 0 .. MaxDepth] ==
            WalkDir(vol, IF n = 0 THEN WalkTooDeep ELSE level[n - 1])
    IN  level[MaxDepth][[dir |-> RootDir, path |-> <<>>]]
=============================================================================
