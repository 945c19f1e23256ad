---------------------------- MODULE WeightFiles ----------------------------
(* Where the weights of a traced model are found: the tracer's search for its
   files (src/python/trace_model.py), and the compiler's, from what the tracer
   wrote down (src/crates/bridge/src/safetensors_resolver.rs).

   The disk has the snapshots of the model in the hub's cache, one of a
   revision, and the directory the model was named by, if it is one. A
   directory is [top, nested]: the safetensors files in it and those further
   down. A file is [name, readable] and a nested one has sub, where it is; its
   path is <<directory, name>>. A snapshot also has an age, the younger the
   later its directory was written to; no two are of one age. current is the
   revision the hub has now, with the files repo; ref is the one the cache
   takes for it.                                                              *)
EXTENDS Naturals, Sequences, SequencesExt

CONSTANTS FileNames, Subdirs, Commits

Files == [name : FileNames, readable : BOOLEAN]
FilesBelow == [name : FileNames, readable : BOOLEAN, sub : Subdirs]
Directory == [top : SUBSET Files, nested : SUBSET FilesBelow]
Snapshots == [top : SUBSET Files, nested : SUBSET FilesBelow, age : Nat]
IsDisk(disk) ==
    /\ disk \in [hub : {disk.hub}, ref : Commits, current : Commits, is_dir : BOOLEAN,
                 local : Directory, repo : Directory]
    /\ DOMAIN disk.hub \in SUBSET Commits /\ \A k \in DOMAIN disk.hub : disk.hub[k] \in Snapshots

NoDir == <<>>
NotLocated == [dir |-> NoDir, files |-> {}]

Snapshot(k) == <<"snapshot", k>>
Local == <<"local">>

Dirs(disk) == {Snapshot(k) : k \in DOMAIN disk.hub} \cup (IF disk.is_dir THEN {Local} ELSE {})
Top(disk, dir) ==
    IF dir \notin Dirs(disk) THEN {}
    ELSE IF dir = Local THEN disk.local.top ELSE disk.hub[dir[2]].top
Nested(disk, dir) ==
    IF dir \notin Dirs(disk) THEN {}
    ELSE IF dir = Local THEN disk.local.nested ELSE disk.hub[dir[2]].nested

TopFiles(disk, dir) == {<<dir, f.name>> : f \in Top(disk, dir)}
NestedFiles(disk, dir) == {<<Append(dir, f.sub), f.name>> : f \in Nested(disk, dir)}

(* The files of these that are there and can be read. *)
Loaded(disk, paths) ==
    {path \in paths :
        \E dir \in Dirs(disk) :
            \/ \E f \in Top(disk, dir) : f.readable /\ path = <<dir, f.name>>
            \/ \E f \in Nested(disk, dir) : f.readable /\ path = <<Append(dir, f.sub), f.name>>}

\* A mutant for NotFoundIsNotThere: only the youngest snapshot is looked at.
NewestSnapshot(disk) ==
    LET young == {k \in DOMAIN disk.hub :
                     \A l \in DOMAIN disk.hub : disk.hub[k].age <= disk.hub[l].age}
        newest == CHOOSE k \in young : TRUE
    IN  IF young = {} \/ Top(disk, Snapshot(newest)) = {} THEN NotLocated
        ELSE [dir |-> Snapshot(newest), files |-> TopFiles(disk, Snapshot(newest))]

(* The walk over the hub's cache both sides have: the youngest snapshot with
   files.                                                                     *)
discover_hf_safetensors(disk) ==
    LET with == {k \in DOMAIN disk.hub : disk.hub[k].top # {}}
        newest == CHOOSE k \in with : \A l \in with : disk.hub[k].age <= disk.hub[l].age
    IN  IF with = {} THEN NotLocated
        ELSE [dir |-> Snapshot(newest), files |-> TopFiles(disk, Snapshot(newest))]

-----------------------------------------------------------------------------
(* The tracer. *)

(* Strategy 1a: the snapshot the cache has of what it takes for the current
   revision. Its directory is kept even when it holds no such file.           *)
snapshot_download_local(disk) ==
    IF disk.ref \notin DOMAIN disk.hub THEN NotLocated
    ELSE [dir |-> Snapshot(disk.ref), files |-> TopFiles(disk, Snapshot(disk.ref))]

(* Strategy 1b: files that are not there yet are fetched, all or, when the
   transfer breaks off, some of them.                                         *)
MissingTop(disk) ==
    {f \in disk.repo.top : \A g \in Top(disk, Snapshot(disk.current)) : g.name # f.name}
MissingNested(disk) ==
    {f \in disk.repo.nested :
        \A g \in Nested(disk, Snapshot(disk.current)) : <<g.sub, g.name>> # <<f.sub, f.name>>}

Downloaded(disk, top, nested) ==
    LET to == Snapshot(disk.current)
        written == [top |-> Top(disk, to) \cup top, nested |-> Nested(disk, to) \cup nested, age |-> 0]
    IN  [disk EXCEPT
            !.ref = disk.current,
            !.hub = IF top \cup nested = {} THEN @
                    ELSE [k \in DOMAIN disk.hub \cup {disk.current} |->
                             IF k = disk.current THEN written
                             ELSE [disk.hub[k] EXCEPT !.age = @ + 1]]]

(* Strategy 2: the first of the repository's revisions, in no order, with its
   files wherever they are in it.                                             *)
scan_cache_dir(disk) ==
    {[dir |-> Snapshot(k), files |-> TopFiles(disk, Snapshot(k)) \cup NestedFiles(disk, Snapshot(k))] :
        k \in DOMAIN disk.hub}

(* Strategy 3: the directory the model was named by. *)
scan_local(disk) ==
    IF disk.is_dir THEN [dir |-> Local, files |-> TopFiles(disk, Local)] ELSE NotLocated

-----------------------------------------------------------------------------
(* The compiler. *)

from_cache_dir(disk, dir) == Loaded(disk, TopFiles(disk, dir))

from_cache_dir_recursive(disk, dir) == Loaded(disk, TopFiles(disk, dir) \cup NestedFiles(disk, dir))

from_hf_model_id(disk) == Loaded(disk, discover_hf_safetensors(disk).files)

\* A mutant for OneRevision: what one strategy finds is added to the others'.
FromEverywhere(disk, located) ==
    Loaded(disk, located.files) \cup from_cache_dir_recursive(disk, located.dir)
                                \cup from_hf_model_id(disk)

(* The first strategy that loads something. *)
from_traced_graph(disk, located) ==
    LET explicit == Loaded(disk, located.files)
        cached == from_cache_dir(disk, located.dir)
        recursive == from_cache_dir_recursive(disk, located.dir)
    IN  IF explicit # {} THEN explicit
        ELSE IF cached # {} THEN cached
        ELSE IF recursive # {} THEN recursive
        ELSE from_hf_model_id(disk)
=============================================================================
