------------------------ MODULE TracePipelineProofs ------------------------
(* The traced compile, for any jobs, targets, symbolic traces and contents of
   the cache, and any search that fails.

   - The weights are of one revision, and a compile that has none could not
     have found any (WeightsInv): what the tracer wrote down is of one directory
     (LocatedAlike), whatever has become of that directory since; what is loaded
     is what the compiler's own search yields of it, on the disk as it is from
     then on (LoadedOnce).
   - What the builder writes is of the kinds the family has and agrees with the
     tables (CompileInv): every operation is followed from the traced node to
     the built one, and the tables from the configuration to both functions.
   - What is read (ReadingInv): the parameters that a graph written from a
     configuration names are read by the operations built from it, under the
     names the decode step makes for them.                                    *)
EXTENDS TracePipeline, FiniteSetTheorems, SequenceTheorems, WellFoundedInduction, TLAPS

Places == {NoDir, Local} \cup {Snapshot(k) : k \in Commits}

\* The files the tracer found lie in the directory it names.
LocatedAlike(found) ==
    found.dir \in Places /\ \A path \in found.files : Revision(path) = found.dir

LoadedOnce ==
    /\ phase \in WeightsRead => loaded = from_traced_graph(disk, located)
    /\ loaded # {} => /\ phase \in WeightsRead \cup {"failed"}
                      /\ loaded = from_traced_graph(disk, located)

WeightsInv == IsDisk(disk) /\ LocatedAlike(located) /\ LoadedOnce

-----------------------------------------------------------------------------
(* A least member of a set of numbers. *)
LEMMA LeastExists ==
    ASSUME NEW S \in SUBSET Nat, S # {}
    PROVE  \E least \in S : \A n \in S : least <= n
<1>1. PICK least \in S : \A n \in S : ~ (<<n, least>> \in OpToRel(<, Nat))
  BY NatLessThanWellFounded, WFMin
<1>2. \A n \in S : least <= n
  <2> SUFFICES ASSUME NEW n \in S, n < least PROVE FALSE
    OBVIOUS
  <2>1. <<n, least>> \in OpToRel(<, Nat)
    BY DEF OpToRel
  <2> QED
    BY <1>1, <2>1
<1> QED
  BY <1>2

(* The revision of a file at the top of a directory, and of one below a
   snapshot.                                                                  *)
LEMMA RevisionOf ==
    /\ \A name : Revision(<<Local, name>>) = Local
    /\ \A k, name : Revision(<<Snapshot(k), name>>) = Snapshot(k)
    /\ \A k, sub, name : Revision(<<Append(Snapshot(k), sub), name>>) = Snapshot(k)
    /\ \A k : Snapshot(k) # Local
<1>1. \A k, sub : /\ Append(Snapshot(k), sub)[1] = "snapshot"
                 /\ Append(Snapshot(k), sub)[2] = k
  <2> SUFFICES ASSUME NEW k, NEW sub
               PROVE  Append(Snapshot(k), sub)[1] = "snapshot" /\ Append(Snapshot(k), sub)[2] = k
    OBVIOUS
  <2> DEFINE Parts == {"snapshot", k, sub}
  <2>1. <<"snapshot", k>> \in Seq(Parts) /\ sub \in Parts
    OBVIOUS
  <2>2. \A i \in 1..2 : Append(<<"snapshot", k>>, sub)[i] = <<"snapshot", k>>[i]
    <3> HIDE DEF Parts
    <3>1. Len(<<"snapshot", k>>) = 2
      OBVIOUS
    <3> QED
      BY <2>1, <3>1, AppendProperties
  <2> QED
    BY <2>2 DEF Snapshot
<1> QED
  BY <1>1 DEF Revision, Snapshot, Local

LEMMA TopRevision ==
    ASSUME NEW d, NEW dir \in {Local} \cup {Snapshot(k) : k \in Commits}, NEW path \in TopFiles(d, dir)
    PROVE  Revision(path) = dir
BY RevisionOf DEF TopFiles

LEMMA NestedRevision ==
    ASSUME NEW d, NEW k, NEW path \in NestedFiles(d, Snapshot(k))
    PROVE  Revision(path) = Snapshot(k)
BY RevisionOf DEF NestedFiles

-----------------------------------------------------------------------------
(* What is in a directory, and what a download or a removal makes of the disk. *)

LEMMA Contents ==
    ASSUME NEW d, NEW k
    PROVE  /\ Top(d, Snapshot(k)) = IF k \in DOMAIN d.hub THEN d.hub[k].top ELSE {}
           /\ Nested(d, Snapshot(k)) = IF k \in DOMAIN d.hub THEN d.hub[k].nested ELSE {}
           /\ Snapshot(k) \in Dirs(d) <=> k \in DOMAIN d.hub
<1>1. Snapshot(k)[2] = k
  BY DEF Snapshot
<1>2. Snapshot(k) # Local
  BY RevisionOf
<1>3. \A l : Snapshot(l) = Snapshot(k) => l = k
  BY DEF Snapshot
<1>4. Snapshot(k) \in Dirs(d) <=> k \in DOMAIN d.hub
  BY <1>2, <1>3 DEF Dirs
<1> QED
  BY <1>1, <1>2, <1>4 DEF Top, Nested

\* Another cache, of a disk that stays what it is otherwise.
LEMMA HubChanges ==
    ASSUME NEW d, IsDisk(d), NEW hub, DOMAIN hub \in SUBSET Commits,
           \A k \in DOMAIN hub : hub[k] \in Snapshots, NEW ref \in Commits
    PROVE  IsDisk([d EXCEPT !.ref = ref, !.hub = hub])
BY DEF IsDisk

LEMMA DownloadsAreDisks ==
    ASSUME NEW d, IsDisk(d), NEW top \in SUBSET MissingTop(d), NEW nested \in SUBSET MissingNested(d)
    PROVE  IsDisk(Downloaded(d, top, nested))
<1> DEFINE c == d.current
           written == [top |-> Top(d, Snapshot(c)) \cup top, nested |-> Nested(d, Snapshot(c)) \cup nested,
                       age |-> 0]
           keys == DOMAIN d.hub \cup {c}
           hub == [k \in keys |-> IF k = c THEN written ELSE [d.hub[k] EXCEPT !.age = @ + 1]]
<1>1. c \in Commits /\ DOMAIN d.hub \in SUBSET Commits /\ \A k \in DOMAIN d.hub : d.hub[k] \in Snapshots
  BY DEF IsDisk
<1>2. top \in SUBSET Files /\ nested \in SUBSET FilesBelow
  BY DEF IsDisk, Directory, MissingTop, MissingNested
<1>3. written \in Snapshots
  BY <1>1, <1>2, Contents DEF Snapshots
<1>4. \A k \in keys : hub[k] \in Snapshots
  <2> SUFFICES ASSUME NEW k \in DOMAIN d.hub PROVE [d.hub[k] EXCEPT !.age = @ + 1] \in Snapshots
    BY <1>3
  <2> QED
    BY <1>1 DEF Snapshots
<1>5. DOMAIN hub = keys /\ keys \in SUBSET Commits
  BY <1>1
<1>6. Downloaded(d, top, nested) =
        [d EXCEPT !.ref = c, !.hub = IF top \cup nested = {} THEN d.hub ELSE hub]
  BY DEF Downloaded
<1> HIDE DEF c, written, keys, hub
<1>7. \A cache : DOMAIN cache \in SUBSET Commits /\ (\A k \in DOMAIN cache : cache[k] \in Snapshots) =>
               IsDisk([d EXCEPT !.ref = c, !.hub = cache])
  BY <1>1, HubChanges
<1> QED
  BY <1>1, <1>4, <1>5, <1>6, <1>7

LEMMA RemovalIsADisk ==
    ASSUME NEW d, IsDisk(d), NEW k
    PROVE  IsDisk([d EXCEPT !.hub = [l \in DOMAIN @ \ {k} |-> @[l]]])
<1> DEFINE hub == [l \in DOMAIN d.hub \ {k} |-> d.hub[l]]
<1>1. DOMAIN hub \in SUBSET Commits /\ (\A l \in DOMAIN hub : hub[l] \in Snapshots) /\ d.ref \in Commits
  BY DEF IsDisk
<1>2. [d EXCEPT !.hub = [l \in DOMAIN @ \ {k} |-> @[l]]] = [d EXCEPT !.ref = d.ref, !.hub = hub]
  BY DEF IsDisk
<1> HIDE DEF hub
<1> QED
  BY <1>1, <1>2, HubChanges

-----------------------------------------------------------------------------
(* The searches of the tracer, each on a disk as it finds it. *)

LEMMA NothingAlike == LocatedAlike(NotLocated)
BY DEF LocatedAlike, NotLocated, Places

LEMMA TopAlike ==
    ASSUME NEW d, NEW k \in Commits
    PROVE  LocatedAlike([dir |-> Snapshot(k), files |-> TopFiles(d, Snapshot(k))])
BY TopRevision DEF LocatedAlike, Places

\* The walk over the cache stops at the youngest snapshot with files.
LEMMA Discovered ==
    ASSUME NEW d, IsDisk(d)
    PROVE  LET with == {k \in DOMAIN d.hub : d.hub[k].top # {}} IN
           IF with = {} THEN discover_hf_safetensors(d) = NotLocated
           ELSE \E newest \in with :
                    /\ \A k \in with : d.hub[newest].age <= d.hub[k].age
                    /\ discover_hf_safetensors(d)
                         = [dir |-> Snapshot(newest), files |-> TopFiles(d, Snapshot(newest))]
<1> DEFINE with == {k \in DOMAIN d.hub : d.hub[k].top # {}}
           youngest(k) == \A l \in with : d.hub[k].age <= d.hub[l].age
           newest == CHOOSE k \in with : youngest(k)
<1>1. with # {} => \E k \in with : youngest(k)
  <2> SUFFICES ASSUME with # {} PROVE \E k \in with : youngest(k)
    OBVIOUS
  <2> DEFINE ages == {d.hub[k].age : k \in with}
  <2>1. ages \in SUBSET Nat /\ ages # {}
    BY DEF IsDisk, Snapshots
  <2>2. \E age \in ages : \A n \in ages : age <= n
    <3> HIDE DEF ages
    <3> QED
      BY <2>1, LeastExists
  <2> QED
    BY <2>2
<1>2. with # {} => newest \in with /\ youngest(newest)
  <2> HIDE DEF youngest, with
  <2> QED
    BY <1>1
<1>3. discover_hf_safetensors(d) =
        IF with = {} THEN NotLocated
        ELSE [dir |-> Snapshot(newest), files |-> TopFiles(d, Snapshot(newest))]
  BY DEF discover_hf_safetensors
<1> HIDE DEF with, newest
<1>4. IF with = {} THEN discover_hf_safetensors(d) = NotLocated
      ELSE \E k \in with :
               /\ youngest(k)
               /\ discover_hf_safetensors(d) = [dir |-> Snapshot(k), files |-> TopFiles(d, Snapshot(k))]
  BY <1>2, <1>3
<1> QED
  BY <1>4 DEF with

LEMMA SearchesAlike ==
    ASSUME NEW d, IsDisk(d)
    PROVE  /\ LocatedAlike(snapshot_download_local(d))
           /\ \A found \in scan_cache_dir(d) : LocatedAlike(found)
           /\ LocatedAlike(scan_local(d))
           /\ LocatedAlike(discover_hf_safetensors(d))
<1>0. DOMAIN d.hub \in SUBSET Commits
  BY DEF IsDisk
<1>1. LocatedAlike(snapshot_download_local(d))
  BY <1>0, NothingAlike, TopAlike DEF snapshot_download_local
<1>2. ASSUME NEW found \in scan_cache_dir(d) PROVE LocatedAlike(found)
  <2>1. PICK k \in DOMAIN d.hub :
          found = [dir |-> Snapshot(k),
                   files |-> TopFiles(d, Snapshot(k)) \cup NestedFiles(d, Snapshot(k))]
    BY <1>2 DEF scan_cache_dir
  <2>2. k \in Commits /\ found.dir \in Places
    BY <1>0, <2>1 DEF Places
  <2>3. \A path \in found.files : Revision(path) = found.dir
    BY <2>1, <2>2, TopRevision, NestedRevision
  <2> QED
    BY <2>2, <2>3 DEF LocatedAlike
<1>3. LocatedAlike(scan_local(d))
  BY NothingAlike, TopRevision DEF scan_local, LocatedAlike, Places
<1>4. LocatedAlike(discover_hf_safetensors(d))
  <2>1. \/ discover_hf_safetensors(d) = NotLocated
        \/ \E k \in DOMAIN d.hub :
               discover_hf_safetensors(d) = [dir |-> Snapshot(k), files |-> TopFiles(d, Snapshot(k))]
    BY Discovered
  <2> QED
    BY <1>0, <2>1, NothingAlike, TopAlike
<1> QED
  BY <1>1, <1>2, <1>3, <1>4

-----------------------------------------------------------------------------
(* Every step keeps the invariant. *)

Searching == {"load", "trace", "locate_1a", "locate_1b", "locate_2", "locate_3", "locate_4"}
Unread == Searching \cup {"target", "saved", "traced", "named", "built", "reported", "tabled", "rewritten"}

\* Nothing is loaded before the compiler reads the weights.
LEMMA UnreadKeeps ==
    ASSUME LoadedOnce, phase \in Unread, loaded' = loaded, phase' \in Unread \cup {"failed"}
    PROVE  LoadedOnce'
BY DEF LoadedOnce, WeightsRead, Unread, Searching

LEMMA DownloadsKeep == ASSUME NEW d \in Downloads, IsDisk(disk) PROVE IsDisk(d)
BY DownloadsAreDisks DEF Downloads

\* The steps before any weights are read that neither search nor change the cache.
LEMMA UnreadStepsKeep ==
    ASSUME WeightsInv,
           \/ ParseTarget \/ LoadFails \/ TraceSymbolically \/ TraceStructurally \/ TracerFails
           \/ LoadTraceFails \/ ResolveArchitecture \/ BuildSir \/ Validate \/ StaticTables \/ Rewrite
    PROVE  WeightsInv'
<1>1. phase \in Unread /\ phase' \in Unread \cup {"failed"}
  BY DEF ParseTarget, LoadFails, TraceSymbolically, TraceStructurally, TracerFails, LoadTraceFails,
         ResolveArchitecture, BuildSir, Validate, StaticTables, Rewrite, MayFail, Goto, Fail, Unread, Searching
<1>2. UNCHANGED <<disk, located, loaded>>
  BY DEF ParseTarget, LoadFails, TraceSymbolically, TraceStructurally, TracerFails, LoadTraceFails,
         ResolveArchitecture, BuildSir, Validate, StaticTables, Rewrite, MayFail, tracer, compiler
<1>3. LoadedOnce'
  BY <1>1, <1>2, UnreadKeeps DEF WeightsInv
<1> QED
  BY <1>2, <1>3 DEF WeightsInv

LEMMA LoadKeeps == ASSUME WeightsInv, LoadModel PROVE WeightsInv'
<1>1. /\ phase = "load" /\ phase' = "trace" /\ UNCHANGED <<located, loaded>>
      /\ disk' \in {disk} \cup Downloads
  BY DEF LoadModel, Goto, tracer, compiler
<1>2. IsDisk(disk')
  BY <1>1, DownloadsKeep DEF WeightsInv
<1>3. LoadedOnce'
  BY <1>1, UnreadKeeps DEF WeightsInv, Unread, Searching
<1> QED
  BY <1>1, <1>2, <1>3 DEF WeightsInv

LEMMA LocateKeeps ==
    ASSUME LocatedAlike(located), NEW found, LocatedAlike(found), NEW next \in Searching \cup {"traced"},
           Locate(found, next)
    PROVE  LocatedAlike(located') /\ phase' \in Searching \cup {"traced"}
BY DEF Locate, Goto, Searching

LEMMA SearchesKeep ==
    ASSUME WeightsInv,
           SnapshotLocally \/ Download \/ DownloadOffline \/ ScanCache \/ ScanLocal \/ WalkCache
    PROVE  WeightsInv'
<1>0. IsDisk(disk) /\ LocatedAlike(located) /\ LoadedOnce
  BY DEF WeightsInv
<1>1. phase \in Searching /\ loaded' = loaded
  BY DEF SnapshotLocally, Download, DownloadOffline, ScanCache, ScanLocal, WalkCache, Searching, Locate,
         compiler
<1>2. IsDisk(disk')
  BY <1>0, DownloadsKeep DEF Download, SnapshotLocally, DownloadOffline, ScanCache, ScanLocal, WalkCache
<1>3. \E found : \E next \in Searching \cup {"traced"} : LocatedAlike(found) /\ Locate(found, next)
  <2>0. AfterDownload \in Searching
    BY DEF AfterDownload, Searching
  <2>1. CASE SnapshotLocally
    BY <1>0, <2>1, SearchesAlike, NothingAlike DEF SnapshotLocally, Searching
  <2>2. CASE Download
    <3> DEFINE found == IF MissingTop(disk') = {} /\ MissingNested(disk') = {}
                        THEN [dir |-> Snapshot(disk.current),
                              files |-> TopFiles(disk', Snapshot(disk.current))]
                        ELSE NotLocated
    <3>1. disk.current \in Commits
      BY <1>0 DEF IsDisk
    <3>2. LocatedAlike(found)
      BY <3>1, TopAlike, NothingAlike
    <3>3. Locate(found, AfterDownload)
      BY <2>2 DEF Download
    <3> QED
      BY <2>0, <3>2, <3>3
  <2>3. CASE DownloadOffline
    <3>1. PICK found \in {snapshot_download_local(disk), NotLocated} : Locate(found, AfterDownload)
      BY <2>3 DEF DownloadOffline
    <3> QED
      BY <1>0, <2>0, <3>1, SearchesAlike, NothingAlike
  <2>4. CASE ScanCache
    <3>1. PICK found \in {NotLocated} \cup scan_cache_dir(disk) : Locate(found, "locate_3")
      BY <2>4 DEF ScanCache
    <3> QED
      BY <1>0, <3>1, SearchesAlike, NothingAlike DEF Searching
  <2>5. CASE ScanLocal
    BY <1>0, <2>5, SearchesAlike DEF ScanLocal, Searching
  <2>6. CASE WalkCache
    BY <1>0, <2>6, SearchesAlike DEF WalkCache, Searching
  <2> QED
    BY <2>1, <2>2, <2>3, <2>4, <2>5, <2>6
<1>4. LocatedAlike(located') /\ phase' \in Searching \cup {"traced"}
  BY <1>0, <1>3, LocateKeeps
<1>5. LoadedOnce'
  BY <1>0, <1>1, <1>4, UnreadKeeps DEF Unread
<1> QED
  BY <1>2, <1>4, <1>5 DEF WeightsInv, LocatedAlike

LEMMA SavedKeeps == ASSUME WeightsInv, load_pre_traced PROVE WeightsInv'
<1>1. /\ phase = "saved" /\ phase' = "traced" /\ UNCHANGED <<disk, loaded>>
      /\ located' \in SavedFiles
  BY DEF load_pre_traced, Goto, compiler
<1>2. LocatedAlike(located')
  <2>1. ASSUME NEW k \in Commits
        PROVE  LocatedAlike([dir |-> Snapshot(k), files |-> {<<Snapshot(k), f.name>> : f \in disk.repo.top}])
    BY RevisionOf DEF LocatedAlike, Places
  <2> QED
    BY <1>1, <2>1, NothingAlike DEF SavedFiles
<1>3. LoadedOnce'
  BY <1>1, UnreadKeeps DEF WeightsInv, Unread
<1> QED
  BY <1>1, <1>2, <1>3 DEF WeightsInv, LocatedAlike

LEMMA EvictKeeps == ASSUME WeightsInv, Evict PROVE WeightsInv'
<1>1. phase \notin WeightsRead \cup {"failed"} /\ UNCHANGED <<phase, located, loaded>>
  BY DEF Evict, tracer, compiler
<1>2. IsDisk(disk')
  BY RemovalIsADisk DEF Evict, WeightsInv
<1>3. LoadedOnce'
  BY <1>1 DEF WeightsInv, LoadedOnce
<1> QED
  BY <1>1, <1>2, <1>3 DEF WeightsInv

\* The compiler loads once, and the disk is as it was then ever after.
LEMMA CompilerKeeps ==
    ASSUME WeightsInv,
           \/ ResolveWeights \/ Prepare \/ Lower \/ EmitMultiFunction \/ EmitSingleFunction
           \/ ValidatePackage \/ WriteArtifact \/ UNCHANGED vars
    PROVE  WeightsInv'
<1>1. UNCHANGED <<disk, located>>
  BY DEF ResolveWeights, Prepare, Lower, EmitMultiFunction, EmitSingleFunction, Emit, ValidatePackage,
         WriteArtifact, MayFail, vars, tracer
<1>2. LoadedOnce'
  <2> USE <1>1 DEF LoadedOnce, WeightsInv, WeightsRead, Goto, Fail
  <2>1. CASE ResolveWeights
    BY <2>1 DEF ResolveWeights
  <2>2. CASE Prepare
    BY <2>2 DEF Prepare
  <2>3. CASE Lower
    BY <2>3 DEF Lower, MayFail, compiler
  <2>4. CASE EmitMultiFunction \/ EmitSingleFunction
    BY <2>4 DEF EmitMultiFunction, EmitSingleFunction, Emit, compiler
  <2>5. CASE ValidatePackage
    BY <2>5 DEF ValidatePackage, MayFail, compiler
  <2>6. CASE WriteArtifact
    BY <2>6 DEF WriteArtifact
  <2>7. CASE UNCHANGED vars
    BY <2>7 DEF vars
  <2> QED
    BY <2>1, <2>2, <2>3, <2>4, <2>5, <2>6, <2>7
<1> QED
  BY <1>1, <1>2 DEF WeightsInv

LEMMA WeightsStep == ASSUME WeightsInv, [Next]_vars PROVE WeightsInv'
BY UnreadStepsKeep, LoadKeeps, SearchesKeep, SavedKeeps, EvictKeeps, CompilerKeeps DEF Next

LEMMA WeightsInit == ASSUME Init PROVE WeightsInv
BY DisksAssumption, NothingAlike DEF Init, WeightsInv, LoadedOnce, WeightsRead

LEMMA WeightsAlways == Spec => []WeightsInv
<1>1. Init => WeightsInv
  BY WeightsInit
<1>2. WeightsInv /\ [Next]_vars => WeightsInv'
  BY WeightsStep
<1> QED
  BY <1>1, <1>2, PTL DEF Spec

-----------------------------------------------------------------------------
(* What follows. *)

\* What each strategy of the compiler loads lies in one directory.
LEMMA LoadedAlike ==
    ASSUME NEW d, IsDisk(d), NEW found, LocatedAlike(found),
           found.dir = Local => \E f \in d.local.top : f.readable
    PROVE  \A p, q \in from_traced_graph(d, found) : Revision(p) = Revision(q)
<1> DEFINE Alike(files) == \E dir : \A path \in files : Revision(path) = dir
<1>0. DOMAIN d.hub \in SUBSET Commits
  BY DEF IsDisk
<1>1. \A paths : Loaded(d, paths) \subseteq paths
  BY DEF Loaded
<1>2. Alike(Loaded(d, found.files))
  BY <1>1 DEF LocatedAlike
<1>3. ASSUME found.dir \in Dirs(d) PROVE found.dir \in {Local} \cup {Snapshot(k) : k \in Commits}
  BY <1>0, <1>3 DEF Dirs
<1>4. Alike(from_cache_dir(d, found.dir))
  <2>1. CASE found.dir \in Dirs(d)
    BY <1>1, <1>3, <2>1, TopRevision DEF from_cache_dir
  <2>2. CASE found.dir \notin Dirs(d)
    BY <1>1, <2>2 DEF from_cache_dir, TopFiles, Top
  <2> QED
    BY <2>1, <2>2
<1>5. Alike(from_cache_dir_recursive(d, found.dir)) \/ from_cache_dir(d, found.dir) # {}
  <2>1. CASE found.dir \notin Dirs(d)
    BY <1>1, <2>1 DEF from_cache_dir_recursive, TopFiles, NestedFiles, Top, Nested
  <2>2. CASE found.dir \in Dirs(d) /\ found.dir = Local
    <3>1. PICK f \in d.local.top : f.readable
      BY <2>2
    <3>2. f \in Top(d, Local)
      BY <2>2, <3>1 DEF Top
    <3>3. <<Local, f.name>> \in TopFiles(d, Local)
      BY <3>2 DEF TopFiles
    <3>4. <<Local, f.name>> \in Loaded(d, TopFiles(d, Local))
      BY <2>2, <3>1, <3>2, <3>3 DEF Loaded
    <3> QED
      BY <2>2, <3>4 DEF from_cache_dir
  <2>3. CASE found.dir \in Dirs(d) /\ found.dir # Local
    <3>1. PICK k \in Commits : found.dir = Snapshot(k)
      BY <1>3, <2>3
    <3>2. \A path \in TopFiles(d, Snapshot(k)) \cup NestedFiles(d, Snapshot(k)) :
             Revision(path) = Snapshot(k)
      BY TopRevision, NestedRevision
    <3> QED
      BY <1>1, <2>3, <3>1, <3>2 DEF from_cache_dir_recursive
  <2> QED
    BY <2>1, <2>2, <2>3
<1>6. Alike(from_hf_model_id(d))
  BY <1>1, SearchesAlike DEF from_hf_model_id, LocatedAlike
<1>7. Alike(from_traced_graph(d, found))
  <2> HIDE DEF Alike
  <2> QED
    BY <1>2, <1>4, <1>5, <1>6 DEF from_traced_graph
<1> QED
  BY <1>7

(* The weights of a compile are of one revision, however many snapshots the
   cache has, whichever searches of the tracer (trace_model.py) and the compiler
   (safetensors_resolver.rs) fail, and whatever is downloaded, cut short or
   removed in between.                                                        *)
THEOREM WeightsAreOfOneRevision == Spec => []OneRevision
<1>1. WeightsInv => OneRevision
  <2> SUFFICES ASSUME WeightsInv, loaded # {},
                      located.dir = Local => \E f \in disk.local.top : f.readable
               PROVE  \A p, q \in loaded : Revision(p) = Revision(q)
    BY DEF OneRevision
  <2>1. IsDisk(disk) /\ LocatedAlike(located) /\ loaded = from_traced_graph(disk, located)
    BY DEF WeightsInv, LoadedOnce
  <2> QED
    BY <2>1, LoadedAlike
<1> QED
  BY <1>1, WeightsAlways, PTL

(* A compile that goes on without weights, to fill them with zeros, had none
   to find: a snapshot with a readable file is hidden only by a younger one that
   has none but unreadable files.                                             *)
THEOREM NothingFoundIsNothingThere == Spec => []NotFoundIsNotThere
<1>1. WeightsInv => NotFoundIsNotThere
  <2> SUFFICES ASSUME WeightsInv, phase \in WeightsRead, loaded = {},
                      NEW k \in DOMAIN disk.hub, NEW f \in disk.hub[k].top, f.readable
               PROVE  \E l \in DOMAIN disk.hub \ {k} :
                          disk.hub[l].top # {} /\ disk.hub[l].age <= disk.hub[k].age
    BY DEF NotFoundIsNotThere
  <2>1. IsDisk(disk) /\ from_traced_graph(disk, located) = {}
    BY DEF WeightsInv, LoadedOnce
  <2>2. from_hf_model_id(disk) = {}
    BY <2>1 DEF from_traced_graph
  <2>3. PICK newest \in {n \in DOMAIN disk.hub : disk.hub[n].top # {}} :
          /\ disk.hub[newest].age <= disk.hub[k].age
          /\ discover_hf_safetensors(disk)
                = [dir |-> Snapshot(newest), files |-> TopFiles(disk, Snapshot(newest))]
    BY <2>1, Discovered
  <2>4. newest # k
    <3> SUFFICES ASSUME newest = k PROVE FALSE
      OBVIOUS
    <3>1. f \in Top(disk, Snapshot(k)) /\ Snapshot(k) \in Dirs(disk)
      BY Contents
    <3>2. <<Snapshot(k), f.name>> \in TopFiles(disk, Snapshot(k))
      BY <3>1 DEF TopFiles
    <3>3. <<Snapshot(k), f.name>> \in Loaded(disk, TopFiles(disk, Snapshot(k)))
      BY <3>1, <3>2 DEF Loaded
    <3> QED
      BY <2>2, <2>3, <3>3 DEF from_hf_model_id
  <2> QED
    BY <2>3, <2>4
<1> QED
  BY <1>1, WeightsAlways, PTL

-----------------------------------------------------------------------------
(* What the builder writes. Its operations are of few kinds, and of the two
   that need a converter of their own only on families that have it.         *)

Everywhere ==
    {"LinearProjection", "RMSNorm", "Reshape", "Transpose", "RoPETransform", "Const", "SliceByIndex",
     "MatMul", "Mul", "Add", "Sub", "Softmax", "ExpandDims", "Concat", "Silu", "Gelu", "Relu",
     "Gather", "Cast", "Identity", "Split", "RealDiv", "Rsqrt", "Tanh", "Sigmoid", "Exp", "Cos",
     "Sin", "Squeeze"}

Buildable(family) ==
    Everywhere \cup (IF supports_layernorm(family) THEN {"LayerNorm"} ELSE {})
               \cup (IF supports_sdpa(family) THEN {"ScaledDotProductAttention"} ELSE {})

(* An operation of these kinds, that reads the only tables there are, and, if
   it lays out the heads of the queries or the keys, lays out so many rows of
   such a dimension.                                                          *)
Laying == {"q_reshape_4d", "k_reshape_4d"}
Shared == "rope_tables_shared"
Tables == {"sin_tab", "cos_tab", "arange_tab", "arange_fp16_tab", "eye_tab", "mask_tab"}

OfKind(x, fit) ==
    /\ x.op = Op(x.op.kind, x.op.refs, x.op.weight, x.op.attr)
    /\ x.op.kind \in fit.kinds
    /\ x.op.kind = "RoPETransform" => x.op.attr = <<Shared>>
    /\ x.op.kind = "Const" => x.op.attr[1] \in {"scale", "one"} \/ x.op.attr \in Tables \X {Shared}
    /\ x.name[1] \in Laying => x.op.attr[2] = fit.rows /\ x.op.attr[4] = fit.dim

\* A sequence of operations, all of some kinds.
Kinded(ops, fit) == \E S : ops \in Seq(S) /\ \A x \in S : OfKind(x, fit)

LEMMA NamesBegin == \A base : Name(base)[1] = base /\ \A n : Numbered(base, n)[1] = base
BY DEF Name, Numbered

LEMMA NamedKind ==
    ASSUME NEW fit, NEW kind \in fit.kinds \ {"RoPETransform", "Const"}
    PROVE  \A refs, weight, attr, name :
               name[1] \notin Laying => OfKind(Named(Op(kind, refs, weight, attr), name), fit)
BY DEF OfKind, Named, Op

LEMMA ConstKind ==
    ASSUME NEW fit, "Const" \in fit.kinds
    PROVE  \A weight, attr, name :
               name[1] \notin Laying /\ (attr[1] \in {"scale", "one"} \/ attr \in Tables \X {Shared}) =>
                   OfKind(Named(Op("Const", <<>>, weight, attr), name), fit)
BY DEF OfKind, Named, Op

LEMMA RotationKind ==
    ASSUME NEW fit, "RoPETransform" \in fit.kinds
    PROVE  \A refs, weight, name :
               name[1] \notin Laying =>
                   OfKind(Named(Op("RoPETransform", refs, weight, <<Shared>>), name), fit)
BY DEF OfKind, Named, Op

LEMMA LayingKind ==
    ASSUME NEW fit, "Reshape" \in fit.kinds
    PROVE  \A refs, weight, batch, heads, name :
               OfKind(Named(Op("Reshape", refs, weight, <<batch, fit.rows, heads, fit.dim>>), name), fit)
BY DEF OfKind, Named, Op

LEMMA KindedBy ==
    ASSUME NEW fit, NEW S, NEW ops \in Seq(S), \A x \in S : OfKind(x, fit)
    PROVE  Kinded(ops, fit)
BY Zenon DEF Kinded

LEMMA KindedNone == ASSUME NEW fit PROVE Kinded(<<>>, fit)
<1> DEFINE S == {}
<1>1. <<>> \in Seq(S) /\ \A x \in S : OfKind(x, fit)
  OBVIOUS
<1> HIDE DEF S
<1> QED
  BY <1>1, KindedBy

LEMMA KindedOne == ASSUME NEW fit, NEW a, OfKind(a, fit) PROVE Kinded(<<a>>, fit)
<1> DEFINE S == {a}
<1>1. <<a>> \in Seq(S) /\ \A x \in S : OfKind(x, fit)
  OBVIOUS
<1> HIDE DEF S
<1> QED
  BY <1>1, KindedBy

LEMMA KindedConcat ==
    ASSUME NEW fit, NEW s, NEW t, Kinded(s, fit), Kinded(t, fit)
    PROVE  Kinded(s \o t, fit)
<1>1. PICK S : s \in Seq(S) /\ \A x \in S : OfKind(x, fit)
  BY DEF Kinded
<1>2. PICK T : t \in Seq(T) /\ \A x \in T : OfKind(x, fit)
  BY DEF Kinded
<1>3. s \in Seq(S \cup T) /\ t \in Seq(S \cup T)
  BY <1>1, <1>2
<1>4. s \o t \in Seq(S \cup T)
  BY <1>3
<1>5. \A x \in S \cup T : OfKind(x, fit)
  BY <1>1, <1>2
<1> QED
  BY <1>4, <1>5, KindedBy

LEMMA KindedTwo ==
    ASSUME NEW fit, NEW a, NEW b, OfKind(a, fit), OfKind(b, fit)
    PROVE  Kinded(<<a, b>>, fit)
<1> DEFINE S == {a, b}
<1>1. <<a, b>> \in Seq(S) /\ \A x \in S : OfKind(x, fit)
  OBVIOUS
<1> HIDE DEF S
<1> QED
  BY <1>1, KindedBy

LEMMA KindedThree ==
    ASSUME NEW fit, NEW a, NEW b, NEW c, OfKind(a, fit), OfKind(b, fit), OfKind(c, fit)
    PROVE  Kinded(<<a, b, c>>, fit)
<1> DEFINE S == {a, b, c}
<1>1. <<a, b, c>> \in Seq(S) /\ \A x \in S : OfKind(x, fit)
  OBVIOUS
<1> HIDE DEF S
<1> QED
  BY <1>1, KindedBy

LEMMA KindedFive ==
    ASSUME NEW fit, NEW a, NEW b, NEW c, NEW d, NEW e, OfKind(a, fit), OfKind(b, fit),
           OfKind(c, fit), OfKind(d, fit), OfKind(e, fit)
    PROVE  Kinded(<<a, b, c, d, e>>, fit)
<1> DEFINE S == {a, b, c, d, e}
<1>1. <<a, b, c, d, e>> \in Seq(S) /\ \A x \in S : OfKind(x, fit)
  OBVIOUS
<1> HIDE DEF S
<1> QED
  BY <1>1, KindedBy

LEMMA KindedSix ==
    ASSUME NEW fit, NEW a, NEW b, NEW c, NEW d, NEW e, NEW f, OfKind(a, fit), OfKind(b, fit),
           OfKind(c, fit), OfKind(d, fit), OfKind(e, fit), OfKind(f, fit)
    PROVE  Kinded(<<a, b, c, d, e, f>>, fit)
<1> DEFINE S == {a, b, c, d, e, f}
<1>1. <<a, b, c, d, e, f>> \in Seq(S) /\ \A x \in S : OfKind(x, fit)
  OBVIOUS
<1> HIDE DEF S
<1> QED
  BY <1>1, KindedBy

(* Induction over the numbers up to one, from the least one left out. *)
LEMMA UpTo ==
    ASSUME NEW n \in Nat, NEW S, 0 \in S, \A i \in 1..n : i - 1 \in S => i \in S
    PROVE  \A i \in 0..n : i \in S
<1> DEFINE T == (0..n) \ S
<1> SUFFICES ASSUME T # {} PROVE FALSE
  OBVIOUS
<1>1. PICK x \in T : \A y \in T : x <= y
  <2> HIDE DEF T
  <2>1. T \in SUBSET Nat
    BY DEF T
  <2> QED
    BY <2>1, LeastExists
<1>2. x \in 1..n /\ x - 1 \in T
  OBVIOUS
<1> QED
  BY <1>1, <1>2

LEMMA RangeOfBoth == ASSUME NEW S, NEW s \in Seq(S), NEW t \in Seq(S) PROVE Range(s \o t) = Range(s) \cup Range(t)
<1>1. /\ Len(s \o t) = Len(s) + Len(t) /\ DOMAIN (s \o t) = 1..Len(s) + Len(t)
      /\ \A i \in 1..Len(s) + Len(t) : (s \o t)[i] = IF i <= Len(s) THEN s[i] ELSE t[i - Len(s)]
  OBVIOUS
<1>2. DOMAIN s = 1..Len(s) /\ DOMAIN t = 1..Len(t) /\ Len(s) \in Nat /\ Len(t) \in Nat
  OBVIOUS
<1> DEFINE both == s \o t
<1> HIDE DEF both
<1>3. ASSUME NEW x \in Range(both) PROVE x \in Range(s) \cup Range(t)
  <2>1. PICK i \in 1..Len(s) + Len(t) : x = both[i]
    BY <1>1, <1>3 DEF Range, both
  <2>2. CASE i <= Len(s)
    BY <1>1, <1>2, <2>1, <2>2 DEF Range, both
  <2>3. CASE ~ i <= Len(s)
    <3>1. x = t[i - Len(s)] /\ i - Len(s) \in DOMAIN t
      BY <1>1, <1>2, <2>1, <2>3 DEF both
    <3> QED
      BY <3>1 DEF Range
  <2> QED
    BY <2>2, <2>3
<1>4. ASSUME NEW x \in Range(s) PROVE x \in Range(both)
  <2>1. PICK i \in 1..Len(s) : x = s[i]
    BY <1>2, <1>4 DEF Range
  <2>2. i \in DOMAIN both /\ both[i] = s[i]
    BY <1>1, <1>2, <2>1 DEF both
  <2> QED
    BY <2>1, <2>2 DEF Range
<1>5. ASSUME NEW x \in Range(t) PROVE x \in Range(both)
  <2>1. PICK i \in 1..Len(t) : x = t[i]
    BY <1>2, <1>5 DEF Range
  <2>2. Len(s) + i \in DOMAIN both /\ both[Len(s) + i] = t[i]
    BY <1>1, <1>2, <2>1 DEF both
  <2> QED
    BY <2>1, <2>2 DEF Range
<1> QED
  BY <1>3, <1>4, <1>5 DEF both

\* Sequences one after the other.
LEMMA FlatSteps ==
    ASSUME NEW S, NEW seqs \in Seq(Seq(S))
    PROVE  \E flat :
               /\ \A i \in 1..Len(seqs) : flat[i] = IF i = 1 THEN seqs[i] ELSE flat[i - 1] \o seqs[i]
               /\ FlattenSeq(seqs) = IF Len(seqs) = 0 THEN seqs ELSE flat[Len(seqs)]
<1> DEFINE n == Len(seqs)
           IsFlat(f, m) == f = [i \in 1..m |-> IF i = 1 THEN seqs[i] ELSE f[i - 1] \o seqs[i]]
           Flat == CHOOSE f : IsFlat(f, n)
<1>1. n \in Nat /\ \A i \in 1..n : seqs[i] \in Seq(S)
  OBVIOUS
<1>2. \E f : IsFlat(f, n)
  <2> DEFINE Numbers == {m \in 0..n : \E f : IsFlat(f, m)}
  <2>1. 0 \in Numbers
    <3> DEFINE g == [i \in 1..0 |-> IF i = 1 THEN seqs[i] ELSE <<>>]
    <3>1. IsFlat(g, 0)
      OBVIOUS
    <3> HIDE DEF IsFlat, g
    <3>2. 0 \in 0..n /\ \E f : IsFlat(f, 0)
      BY <1>1, <3>1
    <3> QED
      BY <3>2
  <2>2. ASSUME NEW m \in 1..n, m - 1 \in Numbers PROVE m \in Numbers
    <3>1. PICK f : IsFlat(f, m - 1)
      BY <2>2
    <3> DEFINE g == [i \in 1..m |-> IF i = m THEN (IF m = 1 THEN seqs[1] ELSE f[m - 1] \o seqs[m]) ELSE f[i]]
    <3>2. \A i \in 1..m : g[i] = IF i = 1 THEN seqs[i] ELSE g[i - 1] \o seqs[i]
      <4> SUFFICES ASSUME NEW i \in 1..m
                   PROVE  g[i] = IF i = 1 THEN seqs[i] ELSE g[i - 1] \o seqs[i]
        OBVIOUS
      <4>1. CASE i = m
        BY <4>1
      <4>2. CASE i # m
        <5>1. i \in 1..m - 1 /\ g[i] = f[i] /\ (i # 1 => g[i - 1] = f[i - 1])
          BY <4>2
        <5>2. f[i] = IF i = 1 THEN seqs[i] ELSE f[i - 1] \o seqs[i]
          BY <3>1, <5>1
        <5> QED
          BY <5>1, <5>2
      <4> QED
        BY <4>1, <4>2
    <3>3. g = [i \in 1..m |-> g[i]]
      OBVIOUS
    <3> HIDE DEF g
    <3>4. IsFlat(g, m)
      BY <3>2, <3>3
    <3> HIDE DEF IsFlat
    <3>5. m \in 0..n /\ \E h : IsFlat(h, m)
      BY <1>1, <3>4
    <3> QED
      BY <3>5
  <2>3. \A m \in 0..n : m \in Numbers
    <3> HIDE DEF Numbers
    <3> QED
      BY <1>1, <2>1, <2>2, UpTo
  <2>4. n \in Numbers
    <3> HIDE DEF Numbers, n
    <3> QED
      BY <1>1, <2>3
  <2> HIDE DEF IsFlat
  <2> QED
    BY <2>4
<1>3. IsFlat(Flat, n)
  <2> HIDE DEF IsFlat
  <2> QED
    BY <1>2
<1>4. FlattenSeq(seqs) = IF n = 0 THEN seqs ELSE Flat[n]
  BY Zenon DEF FlattenSeq
<1> HIDE DEF Flat
<1>5. \A i \in 1..n : Flat[i] = IF i = 1 THEN seqs[i] ELSE Flat[i - 1] \o seqs[i]
  BY <1>3
<1> QED
  BY <1>4, <1>5

LEMMA Flattened ==
    ASSUME NEW S, NEW seqs \in Seq(Seq(S))
    PROVE  /\ FlattenSeq(seqs) \in Seq(S)
           /\ Range(FlattenSeq(seqs)) = UNION {Range(seqs[i]) : i \in 1..Len(seqs)}
<1> DEFINE n == Len(seqs)
<1>1. n \in Nat /\ \A i \in 1..n : seqs[i] \in Seq(S)
  OBVIOUS
<1>2. PICK flat : /\ \A i \in 1..n : flat[i] = IF i = 1 THEN seqs[i] ELSE flat[i - 1] \o seqs[i]
                  /\ FlattenSeq(seqs) = IF n = 0 THEN seqs ELSE flat[n]
  BY FlatSteps
<1> DEFINE parts(m) == UNION {Range(seqs[i]) : i \in 1..m}
           Good(i) == flat[i] \in Seq(S) /\ Range(flat[i]) = parts(i)
<1>3. \A i \in 1..n : Good(i)
  <2> DEFINE Numbers == {i \in 0..n : i = 0 \/ Good(i)}
  <2>1. 0 \in Numbers
    BY <1>1
  <2>2. ASSUME NEW i \in 1..n, i - 1 \in Numbers PROVE i \in Numbers
    <3>1. flat[i] = IF i = 1 THEN seqs[i] ELSE flat[i - 1] \o seqs[i]
      BY <1>2
    <3>2. seqs[i] \in Seq(S) /\ (i # 1 => Good(i - 1)) /\ i \in 0..n
      BY <1>1, <2>2
    <3>3. parts(i) = IF i = 1 THEN Range(seqs[i]) ELSE parts(i - 1) \cup Range(seqs[i])
      <4>1. 1..i = (1..i - 1) \cup {i} /\ (i = 1 => 1..i - 1 = {})
        OBVIOUS
      <4> QED
        BY <4>1
    <3> HIDE DEF parts
    <3>4. i # 1 => /\ flat[i - 1] \o seqs[i] \in Seq(S)
                   /\ Range(flat[i - 1] \o seqs[i]) = Range(flat[i - 1]) \cup Range(seqs[i])
      BY <3>2, RangeOfBoth
    <3>5. Good(i)
      BY <3>1, <3>2, <3>3, <3>4
    <3> QED
      BY <3>2, <3>5
  <2>3. \A i \in 0..n : i \in Numbers
    <3> HIDE DEF Numbers
    <3> QED
      BY <1>1, <2>1, <2>2, UpTo
  <2> HIDE DEF Good
  <2> SUFFICES ASSUME NEW i \in 1..n PROVE Good(i)
    OBVIOUS
  <2>4. i \in Numbers /\ i # 0
    BY <1>1, <2>3
  <2> QED
    BY <2>4
<1>4. n = 0 => seqs \in Seq(S) /\ Range(seqs) = {} /\ parts(n) = {}
  BY DEF Range
<1> HIDE DEF parts
<1> HIDE DEF n
<1>5. FlattenSeq(seqs) \in Seq(S) /\ Range(FlattenSeq(seqs)) = parts(n)
  <2>1. CASE n = 0
    BY <1>2, <1>4, <2>1
  <2>2. CASE n # 0
    <3>1. n \in 1..n
      BY <1>1, <2>2
    <3> QED
      BY <1>2, <1>3, <2>2, <3>1
  <2> QED
    BY <2>1, <2>2
<1> QED
  BY <1>5 DEF parts, n

LEMMA KindedFlattened ==
    ASSUME NEW fit, NEW n \in Nat, NEW seqs, DOMAIN seqs = 1..n, seqs = [i \in 1..n |-> seqs[i]],
           \A i \in 1..n : Kinded(seqs[i], fit)
    PROVE  Kinded(FlattenSeq(seqs), fit)
<1> DEFINE Parts == UNION {{seqs[i][k] : k \in DOMAIN seqs[i]} : i \in 1..n}
           S == {x \in Parts : OfKind(x, fit)}
<1>1. ASSUME NEW i \in 1..n PROVE seqs[i] \in Seq(S)
  <2>1. PICK T : seqs[i] \in Seq(T) /\ \A x \in T : OfKind(x, fit)
    BY DEF Kinded
  <2>2. \A k \in DOMAIN seqs[i] : seqs[i][k] \in S
    BY <2>1
  <2>3. DOMAIN seqs[i] = 1..Len(seqs[i]) /\ Len(seqs[i]) \in Nat
        /\ seqs[i] = [k \in 1..Len(seqs[i]) |-> seqs[i][k]]
    BY <2>1
  <2> HIDE DEF S
  <2> QED
    BY <2>2, <2>3
<1>2. seqs \in Seq(Seq(S))
  <2> HIDE DEF S
  <2> QED
    BY <1>1
<1>3. \A x \in S : OfKind(x, fit)
  OBVIOUS
<1> HIDE DEF S
<1> QED
  BY <1>2, <1>3, Flattened, KindedBy

(* The operations a traced operation becomes, whatever it reads. *)

\* What is enough of an operation for every family.
Usual(fit) == Everywhere \subseteq fit.kinds

LEMMA ResidualKinds ==
    ASSUME NEW fit, Usual(fit), NEW node, NEW node_map, NEW from, NEW name, name \notin Laying
    PROVE  Kinded(Residual(node, node_map, from, name), fit)
<1>1. "Add" \in fit.kinds
  BY DEF Usual, Everywhere
<1>2. Name(name)[1] \notin Laying
  BY NamesBegin
<1> QED
  BY <1>1, <1>2, NamedKind, KindedOne, KindedNone DEF Residual

LEMMA LaidKinds ==
    ASSUME NEW fit, Usual(fit), NEW node, NEW config, NEW batch, NEW heads
    PROVE  Kinded(Laid(node, config, batch, fit.rows, heads, fit.dim), fit)
<1> DEFINE after(norm, proj) == A(node, Name(IF node.op.has_qk_norm THEN norm ELSE proj))
           reshape(x, n, name) == Named(Op("Reshape", <<x>>, NoWeight, <<batch, fit.rows, n, fit.dim>>),
                                        Name(name))
           transpose(of, name) == Named(Op("Transpose", <<A(node, Name(of))>>, NoWeight, <<0, 2, 1, 3>>),
                                        Name(name))
<1>1. \A x, n, name : OfKind(reshape(x, n, name), fit)
  BY LayingKind DEF Usual, Everywhere
<1>2. \A of, name : name \notin Laying => OfKind(transpose(of, name), fit)
  BY NamesBegin, NamedKind DEF Usual, Everywhere
<1>3. Laid(node, config, batch, fit.rows, heads, fit.dim) =
         << reshape(after("q_norm", "q_proj"), heads, "q_reshape_4d"),
            reshape(after("k_norm", "k_proj"), config.kv, "k_reshape_4d"),
            reshape(A(node, Name("v_proj")), config.kv, "v_reshape_4d"),
            transpose("q_reshape_4d", "q_transpose"),
            transpose("k_reshape_4d", "k_transpose"),
            transpose("v_reshape_4d", "v_transpose") >>
  BY Zenon DEF Laid
<1>4. {"q_transpose", "k_transpose", "v_transpose"} \cap Laying = {}
  BY DEF Laying
<1> HIDE DEF after, reshape, transpose
<1> QED
  BY <1>1, <1>2, <1>3, <1>4, KindedSix

LEMMA HeadKinds ==
    ASSUME NEW fit, Usual(fit), NEW h, NEW node, NEW config, NEW heads
    PROVE  Kinded(HeadOps(h, node, config, heads), fit)
<1>0. {"Transpose", "SliceByIndex", "MatMul", "Mul", "Add", "Softmax", "ExpandDims"}
          \subseteq fit.kinds \ {"RoPETransform", "Const"}
  BY DEF Usual, Everywhere
<1> DEFINE k == kv_idx(h, heads, config.kv)
           first == \A g \in 0..h - 1 : kv_idx(g, heads, config.kv) # k
           q4 == A(node, Name(IF config.uses_rope THEN "q_rope" ELSE "q_transpose"))
           k4 == A(node, Name(IF config.uses_rope THEN "k_rope" ELSE "k_transpose"))
           of(base) == A(node, Numbered(base, h))
           op(kind, refs, attr, base) == Named(Op(kind, refs, NoWeight, attr), Numbered(base, h))
           transposed == <<"k_head", <<k>>, "transpose">>
           Query == <<Slice(q4, h, Numbered("q_head", h))>>
           Key == << Slice(k4, k, Numbered("k_head", k)),
                     Slice(A(node, Name("v_transpose")), k, Numbered("v_head", k)),
                     Named(Op("Transpose", <<A(node, Numbered("k_head", k))>>, NoWeight, <<0, 2, 1>>),
                           transposed) >>
           Rest == << op("MatMul", <<of("q_head"), A(node, transposed)>>, <<>>, "logits"),
                      op("Mul", <<of("logits"), A(node, Name("attn_scale_const"))>>, <<>>, "scaled_logits"),
                      op("Add", <<of("scaled_logits"), A(node, Name("causal_mask_4d"))>>, <<>>,
                         "masked_logits"),
                      op("Softmax", <<of("masked_logits")>>, <<-1>>, "weights"),
                      op("MatMul", <<of("weights"), A(node, Numbered("v_head", k))>>, <<>>, "ctx"),
                      op("ExpandDims", <<of("ctx")>>, <<1>>, "ctx_exp") >>
<1>1. {"q_head", "k_head", "v_head", "logits", "scaled_logits", "masked_logits", "weights", "ctx",
       "ctx_exp"} \cap Laying = {}
  BY DEF Laying
<1>2. \A x, i, name : name[1] \notin Laying => OfKind(Slice(x, i, name), fit)
  BY <1>0, NamedKind DEF Slice
<1>3. Kinded(Query, fit)
  <2>1. Numbered("q_head", h)[1] \notin Laying
    BY <1>1, NamesBegin
  <2> QED
    BY <1>2, <2>1, KindedOne
<1>4. Kinded(Key, fit)
  <2>1. /\ Numbered("k_head", k)[1] \notin Laying /\ Numbered("v_head", k)[1] \notin Laying
        /\ transposed[1] \notin Laying
    BY <1>1, NamesBegin
  <2> HIDE DEF k, k4, transposed
  <2> QED
    BY <1>0, <1>2, <2>1, NamedKind, KindedThree
<1>5. Kinded(Rest, fit)
  <2>1. \A kind, refs, attr, base :
           kind \in fit.kinds \ {"RoPETransform", "Const"} /\ base \notin Laying
              => OfKind(op(kind, refs, attr, base), fit)
    BY NamesBegin, NamedKind
  <2> HIDE DEF op, of, k, transposed
  <2> QED
    BY <1>0, <1>1, <2>1, KindedSix
<1>6. HeadOps(h, node, config, heads) = Query \o (IF first THEN Key ELSE <<>>) \o Rest
  BY Zenon DEF HeadOps
<1> HIDE DEF first, Query, Key, Rest
<1> QED
  BY <1>3, <1>4, <1>5, <1>6, KindedNone, KindedConcat

LEMMA AttentionKinds ==
    ASSUME NEW fit, Usual(fit), NEW node, NEW config, NEW node_map, NEW batch,
           node.op.heads \in Nat, node.op.head_dim = fit.dim
    PROVE  Kinded(decompose_attention(node, config, node_map, batch, fit.rows), fit)
<1> DEFINE heads == node.op.heads
           dim == node.op.head_dim
           seq == fit.rows
           x == resolve_input(node, 1, node_map)
           Heads == [h \in 1..heads |-> HeadOps(h - 1, node, config, heads)]
           Mask == << Named(Op("Const", <<>>, NoWeight, <<"scale", dim>>), Name("attn_scale_const")),
                      Named(Op("Const", <<>>, NoWeight, <<"mask_tab", "rope_tables_shared">>),
                            Name("causal_mask")),
                      Named(Op("Reshape", <<A(node, Name("causal_mask"))>>, NoWeight, <<1, 1, seq, seq>>),
                            Name("causal_mask_4d")) >>
           Out == << Named(Op("Concat", [h \in 1..heads |-> A(node, Numbered("ctx_exp", h - 1))], NoWeight,
                              <<1>>), Name("ctx_concat")),
                     Named(Op("Reshape", <<A(node, Name("ctx_concat"))>>, NoWeight,
                              <<batch, seq, heads * dim>>), Name("attn_reshape_3d")),
                     Named(Op("LinearProjection", <<A(node, Name("attn_reshape_3d"))>>,
                              hf_param_name(node, "o_proj"), <<>>), Numbered("out_proj", 0)) >>
<1>0. /\ {"LinearProjection", "RMSNorm", "Reshape", "Concat"} \subseteq fit.kinds \ {"RoPETransform", "Const"}
      /\ {"RoPETransform", "Const"} \subseteq fit.kinds
  BY DEF Usual, Everywhere
<1>1. /\ {"q_proj", "k_proj", "v_proj", "q_norm", "k_norm", "q_rope", "k_rope", "attn_scale_const", "causal_mask",
          "causal_mask_4d", "ctx_concat", "attn_reshape_3d", "out_proj", "attn_residual_add"}
             \cap Laying = {}
  BY DEF Laying
<1>2. /\ \A kind, refs, weight, attr, base :
             kind \in fit.kinds \ {"RoPETransform", "Const"} /\ base \notin Laying
                => OfKind(Named(Op(kind, refs, weight, attr), Name(base)), fit)
      /\ \A kind, refs, weight, attr, base, n :
             kind \in fit.kinds \ {"RoPETransform", "Const"} /\ base \notin Laying
                => OfKind(Named(Op(kind, refs, weight, attr), Numbered(base, n)), fit)
  BY NamesBegin, NamedKind
<1>3. Kinded(Projected(node, x, config, heads, dim), fit)
  BY <1>0, <1>1, <1>2, KindedThree DEF Projected
<1>4. Kinded(QkNormed(node, config), fit)
  BY <1>0, <1>1, <1>2, KindedTwo, KindedNone DEF QkNormed
<1>5. Kinded(Laid(node, config, batch, seq, heads, dim), fit)
  BY LaidKinds
<1>6. Kinded(Rotated(node, config), fit)
  <2>1. \A refs, base : base \notin Laying =>
           OfKind(Named(Op("RoPETransform", refs, NoWeight, <<"rope_tables_shared">>), Name(base)), fit)
    BY <1>0, NamesBegin, RotationKind DEF Shared
  <2> QED
    BY <1>1, <2>1, KindedTwo, KindedNone DEF Rotated
<1>7. Kinded(Mask, fit)
  <2>1. \A attr, base :
           base \notin Laying /\ (attr[1] \in {"scale", "one"} \/ attr = <<"mask_tab", "rope_tables_shared">>) =>
               OfKind(Named(Op("Const", <<>>, NoWeight, attr), Name(base)), fit)
    BY <1>0, NamesBegin, ConstKind DEF Shared, Tables
  <2>2. <<"scale", dim>>[1] = "scale"
    OBVIOUS
  <2> HIDE DEF dim, seq
  <2> QED
    BY <1>0, <1>1, <1>2, <2>1, <2>2, KindedThree
<1>8. Kinded(FlattenSeq(Heads), fit)
  BY HeadKinds, KindedFlattened
<1>9. Kinded(Out, fit)
  <2> HIDE DEF heads, dim, seq
  <2> QED
    BY <1>0, <1>1, <1>2, KindedThree
<1>10. Kinded(Residual(node, node_map, "out_proj", "attn_residual_add"), fit)
  BY <1>1, ResidualKinds
<1>11. decompose_attention(node, config, node_map, batch, seq) =
         Projected(node, x, config, heads, dim) \o QkNormed(node, config)
         \o Laid(node, config, batch, seq, heads, dim) \o Rotated(node, config)
         \o Mask \o FlattenSeq(Heads) \o Out
         \o Residual(node, node_map, "out_proj", "attn_residual_add")
  BY Zenon DEF decompose_attention
<1> HIDE DEF heads, dim, x, Heads, Mask, Out
<1> QED
  BY <1>3, <1>4, <1>5, <1>6, <1>7, <1>8, <1>9, <1>10, <1>11, KindedConcat

LEMMA MlpKinds ==
    ASSUME NEW fit, Usual(fit), NEW node, NEW config, NEW weights, NEW node_map
    PROVE  LET ops == decompose_mlp(node, config, weights, node_map)
           IN  Failed(ops) \/ Kinded(ops, fit)
<1> DEFINE x == resolve_input(node, 1, node_map)
           linear(of, p, name) == Named(Op("LinearProjection", <<of>>, hf_param_name(node, p), <<>>),
                                        Numbered(name, 0))
           has_gate == node.path # Nowhere /\ hf_param_name(node, "gate_proj") \in weights
           gated == << linear(x, "gate_proj", "gate_proj"),
                       Named(Op("Silu", <<A(node, Name("gate_proj"))>>, NoWeight, <<>>),
                             Name("mlp_gate_silu")),
                       linear(x, "up_proj", "up_proj"),
                       Named(Op("Mul", <<A(node, Name("mlp_gate_silu")), A(node, Name("up_proj"))>>, NoWeight,
                                <<>>), Name("mlp_swiglu_mul")),
                       linear(A(node, Name("mlp_swiglu_mul")), "down_proj", "down_proj") >>
           plain == << linear(x, IF has_gate THEN "gate_proj" ELSE "up_proj", "up_proj"),
                       Named(Op(Activations[node.op.activation], <<A(node, Name("up_proj"))>>, NoWeight,
                                <<>>), Name("mlp_act")),
                       linear(A(node, Name("mlp_act")), "down_proj", "down_proj") >>
           residual == Residual(node, node_map, "down_proj", "mlp_residual_add")
<1>0. {"LinearProjection", "Silu", "Gelu", "Relu", "Mul"} \subseteq fit.kinds \ {"RoPETransform", "Const"}
  BY DEF Usual, Everywhere
<1>1. {"gate_proj", "mlp_gate_silu", "up_proj", "mlp_swiglu_mul", "down_proj", "mlp_act", "mlp_residual_add"}
          \cap Laying = {}
  BY DEF Laying
<1>2. /\ \A kind, refs, weight, attr, base :
             kind \in fit.kinds \ {"RoPETransform", "Const"} /\ base \notin Laying
                => OfKind(Named(Op(kind, refs, weight, attr), Name(base)), fit)
      /\ \A of, p, name : name \notin Laying => OfKind(linear(of, p, name), fit)
  BY <1>0, NamesBegin, NamedKind
<1> HIDE DEF linear
<1>3. Kinded(gated, fit)
  BY <1>0, <1>1, <1>2, KindedFive
<1>4. ASSUME node.op.activation \in DOMAIN Activations PROVE Kinded(plain, fit)
  <2>1. Activations[node.op.activation] \in {"Silu", "Gelu", "Relu"}
    BY <1>4 DEF Activations
  <2>2. Activations[node.op.activation] \in fit.kinds \ {"RoPETransform", "Const"}
    BY <1>0, <2>1
  <2> QED
    BY <1>1, <1>2, <2>2, KindedThree
<1>5. Kinded(residual, fit)
  BY <1>1, ResidualKinds
<1>6. \/ decompose_mlp(node, config, weights, node_map) = gated \o residual
      \/ /\ node.op.activation \in DOMAIN Activations
         /\ decompose_mlp(node, config, weights, node_map) = plain \o residual
      \/ decompose_mlp(node, config, weights, node_map) = Error
  BY DEF decompose_mlp, linear
<1> HIDE DEF gated, plain, residual
<1> QED
  BY <1>3, <1>4, <1>5, <1>6, KindedConcat DEF Failed

LEMMA SmallKinds ==
    ASSUME NEW fit, Usual(fit), NEW node, NEW config, NEW node_map
    PROVE  /\ Kinded(decompose_rope(node, node_map), fit)
           /\ Kinded(decompose_rms_norm(node, config, node_map), fit)
           /\ Kinded(decompose_sdpa(node, node_map), fit)
           /\ Kinded(decompose_where(node, node_map), fit)
           /\ Kinded(MapWeighted(node, node_map), fit)
           /\ Kinded(MapSlice(node, node_map), fit)
           /\ Failed(MapCast(node, node_map)) \/ Kinded(MapCast(node, node_map), fit)
           /\ Kinded(MapConcat(node, node_map), fit)
           /\ Kinded(<<Named(Op("Identity", <<<<"placeholder">>>>, NoWeight, <<>>), Name("placeholder"))>>, fit)
<1>0. /\ {"LinearProjection", "RMSNorm", "Transpose", "SliceByIndex", "MatMul", "Mul", "Add", "Sub",
          "Softmax", "Concat", "Gather", "Cast", "Identity"} \subseteq fit.kinds \ {"RoPETransform", "Const"}
      /\ "Const" \in fit.kinds
  BY DEF Usual, Everywhere
<1>1. {"rope_cos_mul", "rope_rotate_first_half", "rope_rotate_second_half", "rope_sin_mul", "rope_add", "rms_norm",
       "sdpa_k_transpose", "sdpa_qk", "sdpa_scale_const", "sdpa_scale", "sdpa_softmax", "sdpa_sv", "where_one",
       "where_sub", "where_mul_x", "where_mul_y", "where_add", "linear", "embedding", "slice", "cast", "concat",
       "placeholder"} \cap Laying = {}
  BY DEF Laying
<1>2. /\ \A kind, refs, weight, attr, base :
             kind \in fit.kinds \ {"RoPETransform", "Const"} /\ base \notin Laying
                => OfKind(Named(Op(kind, refs, weight, attr), Name(base)), fit)
      /\ \A kind, refs, weight, attr, base, n :
             kind \in fit.kinds \ {"RoPETransform", "Const"} /\ base \notin Laying
                => OfKind(Named(Op(kind, refs, weight, attr), Numbered(base, n)), fit)
  BY NamesBegin, NamedKind
<1>3. /\ OfKind(Named(Op("Const", <<>>, NoWeight, <<"scale">>), Name("sdpa_scale_const")), fit)
      /\ OfKind(Named(Op("Const", <<>>, NoWeight, <<"one">>), Name("where_one")), fit)
  BY <1>0, <1>1, NamesBegin, ConstKind
<1>4. Kinded(decompose_rope(node, node_map), fit)
  BY <1>0, <1>1, <1>2, KindedFive DEF decompose_rope
<1>5. Kinded(decompose_rms_norm(node, config, node_map), fit)
  BY <1>0, <1>1, <1>2, KindedOne DEF decompose_rms_norm
<1>6. Kinded(decompose_sdpa(node, node_map), fit)
  BY <1>0, <1>1, <1>2, <1>3, KindedSix DEF decompose_sdpa
<1>7. Kinded(decompose_where(node, node_map), fit)
  BY <1>0, <1>1, <1>2, <1>3, KindedFive DEF decompose_where
<1>8. Kinded(MapWeighted(node, node_map), fit)
  BY <1>0, <1>1, <1>2, KindedOne DEF MapWeighted
<1>9. Kinded(MapSlice(node, node_map), fit)
  BY <1>0, <1>1, <1>2, KindedOne DEF MapSlice
<1>10. Failed(MapCast(node, node_map)) \/ Kinded(MapCast(node, node_map), fit)
  BY <1>0, <1>1, <1>2, KindedOne DEF MapCast, Failed
<1>11. Kinded(MapConcat(node, node_map), fit)
  <2>1. \A refs : OfKind(Named(Op("Concat", refs, NoWeight, <<>>), Name("concat")), fit)
    BY <1>0, <1>1, <1>2
  <2> QED
    BY <2>1, KindedOne, Zenon DEF MapConcat
<1>12. Kinded(<<Named(Op("Identity", <<<<"placeholder">>>>, NoWeight, <<>>), Name("placeholder"))>>, fit)
  BY <1>0, <1>1, <1>2, KindedOne
<1> QED
  BY <1>4, <1>5, <1>6, <1>7, <1>8, <1>9, <1>10, <1>11, <1>12

LEMMA DirectKinds ==
    ASSUME NEW fit, Usual(fit), NEW node, NEW node_map, node.op.type \in DOMAIN Direct
    PROVE  Kinded(MapDirect(node, node_map), fit)
<1>1. Direct[node.op.type][1] \in Everywhere \ {"RoPETransform", "Const"}
  BY DEF Direct, Everywhere
<1>2. Name(node.op.type)[1] \notin Laying
  BY NamesBegin DEF Direct, Laying
<1>3. Direct[node.op.type][1] \in fit.kinds \ {"RoPETransform", "Const"}
  BY <1>1 DEF Usual
<1> HIDE DEF Direct
<1>4. \A refs : OfKind(Named(Op(Direct[node.op.type][1], refs, NoWeight, <<>>), Name(node.op.type)), fit)
  BY <1>2, <1>3, NamedKind
<1> QED
  BY <1>4, KindedOne, Zenon DEF MapDirect

(* The two that a family may lack are built where it has them. *)
LEMMA GatedKinds ==
    ASSUME NEW family, NEW fit, fit.kinds = Buildable(family), NEW node, NEW node_map
    PROVE  /\ Failed(MapLayerNorm(node, family, node_map)) \/ Kinded(MapLayerNorm(node, family, node_map), fit)
           /\ Kinded(MapSdpa(node, family, node_map), fit)
<1>1. Failed(MapLayerNorm(node, family, node_map)) \/ Kinded(MapLayerNorm(node, family, node_map), fit)
  <2>1. CASE supports_layernorm(family)
    <3>1. "LayerNorm" \in fit.kinds /\ Name("layernorm")[1] \notin Laying
      BY <2>1, NamesBegin DEF Buildable, Laying
    <3> QED
      BY <2>1, <3>1, NamedKind, KindedOne DEF MapLayerNorm
  <2>2. CASE ~supports_layernorm(family)
    BY <2>2 DEF MapLayerNorm, Failed
  <2> QED
    BY <2>1, <2>2
<1>2. Kinded(MapSdpa(node, family, node_map), fit)
  <2>1. CASE supports_sdpa(family)
    <3>1. "ScaledDotProductAttention" \in fit.kinds /\ Name("sdpa")[1] \notin Laying
      BY <2>1, NamesBegin DEF Buildable, Laying
    <3>2. \A refs : OfKind(Named(Op("ScaledDotProductAttention", refs, NoWeight, <<"scale">>), Name("sdpa")), fit)
      BY <3>1, NamedKind
    <3> QED
      BY <2>1, <3>2, KindedOne, Zenon DEF MapSdpa
  <2>2. CASE ~supports_sdpa(family)
    BY <2>2, SmallKinds DEF MapSdpa, Usual, Buildable
  <2> QED
    BY <2>1, <2>2
<1> QED
  BY <1>1, <1>2

(* The blocks of a traced graph whose heads are of one dimension. *)
LaysOut(node, dim) ==
    node.op.type = "AttentionBlock" => node.op.heads \in Nat /\ node.op.head_dim = dim

\* The types of traced operations that are not mapped one to one.
TypesOfTheirOwn == {"AttentionBlock", "MlpBlock", "RopeTransform", "RmsNorm", "Linear", "Embedding",
          "LayerNorm", "ScaledDotProductAttention", "Where", "Slice", "Cast", "Concat", "Placeholder"}
Held == <<Named(Op("Identity", <<<<"placeholder">>>>, NoWeight, <<>>), Name("placeholder"))>>

\* What each of them becomes.
LEMMA Translated ==
    ASSUME NEW node, NEW g, NEW family, NEW node_map, NEW batch, NEW seq
    PROVE  LET ops == map_traced_op(node, g, family, node_map, batch, seq)
               type == node.op.type
           IN  /\ type = "AttentionBlock" => ops = decompose_attention(node, g.config, node_map, batch, seq)
               /\ type = "MlpBlock" => ops = decompose_mlp(node, g.config, g.weights, node_map)
               /\ type = "RopeTransform" => ops = decompose_rope(node, node_map)
               /\ type = "RmsNorm" => ops = decompose_rms_norm(node, g.config, node_map)
               /\ type \in {"Linear", "Embedding"} => ops = MapWeighted(node, node_map)
               /\ type = "LayerNorm" => ops = MapLayerNorm(node, family, node_map)
               /\ type = "ScaledDotProductAttention" => ops = MapSdpa(node, family, node_map)
               /\ type = "Where" => ops = decompose_where(node, node_map)
               /\ type = "Slice" => ops = MapSlice(node, node_map)
               /\ type = "Cast" => ops = MapCast(node, node_map)
               /\ type = "Concat" => ops = MapConcat(node, node_map)
               /\ type = "Placeholder" => ops = Held
               /\ type \in DOMAIN Direct \ TypesOfTheirOwn => ops = MapDirect(node, node_map)
               /\ type \notin TypesOfTheirOwn \cup DOMAIN Direct => ops = Error
<1> DEFINE ops == map_traced_op(node, g, family, node_map, batch, seq)
           type == node.op.type
<1>1. type \in TypesOfTheirOwn => type \notin DOMAIN Direct
  BY DEF Direct, TypesOfTheirOwn
<1>2. type = "AttentionBlock" => ops = decompose_attention(node, g.config, node_map, batch, seq)
  BY <1>1, Zenon DEF map_traced_op, TypesOfTheirOwn
<1>3. type = "MlpBlock" => ops = decompose_mlp(node, g.config, g.weights, node_map)
  BY <1>1, Zenon DEF map_traced_op, TypesOfTheirOwn
<1>4. type = "RopeTransform" => ops = decompose_rope(node, node_map)
  BY <1>1, Zenon DEF map_traced_op, TypesOfTheirOwn
<1>5. type = "RmsNorm" => ops = decompose_rms_norm(node, g.config, node_map)
  BY <1>1, Zenon DEF map_traced_op, TypesOfTheirOwn
<1>6. type \in {"Linear", "Embedding"} => ops = MapWeighted(node, node_map)
  BY <1>1, Zenon DEF map_traced_op, TypesOfTheirOwn
<1>7. type = "LayerNorm" => ops = MapLayerNorm(node, family, node_map)
  BY <1>1, Zenon DEF map_traced_op, TypesOfTheirOwn
<1>8. type = "ScaledDotProductAttention" => ops = MapSdpa(node, family, node_map)
  BY <1>1, Zenon DEF map_traced_op, TypesOfTheirOwn
<1>9. type = "Where" => ops = decompose_where(node, node_map)
  BY <1>1, Zenon DEF map_traced_op, TypesOfTheirOwn
<1>10. type = "Slice" => ops = MapSlice(node, node_map)
  BY <1>1, Zenon DEF map_traced_op, TypesOfTheirOwn
<1>11. type = "Cast" => ops = MapCast(node, node_map)
  BY <1>1, Zenon DEF map_traced_op, TypesOfTheirOwn
<1>12. type = "Concat" => ops = MapConcat(node, node_map)
  BY <1>1, Zenon DEF map_traced_op, TypesOfTheirOwn
<1>13. type = "Placeholder" => ops = Held
  BY <1>1, Zenon DEF map_traced_op, TypesOfTheirOwn, Held
<1>14. type \in DOMAIN Direct \ TypesOfTheirOwn => ops = MapDirect(node, node_map)
  BY Zenon DEF map_traced_op, TypesOfTheirOwn
<1>15. type \notin TypesOfTheirOwn \cup DOMAIN Direct => ops = Error
  BY Zenon DEF map_traced_op, TypesOfTheirOwn
<1> HIDE DEF ops, type
<1>16. /\ type = "AttentionBlock" => ops = decompose_attention(node, g.config, node_map, batch, seq)
       /\ type = "MlpBlock" => ops = decompose_mlp(node, g.config, g.weights, node_map)
       /\ type = "RopeTransform" => ops = decompose_rope(node, node_map)
       /\ type = "RmsNorm" => ops = decompose_rms_norm(node, g.config, node_map)
       /\ type \in {"Linear", "Embedding"} => ops = MapWeighted(node, node_map)
       /\ type = "LayerNorm" => ops = MapLayerNorm(node, family, node_map)
       /\ type = "ScaledDotProductAttention" => ops = MapSdpa(node, family, node_map)
       /\ type = "Where" => ops = decompose_where(node, node_map)
       /\ type = "Slice" => ops = MapSlice(node, node_map)
       /\ type = "Cast" => ops = MapCast(node, node_map)
       /\ type = "Concat" => ops = MapConcat(node, node_map)
       /\ type = "Placeholder" => ops = Held
       /\ type \in DOMAIN Direct \ TypesOfTheirOwn => ops = MapDirect(node, node_map)
       /\ type \notin TypesOfTheirOwn \cup DOMAIN Direct => ops = Error
  BY <1>2, <1>3, <1>4, <1>5, <1>6, <1>7, <1>8, <1>9, <1>10, <1>11, <1>12, <1>13, <1>14, <1>15
<1> QED
  BY <1>16 DEF ops, type

(* Any of them. *)
LEMMA TracedKinds ==
    ASSUME NEW node, NEW g, NEW family, NEW fit, fit.kinds = Buildable(family), NEW node_map, NEW batch,
           LaysOut(node, fit.dim)
    PROVE  LET ops == map_traced_op(node, g, family, node_map, batch, fit.rows)
           IN  Failed(ops) \/ Kinded(ops, fit)
<1> DEFINE ops == map_traced_op(node, g, family, node_map, batch, fit.rows)
<1>0. Usual(fit)
  BY DEF Usual, Buildable
<1> DEFINE type == node.op.type
<1>1. /\ type = "AttentionBlock" => ops = decompose_attention(node, g.config, node_map, batch, fit.rows)
      /\ type = "MlpBlock" => ops = decompose_mlp(node, g.config, g.weights, node_map)
      /\ type = "RopeTransform" => ops = decompose_rope(node, node_map)
      /\ type = "RmsNorm" => ops = decompose_rms_norm(node, g.config, node_map)
      /\ type \in {"Linear", "Embedding"} => ops = MapWeighted(node, node_map)
      /\ type = "LayerNorm" => ops = MapLayerNorm(node, family, node_map)
      /\ type = "ScaledDotProductAttention" => ops = MapSdpa(node, family, node_map)
      /\ type = "Where" => ops = decompose_where(node, node_map)
      /\ type = "Slice" => ops = MapSlice(node, node_map)
      /\ type = "Cast" => ops = MapCast(node, node_map)
      /\ type = "Concat" => ops = MapConcat(node, node_map)
      /\ type = "Placeholder" => ops = Held
      /\ type \in DOMAIN Direct \ TypesOfTheirOwn => ops = MapDirect(node, node_map)
      /\ type \notin TypesOfTheirOwn \cup DOMAIN Direct => ops = Error
  BY Translated
<1> HIDE DEF ops
<1>2. Kinded(decompose_attention(node, g.config, node_map, batch, fit.rows), fit)
      \/ type # "AttentionBlock"
  BY <1>0, AttentionKinds DEF LaysOut
<1>3. LET mlp == decompose_mlp(node, g.config, g.weights, node_map) IN Failed(mlp) \/ Kinded(mlp, fit)
  BY <1>0, MlpKinds
<1>4. /\ Failed(MapLayerNorm(node, family, node_map)) \/ Kinded(MapLayerNorm(node, family, node_map), fit)
      /\ Kinded(MapSdpa(node, family, node_map), fit)
  BY GatedKinds
<1>5. type \in DOMAIN Direct => Kinded(MapDirect(node, node_map), fit)
  BY <1>0, DirectKinds
<1>6. /\ Kinded(decompose_rope(node, node_map), fit)
      /\ Kinded(decompose_rms_norm(node, g.config, node_map), fit)
      /\ Kinded(decompose_where(node, node_map), fit)
      /\ Kinded(MapWeighted(node, node_map), fit)
      /\ Kinded(MapSlice(node, node_map), fit)
      /\ Failed(MapCast(node, node_map)) \/ Kinded(MapCast(node, node_map), fit)
      /\ Kinded(MapConcat(node, node_map), fit)
      /\ Kinded(Held, fit)
  BY <1>0, SmallKinds DEF Held
<1> HIDE DEF type
<1>7. Failed(ops) \/ Kinded(ops, fit)
  BY <1>1, <1>2, <1>3, <1>4, <1>5, <1>6 DEF Failed, TypesOfTheirOwn
<1> QED
  BY <1>7 DEF ops

(* The graph of all of them. *)

Noded(nodes, fit) ==
    \E S : /\ nodes \in Seq(S)
           /\ \A x \in S : x = [id |-> x.id, op |-> x.op, name |-> x.name, from |-> x.from] /\ OfKind(x, fit)

IsMade(made, fit) ==
    /\ made = [nodes |-> made.nodes, node_map |-> made.node_map, failed |-> made.failed]
    /\ Noded(made.nodes, fit)

LEMMA NodedConcat ==
    ASSUME NEW fit, NEW s, NEW t, Noded(s, fit), Noded(t, fit)
    PROVE  Noded(s \o t, fit)
<1> DEFINE IsNode(x) == x = [id |-> x.id, op |-> x.op, name |-> x.name, from |-> x.from] /\ OfKind(x, fit)
<1>1. PICK S : s \in Seq(S) /\ \A x \in S : IsNode(x)
  BY DEF Noded
<1>2. PICK T : t \in Seq(T) /\ \A x \in T : IsNode(x)
  BY DEF Noded
<1> HIDE DEF IsNode
<1>3. s \in Seq(S \cup T) /\ t \in Seq(S \cup T)
  BY <1>1, <1>2
<1>4. s \o t \in Seq(S \cup T)
  BY <1>3
<1>5. \A x \in S \cup T : IsNode(x)
  BY <1>1, <1>2
<1>6. \E U : s \o t \in Seq(U) /\ \A x \in U : IsNode(x)
  BY <1>4, <1>5
<1> QED
  BY <1>6, Zenon DEF Noded, IsNode

LEMMA NodedOps ==
    ASSUME NEW fit, NEW ops, Kinded(ops, fit), NEW from, NEW id
    PROVE  Noded([k \in DOMAIN ops |-> [id |-> id[k], op |-> ops[k].op, name |-> ops[k].name, from |-> from]],
                 fit)
<1> DEFINE node(k) == [id |-> id[k], op |-> ops[k].op, name |-> ops[k].name, from |-> from]
           nodes == [k \in DOMAIN ops |-> node(k)]
           S == {node(k) : k \in DOMAIN ops}
           IsNode(x) == x = [id |-> x.id, op |-> x.op, name |-> x.name, from |-> x.from] /\ OfKind(x, fit)
<1>1. PICK O : ops \in Seq(O) /\ \A x \in O : OfKind(x, fit)
  BY DEF Kinded
<1>2. \A k \in DOMAIN ops : IsNode(node(k))
  <2> SUFFICES ASSUME NEW k \in DOMAIN ops PROVE OfKind(node(k), fit)
    OBVIOUS
  <2>1. OfKind(ops[k], fit)
    BY <1>1
  <2> QED
    BY <2>1 DEF OfKind
<1>3. Len(ops) \in Nat /\ DOMAIN ops = 1..Len(ops)
  BY <1>1
<1> HIDE DEF node, IsNode
<1>4. nodes \in Seq(S)
  BY <1>3
<1>5. \A x \in S : IsNode(x)
  BY <1>2
<1> HIDE DEF nodes, S
<1>6. \E U : nodes \in Seq(U) /\ \A x \in U : IsNode(x)
  BY <1>4, <1>5
<1> QED
  BY <1>6, Zenon DEF Noded, IsNode, nodes, node

LEMMA AddKeeps ==
    ASSUME NEW g, NEW family, NEW fit, fit.kinds = Buildable(family), NEW batch,
           NEW made, IsMade(made, fit), NEW node, LaysOut(node, fit.dim)
    PROVE  IsMade(AddNode(made, node, g, family, batch, fit.rows), fit)
<1> DEFINE ops == map_traced_op(node, g, family, made.node_map, batch, fit.rows)
           next == Len(made.nodes)
           id(k) == <<"id", next + k - 1, node.id>>
           ids == [k \in DOMAIN ops |-> id(k)]
           new == [k \in DOMAIN ops |-> [id |-> ids[k], op |-> ops[k].op, name |-> ops[k].name, from |-> node.id]]
           mapped == [t \in DOMAIN made.node_map \cup {node.id} |->
                         IF t = node.id THEN id(Len(ops)) ELSE made.node_map[t]]
<1>1. Failed(ops) \/ Kinded(ops, fit)
  BY TracedKinds
<1>2. new = [k \in DOMAIN ops |-> [id |-> id(k), op |-> ops[k].op, name |-> ops[k].name, from |-> node.id]]
  OBVIOUS
<1> HIDE DEF ops
<1>3. AddNode(made, node, g, family, batch, fit.rows) =
        IF made.failed \/ Failed(ops) THEN [made EXCEPT !.failed = TRUE]
        ELSE [made EXCEPT !.nodes = made.nodes \o new, !.node_map = mapped]
  BY <1>2, Zenon DEF AddNode, ops
<1> HIDE DEF id, next
<1>4. Failed(ops) \/ Noded(new, fit)
  <2>1. ASSUME Kinded(ops, fit) PROVE Noded(new, fit)
    BY <2>1, NodedOps
  <2> QED
    BY <1>1, <2>1
<1> HIDE DEF new, mapped
<1>5. Failed(ops) \/ Noded(made.nodes \o new, fit)
  <2>1. ASSUME Noded(new, fit) PROVE Noded(made.nodes \o new, fit)
    BY <2>1, NodedConcat DEF IsMade
  <2> QED
    BY <1>4, <2>1
<1> QED
  BY <1>3, <1>5 DEF IsMade

\* A traced graph: a sequence of nodes whose blocks have heads of one dimension.
Traced(g, dim) ==
    /\ \E S : g.nodes \in Seq(S)
    /\ \A i \in 1..Len(g.nodes) : LaysOut(g.nodes[i], dim)

(* The nodes are added one traced node at a time. *)
LEMMA AllSteps ==
    ASSUME NEW g, NEW family, NEW batch, NEW seq, NEW T, g.nodes \in Seq(T)
    PROVE  \E all :
               /\ all[0] = [nodes |-> <<>>, node_map |-> <<>>, failed |-> FALSE]
               /\ \A i \in 1..Len(g.nodes) : all[i] = AddNode(all[i - 1], g.nodes[i], g, family, batch, seq)
               /\ AllNodes(g, family, batch, seq) = all[Len(g.nodes)]
<1> DEFINE n == Len(g.nodes)
           add(made, i) == AddNode(made, g.nodes[i], g, family, batch, seq)
           start == [nodes |-> <<>>, node_map |-> <<>>, failed |-> FALSE]
           IsAll(f, m) == f = [i \in 0..m |-> IF i = 0 THEN start ELSE add(f[i - 1], i)]
           All == CHOOSE f : IsAll(f, n)
<1>1. n \in Nat
  OBVIOUS
<1>2. AllNodes(g, family, batch, seq) = All[n]
  BY Zenon DEF AllNodes
<1> HIDE DEF add, start
<1>5. \E f : IsAll(f, n)
  <2> DEFINE Numbers == {m \in 0..n : \E f : IsAll(f, m)}
  <2>1. 0 \in Numbers
    <3> DEFINE f == [i \in 0..0 |-> start]
    <3>1. IsAll(f, 0)
      OBVIOUS
    <3> HIDE DEF IsAll, f
    <3>2. 0 \in 0..n /\ \E h : IsAll(h, 0)
      BY <1>1, <3>1
    <3> QED
      BY <3>2
  <2>2. ASSUME NEW m \in 1..n, m - 1 \in Numbers PROVE m \in Numbers
    <3>1. PICK f : IsAll(f, m - 1)
      BY <2>2
    <3> DEFINE h == [i \in 0..m |-> IF i = m THEN add(f[m - 1], m) ELSE f[i]]
    <3>2. \A i \in 0..m : h[i] = IF i = 0 THEN start ELSE add(h[i - 1], i)
      <4> SUFFICES ASSUME NEW i \in 0..m
                   PROVE  h[i] = IF i = 0 THEN start ELSE add(h[i - 1], i)
        OBVIOUS
      <4>1. CASE i = m
        BY <4>1
      <4>2. CASE i # m
        <5>1. i \in 0..m - 1 /\ h[i] = f[i] /\ (i # 0 => h[i - 1] = f[i - 1])
          BY <4>2
        <5>2. f[i] = IF i = 0 THEN start ELSE add(f[i - 1], i)
          BY <3>1, <5>1
        <5> QED
          BY <5>1, <5>2
      <4> QED
        BY <4>1, <4>2
    <3>3. h = [i \in 0..m |-> h[i]]
      OBVIOUS
    <3> HIDE DEF h
    <3>4. IsAll(h, m)
      BY <3>2, <3>3
    <3> HIDE DEF IsAll, n
    <3>5. m \in 0..n /\ \E f0 : IsAll(f0, m)
      BY <1>1, <3>4
    <3> QED
      BY <3>5
  <2>3. n \in Numbers
    <3> HIDE DEF Numbers, n
    <3>1. \A m \in 0..n : m \in Numbers
      BY <1>1, <2>1, <2>2, UpTo
    <3> QED
      BY <1>1, <3>1
  <2> HIDE DEF IsAll
  <2> QED
    BY <2>3
<1>6. IsAll(All, n)
  <2> HIDE DEF IsAll
  <2> QED
    BY <1>5
<1> HIDE DEF All, n
<1>7. All[0] = start /\ \A i \in 1..n : All[i] = add(All[i - 1], i)
  BY <1>1, <1>6
<1> QED
  BY <1>2, <1>7 DEF add, start, n

LEMMA AllKinds ==
    ASSUME NEW g, NEW family, NEW fit, fit.kinds = Buildable(family), NEW batch, Traced(g, fit.dim)
    PROVE  Noded(AllNodes(g, family, batch, fit.rows).nodes, fit)
<1> DEFINE n == Len(g.nodes)
           add(made, i) == AddNode(made, g.nodes[i], g, family, batch, fit.rows)
           start == [nodes |-> <<>>, node_map |-> <<>>, failed |-> FALSE]
<1>1. n \in Nat
  BY DEF Traced
<1>2. PICK All : /\ All[0] = start
                 /\ \A i \in 1..n : All[i] = add(All[i - 1], i)
                 /\ AllNodes(g, family, batch, fit.rows) = All[n]
  <2>1. PICK T : g.nodes \in Seq(T)
    BY DEF Traced
  <2>2. ASSUME NEW seq
        PROVE  \E all :
                   /\ all[0] = start
                   /\ \A i \in 1..n : all[i] = AddNode(all[i - 1], g.nodes[i], g, family, batch, seq)
                   /\ AllNodes(g, family, batch, seq) = all[n]
    BY <2>1, AllSteps
  <2>3. \E all : /\ all[0] = start
                 /\ \A i \in 1..n : all[i] = add(all[i - 1], i)
                 /\ AllNodes(g, family, batch, fit.rows) = all[n]
    BY <2>2
  <2> HIDE DEF add, start, n
  <2> QED
    BY <2>3
<1>3. IsMade(start, fit)
  <2>1. Noded(<<>>, fit)
    <3> DEFINE S == {}
    <3>1. <<>> \in Seq(S) /\ \A x \in S : x = [id |-> x.id, op |-> x.op, name |-> x.name, from |-> x.from]
                                            /\ OfKind(x, fit)
      OBVIOUS
    <3> HIDE DEF S
    <3> QED
      BY <3>1 DEF Noded
  <2> QED
    BY <2>1 DEF IsMade
<1>4. \A i \in 1..n : \A made : IsMade(made, fit) => IsMade(add(made, i), fit)
  BY AddKeeps DEF Traced
<1> HIDE DEF add, start
<1>7. \A i \in 0..n : IsMade(All[i], fit)
  <2> DEFINE Numbers == {i \in 0..n : IsMade(All[i], fit)}
  <2>1. 0 \in Numbers
    BY <1>1, <1>2, <1>3
  <2>2. ASSUME NEW i \in 1..n, i - 1 \in Numbers PROVE i \in Numbers
    BY <1>1, <1>2, <1>4, <2>2
  <2>3. \A i \in 0..n : i \in Numbers
    <3> HIDE DEF Numbers
    <3> QED
      BY <1>1, <2>1, <2>2, UpTo
  <2> QED
    BY <2>3
<1>8. n \in 0..n
  BY <1>1
<1>9. IsMade(All[n], fit)
  BY <1>7, <1>8
<1> QED
  BY <1>2, <1>9 DEF IsMade

LEMMA SirKinds ==
    ASSUME NEW g, NEW family, NEW fit, fit.kinds = Buildable(family), Traced(g, fit.dim),
           fit.rows = IF g.inputs # <<>> /\ Len(g.inputs[1]) >= 2 THEN g.inputs[1][2] ELSE 32
    PROVE  Noded(build_sir_from_trace(g, family).nodes, fit)
<1> DEFINE dims == g.inputs[1]
           known == g.inputs # <<>> /\ Len(dims) >= 2
           batch == IF known THEN dims[1] ELSE 1
           nodes == AllNodes(g, family, batch, fit.rows).nodes
<1>1. Noded(nodes, fit)
  BY AllKinds
<1>2. build_sir_from_trace(g, family).nodes = Resolved(nodes)
  BY DEF build_sir_from_trace
<1> HIDE DEF nodes
<1>3. PICK S : /\ nodes \in Seq(S)
               /\ \A x \in S : x = [id |-> x.id, op |-> x.op, name |-> x.name, from |-> x.from] /\ OfKind(x, fit)
  BY <1>1 DEF Noded
<1> DEFINE new == Resolved(nodes)
<1>4. ASSUME NEW i \in DOMAIN nodes
      PROVE  new[i] = [id |-> new[i].id, op |-> new[i].op, name |-> new[i].name, from |-> new[i].from]
             /\ OfKind(new[i], fit)
  <2> DEFINE x == nodes[i]
             refs == [k \in DOMAIN x.op.refs |-> Resolve(x.op.refs[k], nodes)]
  <2>1. x = [id |-> x.id, op |-> x.op, name |-> x.name, from |-> x.from] /\ OfKind(x, fit)
    BY <1>3
  <2>2. new[i] = [x EXCEPT !.op.refs = refs]
    BY DEF Resolved
  <2> HIDE DEF x, refs
  <2>3. new[i] = [id |-> x.id, op |-> Op(x.op.kind, refs, x.op.weight, x.op.attr), name |-> x.name,
                  from |-> x.from]
    BY <2>1, <2>2 DEF OfKind, Op
  <2> HIDE DEF new
  <2>4. /\ new[i].op = Op(x.op.kind, refs, x.op.weight, x.op.attr) /\ new[i].name = x.name
        /\ new[i] = [id |-> new[i].id, op |-> new[i].op, name |-> new[i].name, from |-> new[i].from]
    BY <2>3
  <2>5. /\ new[i].op.kind = x.op.kind /\ new[i].op.attr = x.op.attr
        /\ new[i].op = Op(new[i].op.kind, new[i].op.refs, new[i].op.weight, new[i].op.attr)
    BY <2>4 DEF Op
  <2> QED
    BY <2>1, <2>4, <2>5 DEF OfKind
<1>5. DOMAIN new = DOMAIN nodes /\ Len(nodes) \in Nat /\ DOMAIN nodes = 1..Len(nodes)
      /\ new = [i \in DOMAIN nodes |-> new[i]]
  BY <1>3 DEF Resolved
<1> DEFINE T == {new[i] : i \in DOMAIN nodes}
           IsNode(x) == x = [id |-> x.id, op |-> x.op, name |-> x.name, from |-> x.from] /\ OfKind(x, fit)
<1> HIDE DEF new, IsNode
<1>6. new \in Seq(T) /\ \A x \in T : IsNode(x)
  <2>1. \A i \in DOMAIN nodes : IsNode(new[i])
    BY <1>4 DEF IsNode
  <2>2. \A i \in DOMAIN nodes : new[i] \in T
    OBVIOUS
  <2> HIDE DEF T
  <2>3. new \in Seq(T)
    BY <1>5, <2>2
  <2> QED
    BY <2>1, <2>3 DEF T
<1>7. \E U : new \in Seq(U) /\ \A x \in U : IsNode(x)
  BY <1>6
<1>8. Noded(new, fit)
  BY <1>7, Zenon DEF Noded, IsNode
<1> QED
  BY <1>2, <1>8 DEF new

-----------------------------------------------------------------------------
(* What the report says of the kinds that are built. *)

\* The sections of the operations that the report tells apart, as sets.
LEMMA Sections ==
    /\ DOMAIN SirLinear = {"MatMul", "Einsum"}
    /\ DOMAIN SirBinary =
         {"Add", "Mul", "Sub", "Maximum", "Minimum", "RealDiv", "FloorDiv", "Mod", "Pow",
          "Equal", "NotEqual", "Greater", "GreaterEqual", "Less", "LessEqual", "LogicalAnd",
          "LogicalOr", "LogicalXor"}
    /\ DOMAIN SirActivation =
         {"Abs", "Neg", "Sigmoid", "Tanh", "Relu", "Relu6", "LeakyRelu", "SigmoidHard",
          "ThresholdedRelu", "ClampedRelu", "LinearActivation", "Softsign", "Silu", "ScaledTanh",
          "Elu", "Softplus", "Gelu", "Clip", "Square", "Threshold", "Prelu", "SoftplusParametric"}
    /\ DOMAIN SirMath =
         {"Sqrt", "Rsqrt", "Inverse", "Ceil", "Floor", "Round", "Exp", "Exp2", "Log", "Sign",
          "Cos", "Sin", "Tan", "Acos", "Asin", "Atan", "Cosh", "Sinh", "Atanh", "Erf",
          "LogicalNot", "Cast", "Softmax", "Select", "Where"}
    /\ DOMAIN SirReduction =
         {"ReduceSum", "ReduceMean", "ReduceMax", "ReduceMin", "ReduceProd", "ReduceSumSquare",
          "ReduceL2Norm", "ReduceL1Norm", "ReduceLogSumExp", "ReduceLogSum", "ReduceArgmax",
          "ReduceArgmin"}
    /\ DOMAIN SirNorm = {"BatchNorm", "InstanceNorm", "LayerNorm", "L2Norm", "LocalResponseNorm"}
    /\ DOMAIN SirPool = {"MaxPool", "AvgPool", "L2Pool"}
    /\ DOMAIN SirResize =
         {"Resize", "ResizeNearestNeighbor", "ResizeBilinear", "UpsampleNearestNeighbor",
          "UpsampleBilinear", "CropResize", "Affine", "Resample"}
    /\ DOMAIN SirAttention = {"ScaledDotProductAttention"}
    /\ DOMAIN SirGather =
         {"Gather", "GatherAlongAxis", "GatherNd", "Scatter", "ScatterAlongAxis", "ScatterNd",
          "NonMaximumSuppression"}
    /\ DOMAIN SirShape =
         {"Reshape", "Transpose", "Split", "ExpandDims", "Squeeze", "Flatten2d", "Reverse",
          "SliceByIndex", "SliceBySize", "SlidingWindows", "ReshapeLike", "Concat", "ReverseSequence"}
    /\ DOMAIN SirLayout =
         {"DepthToSpace", "SpaceToDepth", "PixelShuffle", "PixelUnshuffle", "BatchToSpace",
          "SpaceToBatch", "Pad", "Tile", "Cumsum", "Identity", "NonZero", "Argsort", "BandPart",
          "Shape", "Crop", "Stack", "Fill", "Range1d", "FillLike", "OneHot"}
    /\ DOMAIN SirConstexpr =
         {"ConstexprAffineDequantize", "ConstexprBlockwiseShiftScale",
          "ConstexprSparseBlockwiseShiftScale", "ConstexprLutToDense", "ConstexprSparseToDense",
          "ConstexprCast", "ConstexprLutToSparse"}
    /\ DOMAIN SirRandom = {"RandomBernoulli", "RandomNormal", "RandomUniform", "RandomCategorical"}
    /\ DOMAIN SirControl =
         {"Cond", "WhileLoop", "MakeList", "ListLength", "ListWrite", "ListRead", "ListGather",
          "ListScatter"}
<1> USE DEF Together, Ops
<1>1. DOMAIN SirLinear = {"MatMul", "Einsum"}
  BY DEF SirLinear
<1>2. DOMAIN SirActivation =
         {"Abs", "Neg", "Sigmoid", "Tanh", "Relu", "Relu6", "LeakyRelu", "SigmoidHard",
          "ThresholdedRelu", "ClampedRelu", "LinearActivation", "Softsign", "Silu", "ScaledTanh",
          "Elu", "Softplus", "Gelu", "Clip", "Square", "Threshold", "Prelu", "SoftplusParametric"}
  BY DEF SirActivation
<1>3. DOMAIN SirMath =
         {"Sqrt", "Rsqrt", "Inverse", "Ceil", "Floor", "Round", "Exp", "Exp2", "Log", "Sign",
          "Cos", "Sin", "Tan", "Acos", "Asin", "Atan", "Cosh", "Sinh", "Atanh", "Erf",
          "LogicalNot", "Cast", "Softmax", "Select", "Where"}
  BY DEF SirMath
<1>4. DOMAIN SirNorm = {"BatchNorm", "InstanceNorm", "LayerNorm", "L2Norm", "LocalResponseNorm"}
  BY DEF SirNorm
<1>5. DOMAIN SirResize =
         {"Resize", "ResizeNearestNeighbor", "ResizeBilinear", "UpsampleNearestNeighbor",
          "UpsampleBilinear", "CropResize", "Affine", "Resample"}
  BY DEF SirResize
<1>6. DOMAIN SirGather =
         {"Gather", "GatherAlongAxis", "GatherNd", "Scatter", "ScatterAlongAxis", "ScatterNd",
          "NonMaximumSuppression"}
  BY DEF SirGather
<1>7. DOMAIN SirShape =
         {"Reshape", "Transpose", "Split", "ExpandDims", "Squeeze", "Flatten2d", "Reverse",
          "SliceByIndex", "SliceBySize", "SlidingWindows", "ReshapeLike", "Concat", "ReverseSequence"}
  BY DEF SirShape
<1>8. DOMAIN SirLayout =
         {"DepthToSpace", "SpaceToDepth", "PixelShuffle", "PixelUnshuffle", "BatchToSpace",
          "SpaceToBatch", "Pad", "Tile", "Cumsum", "Identity", "NonZero", "Argsort", "BandPart",
          "Shape", "Crop", "Stack", "Fill", "Range1d", "FillLike", "OneHot"}
  BY DEF SirLayout
<1>9. DOMAIN SirConstexpr =
         {"ConstexprAffineDequantize", "ConstexprBlockwiseShiftScale",
          "ConstexprSparseBlockwiseShiftScale", "ConstexprLutToDense", "ConstexprSparseToDense",
          "ConstexprCast", "ConstexprLutToSparse"}
  BY DEF SirConstexpr
<1>10. /\ DOMAIN SirRandom = {"RandomBernoulli", "RandomNormal", "RandomUniform", "RandomCategorical"}
       /\ DOMAIN SirControl =
            {"Cond", "WhileLoop", "MakeList", "ListLength", "ListWrite", "ListRead", "ListGather",
             "ListScatter"}
  BY DEF SirRandom, SirControl
<1> QED
  BY <1>1, <1>2, <1>3, <1>4, <1>5, <1>6, <1>7, <1>8, <1>9, <1>10
     DEF SirBinary, SirReduction, SirPool, SirAttention

(* The answer on what is built, section by section. *)
LEMMA Answers ==
    ASSUME NEW family \in Families
    PROVE  /\ \A kind \in {"LinearProjection", "MatMul"} : check_op(kind, 0, family) = LinearSupport(kind)
           /\ \A kind \in {"Add", "Mul", "Sub", "RealDiv"} :
                  check_op(kind, 0, family) = BinarySupport(kind, family)
           /\ \A kind \in {"Softmax", "Silu", "Gelu", "Relu", "Cast", "Rsqrt", "Tanh", "Sigmoid", "Exp",
                           "Cos", "Sin"} :
                  check_op(kind, 0, family) = UnarySupport(kind)
           /\ check_op("LayerNorm", 0, family) = NormSupport("LayerNorm", family)
           /\ check_op("ScaledDotProductAttention", 0, family) = AttentionSupport(family)
           /\ check_op("Gather", 0, family) = GatherSupport("Gather", 0)
           /\ \A kind \in {"Reshape", "Transpose", "SliceByIndex", "ExpandDims", "Concat", "Split", "Squeeze"} :
                  check_op(kind, 0, family) = TransformSupport(kind)
           /\ \A kind \in {"RMSNorm", "RoPETransform", "Const", "Identity"} :
                  check_op(kind, 0, family) = UtilitySupport(kind)
<1> DEFINE linear == {"LinearProjection", "ConvTranspose", "Conv"} \cup DOMAIN SirLinear
           binary == DOMAIN SirBinary
           unary == DOMAIN SirActivation \cup DOMAIN SirMath
           reduction == DOMAIN SirReduction
           norm == DOMAIN SirNorm
           image == DOMAIN SirPool \cup DOMAIN SirResize
           attention == DOMAIN SirAttention
           gather == DOMAIN SirGather
           transform == (DOMAIN SirShape \cup DOMAIN SirLayout) \ Utilities
           constexpr == DOMAIN SirConstexpr
<1>0. \A kind :
        check_op(kind, 0, family) =
          CASE kind \in linear -> LinearSupport(kind)
            [] kind \in binary -> BinarySupport(kind, family)
            [] kind \in unary -> UnarySupport(kind)
            [] kind \in reduction -> ReductionSupport(kind, family)
            [] kind \in norm -> NormSupport(kind, family)
            [] kind \in image -> ImageSupport(kind, family)
            [] kind \in attention -> AttentionSupport(family)
            [] kind \in gather -> GatherSupport(kind, 0)
            [] kind \in transform -> TransformSupport(kind)
            [] kind \in constexpr -> ConstexprSupport(kind)
            [] OTHER -> UtilitySupport(kind)
  BY Zenon DEF check_op
<1> DEFINE rest1 == linear \cup binary \cup unary \cup reduction
           rest2 == norm \cup image \cup attention \cup gather
           rest3 == transform \cup constexpr
<1>1. \A kind \in {"LinearProjection", "MatMul"} :
         kind \in linear /\ kind \notin binary \cup unary \cup reduction \cup rest2 \cup rest3
  BY Sections
<1>2. \A kind \in {"Add", "Mul", "Sub", "RealDiv"} :
         kind \in binary /\ kind \notin linear \cup unary \cup reduction \cup rest2 \cup rest3
  BY Sections
<1>3. \A kind \in {"Softmax", "Silu", "Gelu", "Relu", "Cast", "Rsqrt", "Tanh", "Sigmoid", "Exp", "Cos", "Sin"} :
         kind \in unary /\ kind \notin linear \cup binary \cup reduction \cup rest2 \cup rest3
  BY Sections
<1>4. "LayerNorm" \in norm /\ "LayerNorm" \notin rest1 \cup image \cup attention \cup gather \cup rest3
  BY Sections
<1>5. /\ "ScaledDotProductAttention" \in attention
      /\ "ScaledDotProductAttention" \notin rest1 \cup norm \cup image \cup gather \cup rest3
  BY Sections
<1>6. "Gather" \in gather /\ "Gather" \notin rest1 \cup norm \cup image \cup attention \cup rest3
  BY Sections
<1>7. \A kind \in {"Reshape", "Transpose", "SliceByIndex", "ExpandDims", "Concat", "Split", "Squeeze"} :
         kind \in transform /\ kind \notin rest1 \cup rest2 \cup constexpr
  BY Sections DEF Utilities
<1>8. \A kind \in {"RMSNorm", "RoPETransform", "Const", "Identity"} : kind \notin rest1 \cup rest2 \cup rest3
  BY Sections DEF Utilities
<1> HIDE DEF linear, binary, unary, reduction, norm, image, attention, gather, transform, constexpr
<1>11. \A kind \in {"LinearProjection", "MatMul"} : check_op(kind, 0, family) = LinearSupport(kind)
  BY <1>0, <1>1, Zenon
<1>12. \A kind \in {"Add", "Mul", "Sub", "RealDiv"} :
          check_op(kind, 0, family) = BinarySupport(kind, family)
  BY <1>0, <1>2, Zenon
<1>13. \A kind \in {"Softmax", "Silu", "Gelu", "Relu", "Cast", "Rsqrt", "Tanh", "Sigmoid", "Exp", "Cos", "Sin"} :
          check_op(kind, 0, family) = UnarySupport(kind)
  BY <1>0, <1>3, Zenon
<1>14. check_op("LayerNorm", 0, family) = NormSupport("LayerNorm", family)
  BY <1>0, <1>4, Zenon
<1>15. check_op("ScaledDotProductAttention", 0, family) = AttentionSupport(family)
  BY <1>0, <1>5, Zenon
<1>16. check_op("Gather", 0, family) = GatherSupport("Gather", 0)
  BY <1>0, <1>6, Zenon
<1>17. \A kind \in {"Reshape", "Transpose", "SliceByIndex", "ExpandDims", "Concat", "Split", "Squeeze"} :
          check_op(kind, 0, family) = TransformSupport(kind)
  BY <1>0, <1>7, Zenon
<1>18. \A kind \in {"RMSNorm", "RoPETransform", "Const", "Identity"} :
          check_op(kind, 0, family) = UtilitySupport(kind)
  BY <1>0, <1>8, Zenon
<1> QED
  BY <1>11, <1>12, <1>13, <1>14, <1>15, <1>16, <1>17, <1>18

LEMMA BuildableIsCounted ==
    ASSUME NEW family \in Families, NEW kind \in Buildable(family)
    PROVE  Counted(check_op(kind, 0, family), family) \/ (kind = "RealDiv" /\ family <= 12)
<1>1. LinearSupport("LinearProjection") = Supported /\ LinearSupport("MatMul") = Supported
  BY DEF LinearSupport, SupportedIf
<1>2. /\ \A k \in {"Add", "Mul", "Sub"} : BinarySupport(k, family) = Supported
      /\ family <= 12 \/ BinarySupport("RealDiv", family) = Supported
  <2>1. \A k \in {"Add", "Mul", "Sub"} :
           BinarySupport(k, family)
             = SupportedIf(k \notin {"FloorDiv", "Mod", "LogicalAnd", "LogicalOr", "LogicalXor"})
    BY Zenon DEF BinarySupport
  <2>2. BinarySupport("RealDiv", family) = IF family <= 12 THEN FamilyGated(14) ELSE Supported
    BY Zenon DEF BinarySupport
  <2> QED
    BY <2>1, <2>2 DEF SupportedIf
<1>3. \A k \in {"Softmax", "Silu", "Gelu", "Relu", "Cast", "Rsqrt", "Tanh", "Sigmoid", "Exp", "Cos", "Sin"} :
         UnarySupport(k) = Supported
  BY DEF UnarySupport, SupportedIf
<1>4. supports_layernorm(family) => NormSupport("LayerNorm", family) = Supported
  BY DEF NormSupport
<1>5. supports_sdpa(family) => AttentionSupport(family) = Supported
  BY DEF AttentionSupport
<1>6. GatherSupport("Gather", 0) = Supported
  <2>1. GatherSupport("Gather", 0) = SupportedIf(0 >= 0)
    BY Zenon DEF GatherSupport
  <2> QED
    BY <2>1 DEF SupportedIf
<1>7. \A k \in {"Reshape", "Transpose", "SliceByIndex", "ExpandDims", "Concat", "Split", "Squeeze"} :
         TransformSupport(k) = Supported
  BY DEF TransformSupport, SupportedIf
<1>8. \A k \in {"RMSNorm", "RoPETransform", "Const", "Identity"} : UtilitySupport(k) = Supported
  <2> DEFINE refused == DOMAIN SirRandom \cup DOMAIN SirControl
             known == {"Const", "Identity", "Crop", "StateRead", "StateWrite", "RMSNorm", "RoPETransform",
                       "DecodeStep", "AttentionBlock", "Quantize", "Dequantize"}
  <2>1. \A k \in {"RMSNorm", "RoPETransform", "Const", "Identity"} : k \notin refused
    BY Sections
  <2>2. \A k : UtilitySupport(k) = CASE k \in refused -> NoSupport [] OTHER -> SupportedIf(k \in known)
    BY Zenon DEF UtilitySupport
  <2>3. \A k \in {"RMSNorm", "RoPETransform", "Const", "Identity"} : k \in known
    OBVIOUS
  <2> HIDE DEF refused, known
  <2>4. \A k \in {"RMSNorm", "RoPETransform", "Const", "Identity"} : UtilitySupport(k) = SupportedIf(k \in known)
    BY <2>1, <2>2, Zenon
  <2> QED
    BY <2>3, <2>4 DEF SupportedIf
<1>9. kind \in Everywhere \/ (kind = "LayerNorm" /\ supports_layernorm(family))
      \/ (kind = "ScaledDotProductAttention" /\ supports_sdpa(family))
  BY DEF Buildable
<1>10. check_op(kind, 0, family) = Supported \/ (kind = "RealDiv" /\ family <= 12)
  BY <1>1, <1>2, <1>3, <1>4, <1>5, <1>6, <1>7, <1>8, <1>9, Answers DEF Everywhere
<1> QED
  BY <1>10 DEF Counted

LEMMA BuildableHasEngine ==
    ASSUME NEW family \in Families,
           NEW kind \in Buildable(family) \ {"RMSNorm", "RoPETransform", "Const", "Gather"}
    PROVE  engine_for_op(IF kind = "LinearProjection" THEN "Linear" ELSE kind,
                         family_to_default_revision[family]) # Nothing
<1> DEFINE name == IF kind = "LinearProjection" THEN "Linear" ELSE kind
           revision == family_to_default_revision[family]
<1>1. revision \in Revisions /\ Family[revision] = family
  BY DEF family_to_default_revision, Families, Revisions, Family
<1>2. name \in NeuralEngine \cup ProcessingElement \cup TransposeEngine
  BY DEF Buildable, Everywhere, NeuralEngine, ProcessingElement, TransposeEngine
<1>3. base_engine(name) # Nothing
  BY <1>2 DEF base_engine, Nothing
<1>4. ~Overridden(name, family)
  BY DEF Overridden, Buildable, Everywhere
<1> HIDE DEF name, revision
<1>5. engine_for_op(name, revision) # Nothing
  BY <1>1, <1>3, <1>4 DEF engine_for_op
<1> QED
  BY <1>5 DEF name, revision

-----------------------------------------------------------------------------
(* What the tracer sees: no rotation on its own, and blocks whose heads have
   the dimension the configuration gives.                                     *)

Seen(op, dim) ==
    /\ op.type # "RopeTransform"
    /\ op.type = "AttentionBlock" => op.heads \in Nat /\ op.head_dim = dim

LEMMA SimplySeen ==
    ASSUME NEW dim, NEW type, type \notin {"RopeTransform", "AttentionBlock"}
    PROVE  Seen(Simple(type), dim)
BY DEF Seen, Simple

LEMMA ModulesSeen ==
    ASSUME NEW cfg, cfg.heads \in Nat, NEW call
    PROVE  Seen(map_module_call(call, cfg), HeadDim(cfg))
<1> DEFINE dim == HeadDim(cfg)
<1>1. \A bias : Seen([type |-> "Linear", has_bias |-> bias], dim)
  BY DEF Seen
<1>2. Seen(Simple("Embedding"), dim) /\ Seen(Simple("LayerNorm"), dim)
  BY SimplySeen
<1>3. \A epsilon : Seen([type |-> "RmsNorm", epsilon |-> epsilon], dim)
  BY DEF Seen
<1>4. Seen([type |-> "AttentionBlock", heads |-> cfg.heads, head_dim |-> HeadDim(cfg),
            has_qk_norm |-> FALSE], dim)
  BY DEF Seen
<1>5. \A act : Seen([type |-> "MlpBlock", activation |-> act], dim)
  BY DEF Seen
<1>6. Seen(Unknown, dim)
  BY DEF Seen, Unknown
<1> QED
  BY <1>1, <1>2, <1>3, <1>4, <1>5, <1>6, Zenon DEF map_module_call

LEMMA FunctionsSeen ==
    ASSUME NEW cfg, NEW call
    PROVE  Seen(map_function_call(call, cfg), HeadDim(cfg))
<1> DEFINE dim == HeadDim(cfg)
           found == {i \in DOMAIN func_map : func_map[i][1] \in call.says}
           type == func_map[Min(found)][2]
<1>1. found # {} => Min(found) \in found
  <2>1. DOMAIN func_map \in SUBSET Nat
    BY DEF func_map
  <2>2. found \in SUBSET Nat
    BY <2>1
  <2> HIDE DEF found
  <2> QED
    BY <2>2, LeastExists DEF Min
<1>2. \A i \in DOMAIN func_map : func_map[i][2] \notin {"RopeTransform", "AttentionBlock"}
  BY DEF func_map
<1>3. found # {} => type \notin {"RopeTransform", "AttentionBlock"}
  <2> HIDE DEF func_map
  <2> QED
    BY <1>1, <1>2
<1>4. map_function_call(call, cfg) =
        IF found = {} THEN Unknown
        ELSE IF type = "RmsNorm" THEN [type |-> type, epsilon |-> RmsEpsilon(cfg)]
        ELSE Simple(type)
  BY Zenon DEF map_function_call
<1> HIDE DEF found, type
<1>5. found # {} => Seen([type |-> type, epsilon |-> RmsEpsilon(cfg)], dim) /\ Seen(Simple(type), dim)
  BY <1>3, SimplySeen DEF Seen
<1>6. Seen(Unknown, dim)
  BY DEF Seen, Unknown
<1> QED
  BY <1>4, <1>5, <1>6

LEMMA MethodsSeen ==
    ASSUME NEW dim, NEW call
    PROVE  Seen(map_method_call(call), dim)
<1> DEFINE type == CASE call.method \in {"view", "reshape"} -> "Reshape"
                     [] call.method \in {"transpose", "permute"} -> "Transpose"
                     [] call.method \in {"contiguous", "size"} -> "Identity"
                     [] call.method \in {"float", "half", "to"} -> "Cast"
                     [] call.method = "unsqueeze" -> "ExpandDims"
                     [] call.method = "squeeze" -> "Squeeze"
                     [] call.method \in {"split", "chunk"} -> "Split"
                     [] call.method = "index_select" -> "IndexSelect"
                     [] OTHER -> "Unknown"
           Types == {"Reshape", "Transpose", "Identity", "Cast", "ExpandDims", "Squeeze", "Split", "IndexSelect",
                     "Unknown"}
<1>1. type \in Types
  BY Zenon
<1>2. map_method_call(call) =
        IF type = "Cast" THEN [type |-> type, known |-> call.method # "to"] ELSE Simple(type)
  BY Zenon DEF map_method_call
<1> HIDE DEF type
<1>3. \A known : type = "Cast" => Seen([type |-> type, known |-> known], dim)
  BY DEF Seen
<1>4. Seen(Simple(type), dim)
  BY <1>1, SimplySeen
<1> QED
  BY <1>2, <1>3, <1>4, Zenon

LEMMA FxSeen ==
    ASSUME NEW cfg, cfg.heads \in Nat, NEW node
    PROVE  Seen(map_fx_node_to_traced_op(node, cfg), HeadDim(cfg))
<1> DEFINE dim == HeadDim(cfg)
<1>1. Seen(Simple("Placeholder"), dim) /\ Seen(Simple("Output"), dim)
  BY SimplySeen
<1>2. Seen(map_module_call(node.call, cfg), dim)
  BY ModulesSeen
<1>3. Seen(map_function_call(node.call, cfg), dim) /\ Seen(map_method_call(node.call), dim)
  BY FunctionsSeen, MethodsSeen
<1>4. Seen(Unknown, dim)
  BY DEF Seen, Unknown
<1> QED
  BY <1>1, <1>2, <1>3, <1>4, Zenon DEF map_fx_node_to_traced_op

(* A graph of a model, traced at a sequence length. *)
GraphOf(g, m, seq) ==
    LET dim == HeadDim(_resolve_effective_config(m))
    IN  /\ g = [nodes |-> g.nodes, config |-> g.config, weights |-> g.weights,
                weight_name_map |-> g.weight_name_map, inputs |-> g.inputs, fallback |-> g.fallback]
        /\ \E S : g.nodes \in Seq(S)
        /\ \A i \in 1..Len(g.nodes) : Seen(g.nodes[i].op, dim)
        /\ \E known \in {0, dim} : g.config = [extract_model_config(m) EXCEPT !.head_dim = known]
        /\ g.inputs # <<>> /\ Len(g.inputs[1]) >= 2 /\ g.inputs[1][2] = seq

\* Numbers of heads and layers of a model, and its graph from torch.fx.
LEMMA FxGraph ==
    ASSUME NEW m, NEW cfg, cfg = _resolve_effective_config(m), cfg.heads \in Nat, NEW tried, NEW batch, NEW seq,
           NEW fx, NEW F, fx \in Seq(F)
    PROVE  GraphOf(trace_model_fx(m, fx, tried, batch, seq), m, seq)
<1> DEFINE g == trace_model_fx(m, fx, tried, batch, seq)
<1>1. /\ g = [nodes |-> g.nodes, config |-> g.config, weights |-> g.weights,
              weight_name_map |-> g.weight_name_map, inputs |-> g.inputs, fallback |-> g.fallback]
      /\ g.nodes = [i \in DOMAIN fx |-> FxNode(fx[i], cfg)]
      /\ g.config = extract_model_config(m)
      /\ g.inputs = _build_input_specs(tried, cfg, batch, seq)
  BY Zenon DEF trace_model_fx
<1> HIDE DEF g
<1>2. g.config = [extract_model_config(m) EXCEPT !.head_dim = HeadDim(cfg)]
  BY <1>1 DEF extract_model_config
<1>3. g.inputs # <<>> /\ Len(g.inputs[1]) >= 2 /\ g.inputs[1][2] = seq
  BY <1>1 DEF _build_input_specs
<1>4. \A node : FxNode(node, cfg).op = map_fx_node_to_traced_op(node, cfg)
  BY DEF FxNode, Node
<1>5. DOMAIN fx = 1..Len(fx) /\ Len(fx) \in Nat
  OBVIOUS
<1>6. g.nodes \in Seq({FxNode(fx[i], cfg) : i \in 1..Len(fx)}) /\ Len(g.nodes) = Len(fx)
  BY <1>1, <1>5
<1>7. \A i \in 1..Len(g.nodes) : Seen(g.nodes[i].op, HeadDim(cfg))
  BY <1>1, <1>4, <1>5, <1>6, FxSeen
<1> DEFINE N == {FxNode(fx[i], cfg) : i \in 1..Len(fx)}
<1>8. \E S : g.nodes \in Seq(S)
  <2>1. g.nodes \in Seq(N)
    BY <1>6
  <2> HIDE DEF N
  <2> QED
    BY <2>1
<1> QED
  BY <1>1, <1>2, <1>3, <1>7, <1>8 DEF GraphOf, g

(* The graph from the configuration. *)
SeenAll(nodes, dim) == \E S : nodes \in Seq(S) /\ \A x \in S : Seen(x.op, dim)

LEMMA SeenBy ==
    ASSUME NEW dim, NEW S, NEW nodes \in Seq(S), \A x \in S : Seen(x.op, dim)
    PROVE  SeenAll(nodes, dim)
BY Zenon DEF SeenAll

LEMMA SeenConcat ==
    ASSUME NEW dim, NEW s, NEW t, SeenAll(s, dim), SeenAll(t, dim)
    PROVE  SeenAll(s \o t, dim)
<1>1. PICK S : s \in Seq(S) /\ \A x \in S : Seen(x.op, dim)
  BY DEF SeenAll
<1>2. PICK T : t \in Seq(T) /\ \A x \in T : Seen(x.op, dim)
  BY DEF SeenAll
<1>3. s \in Seq(S \cup T) /\ t \in Seq(S \cup T)
  BY <1>1, <1>2
<1>4. s \o t \in Seq(S \cup T)
  BY <1>3
<1>5. \A x \in S \cup T : Seen(x.op, dim)
  BY <1>1, <1>2
<1> QED
  BY <1>4, <1>5, SeenBy

LEMMA SeenSome ==
    ASSUME NEW dim
    PROVE  /\ SeenAll(<<>>, dim)
           /\ \A a : Seen(a.op, dim) => SeenAll(<<a>>, dim)
           /\ \A a, b : Seen(a.op, dim) /\ Seen(b.op, dim) => SeenAll(<<a, b>>, dim)
           /\ \A a, b, c : Seen(a.op, dim) /\ Seen(b.op, dim) /\ Seen(c.op, dim) => SeenAll(<<a, b, c>>, dim)
<1>1. SeenAll(<<>>, dim)
  <2> DEFINE S == {}
  <2>1. <<>> \in Seq(S) /\ \A x \in S : Seen(x.op, dim)
    OBVIOUS
  <2> HIDE DEF S
  <2> QED
    BY <2>1, SeenBy
<1>2. ASSUME NEW a, Seen(a.op, dim) PROVE SeenAll(<<a>>, dim)
  <2> DEFINE S == {a}
  <2>1. <<a>> \in Seq(S) /\ \A x \in S : Seen(x.op, dim)
    BY <1>2
  <2> HIDE DEF S
  <2> QED
    BY <2>1, SeenBy
<1>3. ASSUME NEW a, NEW b, Seen(a.op, dim), Seen(b.op, dim) PROVE SeenAll(<<a, b>>, dim)
  <2> DEFINE S == {a, b}
  <2>1. <<a, b>> \in Seq(S) /\ \A x \in S : Seen(x.op, dim)
    BY <1>3
  <2> HIDE DEF S
  <2> QED
    BY <2>1, SeenBy
<1>4. ASSUME NEW a, NEW b, NEW c, Seen(a.op, dim), Seen(b.op, dim), Seen(c.op, dim)
      PROVE  SeenAll(<<a, b, c>>, dim)
  <2> DEFINE S == {a, b, c}
  <2>1. <<a, b, c>> \in Seq(S) /\ \A x \in S : Seen(x.op, dim)
    BY <1>4
  <2> HIDE DEF S
  <2> QED
    BY <2>1, SeenBy
<1> QED
  BY <1>1, <1>2, <1>3, <1>4

LEMMA SeenFlattened ==
    ASSUME NEW dim, NEW n \in Nat, NEW seqs, DOMAIN seqs = 1..n, seqs = [i \in 1..n |-> seqs[i]],
           \A i \in 1..n : SeenAll(seqs[i], dim)
    PROVE  SeenAll(FlattenSeq(seqs), dim)
<1> DEFINE Parts == UNION {{seqs[i][k] : k \in DOMAIN seqs[i]} : i \in 1..n}
           S == {x \in Parts : Seen(x.op, dim)}
<1>1. ASSUME NEW i \in 1..n PROVE seqs[i] \in Seq(S)
  <2>1. PICK T : seqs[i] \in Seq(T) /\ \A x \in T : Seen(x.op, dim)
    BY DEF SeenAll
  <2>2. \A k \in DOMAIN seqs[i] : seqs[i][k] \in S
    BY <2>1
  <2>3. DOMAIN seqs[i] = 1..Len(seqs[i]) /\ Len(seqs[i]) \in Nat
        /\ seqs[i] = [k \in 1..Len(seqs[i]) |-> seqs[i][k]]
    BY <2>1
  <2> HIDE DEF S
  <2> QED
    BY <2>2, <2>3
<1>2. seqs \in Seq(Seq(S))
  <2> HIDE DEF S
  <2> QED
    BY <1>1
<1>3. \A x \in S : Seen(x.op, dim)
  OBVIOUS
<1> HIDE DEF S
<1> QED
  BY <1>2, <1>3, Flattened, SeenBy

LEMMA SeenNode ==
    ASSUME NEW dim, NEW op, Seen(op, dim)
    PROVE  \A id, in, path, dims, dtype : Seen(Node(id, op, in, path, dims, dtype).op, dim)
BY DEF Node

LEMMA NormSeen ==
    ASSUME NEW dim, NEW id, NEW in, NEW path, NEW config, NEW seq
    PROVE  SeenAll(Norm(id, in, path, config, seq), dim)
<1>1. Seen([type |-> "RmsNorm", epsilon |-> config.layer_norm_epsilon], dim)
  BY DEF Seen
<1> QED
  BY <1>1, SeenNode, SeenSome DEF Norm

LEMMA LayerSeen ==
    ASSUME NEW config, config.heads \in Nat, NEW i, NEW prev, NEW features, NEW seq
    PROVE  SeenAll(FallbackLayer(i, prev, config, features, seq), config.head_dim)
<1> DEFINE dim == config.head_dim
           id(part) == <<"layer", i, part>>
           shape == <<1, seq, config.hidden>>
           normed == NormedBy(id("input_norm"), prev, config)
           attn == id("self_attn")
           normed2 == NormedBy(id("post_attn_norm"), attn, config)
           first == Norm(id("input_norm"), prev, Layer(i) \o <<"input_layernorm">>, config, seq)
           attention == [type |-> "AttentionBlock", heads |-> config.heads,
                         head_dim |-> config.head_dim, has_qk_norm |-> features.has_qk_norm]
           block == <<Node(attn, attention, <<normed, prev>>, Layer(i) \o <<"self_attn">>, shape, "fp16")>>
           second == Norm(id("post_attn_norm"), attn, Layer(i) \o <<"post_attention_layernorm">>, config, seq)
           mlp == [type |-> "MlpBlock", activation |-> config.hidden_act]
           last == <<Node(id("mlp"), mlp, <<normed2, attn>>, Layer(i) \o <<"mlp">>, shape, "fp16")>>
<1>1. Seen(attention, dim) /\ Seen(mlp, dim)
  BY DEF Seen
<1>2. SeenAll(first, dim) /\ SeenAll(second, dim)
  BY NormSeen
<1> HIDE DEF attention, mlp
<1>3. SeenAll(block, dim) /\ SeenAll(last, dim)
  BY <1>1, SeenNode, SeenSome
<1>4. FallbackLayer(i, prev, config, features, seq) = first \o block \o second \o last
  BY Zenon DEF FallbackLayer, attention, mlp
<1> HIDE DEF first, block, second, last, dim
<1>5. SeenAll(first \o block \o second \o last, dim)
  BY <1>2, <1>3, SeenConcat
<1> QED
  BY <1>4, <1>5 DEF dim

LEMMA HeadSeen ==
    ASSUME NEW dim, NEW config, NEW prev, NEW seq
    PROVE  SeenAll(FallbackHead(prev, config, seq), dim)
<1> DEFINE token == <<"hidden_state_last_token">>
           one == <<1, 1, config.vocab>>
           norm == Norm(<<"final_norm">>, prev, <<"model", "norm">>, config, seq)
           slice == [type |-> "Slice", begin |-> <<0, seq - 1, 0>>, end |-> <<1, seq, config.hidden>>]
           linear == [type |-> "Linear", has_bias |-> FALSE]
           rest == << Node(token, slice, <<NormedBy(<<"final_norm">>, prev, config)>>, <<"model", "norm">>,
                           <<1, 1, config.hidden>>, "fp16"),
                      Node(<<"lm_head">>, linear, <<token>>, <<"lm_head">>, one, "fp16"),
                      Node(<<"output">>, Simple("Output"), <<<<"lm_head">>>>, Nowhere, one, "fp16") >>
<1>1. Seen(slice, dim) /\ Seen(linear, dim) /\ Seen(Simple("Output"), dim)
  BY SimplySeen DEF Seen
<1>2. SeenAll(norm, dim)
  BY NormSeen
<1> HIDE DEF slice, linear
<1>3. SeenAll(rest, dim)
  BY <1>1, SeenNode, SeenSome
<1>4. FallbackHead(prev, config, seq) = norm \o rest
  BY Zenon DEF FallbackHead, slice, linear
<1> HIDE DEF norm, rest
<1> QED
  BY <1>2, <1>3, <1>4, SeenConcat

LEMMA FallbackGraph ==
    ASSUME NEW m, NEW cfg, cfg = _resolve_effective_config(m), cfg.heads \in Nat, cfg.layers \in Nat,
           NEW tried, NEW seq
    PROVE  GraphOf(build_fallback_graph(m, tried, seq), m, seq)
<1> DEFINE g == build_fallback_graph(m, tried, seq)
           config == extract_model_config(m)
           encdec == tried.class = "seq2seq_lm"
           inputs == FallbackInputs(config, encdec, seq)
           before(i) == IF i = 0 THEN <<"embed_tokens">> ELSE <<"layer", i - 1, "mlp">>
           layer(i) == FallbackLayer(i, before(i), config, discover_model_features(m), seq)
           layers == [i \in 1..config.layers |-> layer(i - 1)]
           embedding == <<FallbackEmbedding(config, encdec, seq)>>
           head == FallbackHead(before(config.layers), config, seq)
           dim == HeadDim(cfg)
<1>1. config.heads \in Nat /\ config.layers \in Nat /\ config.head_dim = dim
      /\ config = [config EXCEPT !.head_dim = dim]
  BY DEF extract_model_config
<1>2. /\ g = [nodes |-> g.nodes, config |-> g.config, weights |-> g.weights,
              weight_name_map |-> g.weight_name_map, inputs |-> g.inputs, fallback |-> g.fallback]
      /\ g.nodes = inputs \o embedding \o FlattenSeq(layers) \o head
      /\ g.config = config
      /\ g.inputs = [i \in DOMAIN inputs |-> inputs[i].dims]
  BY Zenon DEF build_fallback_graph
<1> HIDE DEF g, config
<1>3. SeenAll(inputs, dim)
  BY SimplySeen, SeenNode, SeenSome DEF FallbackInputs, Placeholder
<1>4. SeenAll(embedding, dim)
  BY SimplySeen, SeenNode, SeenSome DEF FallbackEmbedding
<1>5. SeenAll(FlattenSeq(layers), dim)
  <2>1. \A i : SeenAll(layer(i), dim)
    BY <1>1, LayerSeen
  <2> HIDE DEF layer
  <2> QED
    BY <1>1, <2>1, SeenFlattened
<1>6. SeenAll(head, dim)
  BY HeadSeen
<1>7. inputs # <<>> /\ DOMAIN inputs = 1..Len(inputs) /\ 1 \in DOMAIN inputs
      /\ inputs[1].dims \in {<<1, seq>>, <<1, seq, config.hidden>>}
  <2> DEFINE hidden == <<"encoder_hidden_states">>
             spec == <<1, seq, config.hidden>>
  <2>1. inputs = IF encdec
                 THEN << [id |-> hidden, op |-> Simple("Placeholder"), in |-> <<>>, path |-> Nowhere, dims |-> spec,
                          dtype |-> "fp16"],
                         Placeholder(<<"decoder_input_ids">>, <<1, seq>>, "int32") >>
                 ELSE << [id |-> <<"input_ids">>, op |-> Simple("Placeholder"), in |-> <<>>, path |-> Nowhere,
                          dims |-> <<1, seq>>, dtype |-> "int32"] >>
    BY DEF FallbackInputs, Placeholder, Node
  <2> HIDE DEF inputs, spec, hidden
  <2>2. inputs # <<>> /\ DOMAIN inputs = 1..Len(inputs) /\ 1 \in DOMAIN inputs
        /\ inputs[1].dims \in {<<1, seq>>, spec}
    <3>1. CASE encdec
      BY <2>1, <3>1
    <3>2. CASE ~encdec
      BY <2>1, <3>2
    <3> QED
      BY <3>1, <3>2
  <2> QED
    BY <2>2 DEF spec
<1> HIDE DEF inputs, embedding, layers, head
<1>8. g.inputs # <<>> /\ Len(g.inputs[1]) >= 2 /\ g.inputs[1][2] = seq
  <2>1. g.inputs[1] = inputs[1].dims /\ g.inputs # <<>>
    BY <1>2, <1>7
  <2> QED
    BY <1>7, <2>1
<1>9. SeenAll(g.nodes, dim)
  BY <1>2, <1>3, <1>4, <1>5, <1>6, SeenConcat
<1>10. (\E S : g.nodes \in Seq(S)) /\ \A i \in 1..Len(g.nodes) : Seen(g.nodes[i].op, dim)
  BY <1>9 DEF SeenAll
<1>11. \E known \in {0, dim} : g.config = [config EXCEPT !.head_dim = known]
  BY <1>1, <1>2
<1> HIDE DEF dim
<1> QED
  BY <1>2, <1>8, <1>10, <1>11, Zenon DEF GraphOf, g, config, dim

\* A saved trace may lack the parameters and the head dimension.
LEMMA SavedGraph ==
    ASSUME NEW m, NEW seq, NEW g, GraphOf(g, m, seq), NEW weights,
           NEW dim, dim = 0 \/ dim = g.config.head_dim
    PROVE  GraphOf([g EXCEPT !.weights = weights, !.config.head_dim = dim], m, seq)
<1> DEFINE full == HeadDim(_resolve_effective_config(m))
           config == extract_model_config(m)
           h == [g EXCEPT !.weights = weights, !.config.head_dim = dim]
<1>1. PICK known \in {0, full} : g.config = [config EXCEPT !.head_dim = known]
  BY DEF GraphOf
<1>2. config = [config EXCEPT !.head_dim = full] /\ config.head_dim = full
  BY DEF extract_model_config
<1>3. g.config.head_dim = known
  BY <1>1 DEF extract_model_config
<1>4. h.config = [config EXCEPT !.head_dim = dim]
  BY <1>1 DEF GraphOf, extract_model_config
<1> HIDE DEF config, full
<1>5. dim \in {0, full}
  BY <1>1, <1>3
<1>0. g = [nodes |-> g.nodes, config |-> g.config, weights |-> g.weights,
           weight_name_map |-> g.weight_name_map, inputs |-> g.inputs, fallback |-> g.fallback]
  BY DEF GraphOf
<1> DEFINE short == [g.config EXCEPT !.head_dim = dim]
<1>6. h = [nodes |-> g.nodes, config |-> short, weights |-> weights,
           weight_name_map |-> g.weight_name_map, inputs |-> g.inputs, fallback |-> g.fallback]
  <2>1. h = [[g EXCEPT !.weights = weights] EXCEPT !.config = short]
    BY <1>0
  <2> HIDE DEF short, h
  <2> QED
    BY <1>0, <2>1
<1> HIDE DEF short
<1>7. /\ h = [nodes |-> h.nodes, config |-> h.config, weights |-> h.weights,
              weight_name_map |-> h.weight_name_map, inputs |-> h.inputs, fallback |-> h.fallback]
      /\ h.nodes = g.nodes /\ h.inputs = g.inputs
  <2> HIDE DEF h
  <2> QED
    BY <1>6
<1> HIDE DEF h
<1> QED
  BY <1>4, <1>5, <1>7 DEF GraphOf, config, full, h

LEMMA GraphTraced ==
    ASSUME NEW m, NEW seq, NEW g, GraphOf(g, m, seq)
    PROVE  /\ Traced(g, head_dim(g))
           /\ \E S : g.nodes \in Seq(S)
           /\ g.inputs # <<>> /\ Len(g.inputs[1]) >= 2 /\ g.inputs[1][2] = seq
<1> DEFINE dim == HeadDim(_resolve_effective_config(m))
           told == {i \in DOMAIN g.nodes : g.nodes[i].op.type \in {"RopeTransform", "AttentionBlock"}}
<1>1. /\ \E S : g.nodes \in Seq(S)
      /\ \A i \in 1..Len(g.nodes) : Seen(g.nodes[i].op, dim)
      /\ g.config.head_dim \in {0, dim}
      /\ g.inputs # <<>> /\ Len(g.inputs[1]) >= 2 /\ g.inputs[1][2] = seq
  BY DEF GraphOf, extract_model_config
<1>2. DOMAIN g.nodes = 1..Len(g.nodes) /\ Len(g.nodes) \in Nat
  BY <1>1
<1>3. told # {} => Min(told) \in told
  <2>1. told \in SUBSET Nat
    BY <1>2
  <2> HIDE DEF told
  <2> QED
    BY <2>1, LeastExists DEF Min
<1>4. told # {} => head_dim(g) = dim
  <2>1. head_dim(g) = IF g.config.head_dim # 0 THEN g.config.head_dim
                      ELSE IF told # {} THEN g.nodes[Min(told)].op.head_dim
                      ELSE g.config.hidden \div g.config.heads
    BY DEF head_dim
  <2> QED
    BY <1>1, <1>2, <1>3, <2>1 DEF Seen
<1>5. ASSUME NEW i \in 1..Len(g.nodes) PROVE LaysOut(g.nodes[i], head_dim(g))
  <2>1. CASE i \in told
    BY <1>1, <1>4, <2>1 DEF Seen, LaysOut
  <2>2. CASE i \notin told
    BY <1>2, <2>2 DEF LaysOut
  <2> QED
    BY <2>1, <2>2
<1> QED
  BY <1>1, <1>5 DEF Traced

-----------------------------------------------------------------------------
(* From the target to the package: what the graph, the nodes and the prepared
   tables have in common.                                                     *)

PreparedPhases == {"prepared", "lowered", "emitted", "packed", "complete"}
BuiltPhases == {"built", "reported", "tabled", "rewritten", "resolved"} \cup PreparedPhases
LocatePhases == {"locate_1a", "locate_1b", "locate_2", "locate_3", "locate_4"}
GraphPhases == LocatePhases \cup {"traced", "named"} \cup BuiltPhases

HasTarget == \E family \in Families : Targeted(family)

GraphReady ==
    /\ Traced(graph, head_dim(graph))
    /\ graph.inputs # <<>> /\ Len(graph.inputs[1]) >= 2
    /\ (job.saved => job.saved_seq = job.seq) => graph.inputs[1][2] = job.seq

Fit == [kinds |-> Buildable(target_family), rows |-> graph.inputs[1][2], dim |-> head_dim(graph)]

IsSir(built) ==
    built = [failed |-> built.failed, nodes |-> built.nodes, inputs |-> built.inputs, outputs |-> built.outputs]

SirReady == IsSir(sir) /\ Noded(sir.nodes, Fit) /\ GraphReady

AllReady ==
    /\ SirReady
    /\ prepared.tables = ensure_tables_computed(job.seq, head_dim(graph))
    /\ prepared.decode_tables = ensure_tables_computed(actual_max_seq_len, head_dim(graph))
    /\ prepared.shapes = weight_shapes(job.seq, head_dim(graph))
    /\ prepared.decode_shapes = weight_shapes(actual_max_seq_len, head_dim(graph))

CompileInv ==
    /\ IsJob(job)
    /\ phase = "saved" => job.saved
    /\ phase \notin {"target", "failed"} => HasTarget
    /\ phase \in GraphPhases => GraphReady
    /\ phase \in BuiltPhases => SirReady
    /\ phase \in PreparedPhases \/ prepared # Unprepared \/ package # <<>> => AllReady
    /\ phase \in PreparedPhases \cup {"failed"} \/ (prepared = Unprepared /\ package = <<>>)
    /\ package \in {<<>>, <<Embedding>>, <<Embedding, decode_step>>}
    /\ GatedOpsAreDecomposed

LEMMA TargetIsKnown == ASSUME HasTarget PROVE target_family \in Families
<1> DEFINE P(family) == Targeted(family)
<1>1. \E family \in Families : P(family)
  BY DEF HasTarget
<1>2. target_family = CHOOSE family \in Families : P(family)
  BY DEF target_family
<1> HIDE DEF P
<1> QED
  BY <1>1, <1>2

(* What depends on the job, the graph, the nodes, the tables and the functions
   stays with them.                                                           *)
LEMMA ReadyKeeps ==
    /\ UNCHANGED job => (HasTarget' <=> HasTarget) /\ target_family' = target_family
    /\ UNCHANGED <<job, graph>> => (GraphReady' <=> GraphReady)
    /\ UNCHANGED <<job, graph, sir>> => (SirReady' <=> SirReady)
    /\ UNCHANGED <<job, graph, sir, prepared>> =>
           (AllReady' <=> AllReady) /\ Embedding' = Embedding /\ decode_step' = decode_step
    /\ UNCHANGED <<job, report>> => (GatedOpsAreDecomposed' <=> GatedOpsAreDecomposed)
<1>1. UNCHANGED job => (HasTarget' <=> HasTarget) /\ target_family' = target_family
  BY DEF HasTarget, target_family, Targeted
<1>2. UNCHANGED <<job, graph>> => (GraphReady' <=> GraphReady)
  BY DEF GraphReady
<1>3. UNCHANGED <<job, graph, sir>> => Fit' = Fit /\ (SirReady' <=> SirReady)
  BY <1>1, <1>2 DEF Fit, SirReady
<1>4. UNCHANGED <<job, graph, sir, prepared>> => (AllReady' <=> AllReady)
  <2>1. UNCHANGED <<job, graph, sir>> => rope_tables_refs' = rope_tables_refs
    BY DEF rope_tables_refs
  <2>2. UNCHANGED job => actual_max_seq_len' = actual_max_seq_len
    BY DEF actual_max_seq_len
  <2>3. UNCHANGED <<job, graph, sir>> =>
            /\ ensure_tables_computed(job.seq, head_dim(graph))' = ensure_tables_computed(job.seq, head_dim(graph))
            /\ ensure_tables_computed(actual_max_seq_len, head_dim(graph))'
                   = ensure_tables_computed(actual_max_seq_len, head_dim(graph))
    BY <2>1, <2>2 DEF ensure_tables_computed
  <2>4. UNCHANGED <<job, graph, sir>> =>
            /\ weight_shapes(job.seq, head_dim(graph))' = weight_shapes(job.seq, head_dim(graph))
            /\ weight_shapes(actual_max_seq_len, head_dim(graph))' = weight_shapes(actual_max_seq_len, head_dim(graph))
    BY <2>1, <2>2 DEF weight_shapes
  <2> QED
    BY <1>3, <2>1, <2>2, <2>3, <2>4 DEF AllReady
<1>5. UNCHANGED <<job, graph, sir, prepared>> => Embedding' = Embedding /\ decode_step' = decode_step
  BY DEF Embedding, decode_step, embedding_weights, embedding_tables, rope_tables_refs
<1>6. UNCHANGED <<job, report>> => (GatedOpsAreDecomposed' <=> GatedOpsAreDecomposed)
  BY <1>1 DEF GatedOpsAreDecomposed
<1> QED
  BY <1>1, <1>2, <1>3, <1>4, <1>5, <1>6

\* The steps that change none of these.
LEMMA QuietKeeps ==
    ASSUME CompileInv, UNCHANGED <<job, graph, sir, report, prepared, package>>,
           \/ phase' = phase \/ phase' = "failed"
           \/ phase \in {"target", "load"} /\ phase' = "saved" /\ job.saved /\ HasTarget
           \/ phase' \in {"load", "trace"} /\ HasTarget /\ phase \notin PreparedPhases \cup {"failed"}
           \/ phase \in GraphPhases \ PreparedPhases /\ phase' \in LocatePhases \cup {"traced", "named"}
           \/ phase \in BuiltPhases \ PreparedPhases /\ phase' \in BuiltPhases \ PreparedPhases
           \/ phase \in PreparedPhases /\ phase' \in PreparedPhases
    PROVE  CompileInv'
<1> USE DEF PreparedPhases, BuiltPhases, LocatePhases, GraphPhases
<1>1. IsJob(job)' /\ (phase' = "saved" => job'.saved)
  BY DEF CompileInv
<1>2. phase' \notin {"target", "failed"} => HasTarget'
  BY ReadyKeeps DEF CompileInv
<1>3. phase' \in GraphPhases => GraphReady'
  BY ReadyKeeps DEF CompileInv
<1>4. phase' \in BuiltPhases => SirReady'
  BY ReadyKeeps DEF CompileInv
<1>5. phase' \in PreparedPhases \/ prepared' # Unprepared \/ package' # <<>> => AllReady'
  BY ReadyKeeps DEF CompileInv
<1>6. phase' \in PreparedPhases \cup {"failed"} \/ (prepared' = Unprepared /\ package' = <<>>)
  BY DEF CompileInv
<1>7. package' \in {<<>>, <<Embedding'>>, <<Embedding', decode_step'>>}
  BY ReadyKeeps DEF CompileInv
<1>8. GatedOpsAreDecomposed'
  BY ReadyKeeps DEF CompileInv
<1> QED
  BY <1>1, <1>2, <1>3, <1>4, <1>5, <1>6, <1>7, <1>8 DEF CompileInv, Unprepared

LEMMA QuietSteps ==
    ASSUME CompileInv,
           \/ ParseTarget \/ LoadModel \/ LoadFails \/ LoadTraceFails \/ TracerFails \/ Evict
           \/ SnapshotLocally \/ Download \/ DownloadOffline \/ ScanCache \/ ScanLocal \/ WalkCache
           \/ ResolveArchitecture \/ Rewrite \/ ResolveWeights \/ Lower \/ ValidatePackage \/ WriteArtifact
           \/ UNCHANGED vars
    PROVE  CompileInv'
<1> DEFINE same == UNCHANGED <<job, graph, sir, report, prepared, package>>
<1> USE DEF PreparedPhases, BuiltPhases, LocatePhases, GraphPhases
<1>1. CASE ParseTarget
  <2>1. same /\ phase = "target"
    BY <1>1 DEF ParseTarget, tracer, compiler
  <2>2. IF HasTarget THEN phase' = (IF job.saved THEN "saved" ELSE "load") ELSE phase' = "failed"
    BY <1>1, Zenon DEF ParseTarget, HasTarget, Goto, Fail
  <2> QED
    BY <2>1, <2>2, QuietKeeps
<1>2. CASE LoadModel \/ LoadFails
  <2>1. same /\ phase = "load" /\ phase' \in {"load", "trace", "failed"}
    BY <1>2 DEF LoadModel, LoadFails, tracer, compiler, Goto, Fail
  <2>2. HasTarget
    BY <2>1 DEF CompileInv
  <2> QED
    BY <2>1, <2>2, QuietKeeps
<1>3. CASE LoadTraceFails \/ TracerFails
  <2>1. same /\ phase' = "failed"
    BY <1>3 DEF LoadTraceFails, TracerFails, tracer, compiler, Goto, Fail
  <2> QED
    BY <2>1, QuietKeeps
<1>4. CASE Evict \/ UNCHANGED vars
  <2>1. same /\ phase' = phase
    BY <1>4 DEF Evict, tracer, compiler, vars
  <2> QED
    BY <2>1, QuietKeeps
<1>5. CASE SnapshotLocally \/ Download \/ DownloadOffline \/ ScanCache \/ ScanLocal \/ WalkCache
  <2>1. /\ phase \in LocatePhases
        /\ \E found : \E next \in LocatePhases \cup {"traced"} : Locate(found, next)
    <3>1. AfterDownload \in LocatePhases
      BY DEF AfterDownload
    <3> HIDE DEF LocatePhases
    <3>2. LocatePhases = {"locate_1a", "locate_1b", "locate_2", "locate_3", "locate_4"}
      BY DEF LocatePhases
    <3> QED
      BY <1>5, <3>1, <3>2 DEF SnapshotLocally, Download, DownloadOffline, ScanCache, ScanLocal, WalkCache
  <2>2. same /\ phase' \in LocatePhases \cup {"traced"}
    BY <2>1 DEF Locate, Goto, compiler
  <2> QED
    BY <2>1, <2>2, QuietKeeps
<1>6. CASE ResolveArchitecture
  <2>1. same /\ phase = "traced" /\ phase' \in {"named", "failed"}
    BY <1>6 DEF ResolveArchitecture, tracer, compiler, Goto, Fail
  <2> QED
    BY <2>1, QuietKeeps
<1>7. CASE Rewrite \/ ResolveWeights
  <2>1. same /\ phase \in {"tabled", "rewritten"} /\ phase' \in {"rewritten", "resolved", "failed"}
    BY <1>7 DEF Rewrite, ResolveWeights, MayFail, tracer, compiler, Goto, Fail
  <2> QED
    BY <2>1, QuietKeeps
<1>8. CASE Lower \/ ValidatePackage \/ WriteArtifact
  <2>1. same /\ phase \in PreparedPhases /\ phase' \in PreparedPhases \cup {"failed"}
    BY <1>8 DEF Lower, ValidatePackage, WriteArtifact, MayFail, tracer, compiler, Goto, Fail
  <2> QED
    BY <2>1, QuietKeeps
<1> QED
  BY <1>1, <1>2, <1>3, <1>4, <1>5, <1>6, <1>7, <1>8

(* A graph of the job's model, at a sequence length. *)
LEMMA GraphIsReady ==
    ASSUME NEW seq, GraphOf(graph, job.model, seq), (job.saved => job.saved_seq = job.seq) => seq = job.seq
    PROVE  GraphReady
BY GraphTraced DEF GraphReady

LEMMA JobGraphs ==
    ASSUME IsJob(job), NEW tried, NEW batch, NEW seq
    PROVE  /\ GraphOf(build_fallback_graph(job.model, tried, seq), job.model, seq)
           /\ GraphOf(trace_model_fx(job.model, job.fx, tried, batch, seq), job.model, seq)
<1> DEFINE cfg == _resolve_effective_config(job.model)
<1>1. cfg.heads \in Nat /\ cfg.layers \in Nat
  BY DEF IsJob, _resolve_effective_config
<1>2. job.fx \in Seq(Range(job.fx))
  BY DEF IsJob
<1> QED
  BY <1>1, <1>2, FallbackGraph, FxGraph

LEMMA TracingKeeps ==
    ASSUME CompileInv, TraceSymbolically \/ TraceStructurally \/ load_pre_traced
    PROVE  CompileInv'
<1> USE DEF PreparedPhases, BuiltPhases, LocatePhases, GraphPhases
<1>1. /\ UNCHANGED <<job, sir, report, prepared, package>>
      /\ phase \in {"trace", "saved"} /\ phase' \in {"locate_1a", "traced", "failed"}
      /\ phase' = "failed" => UNCHANGED graph
  BY DEF TraceSymbolically, TraceStructurally, load_pre_traced, compiler, Goto, Fail
<1>2. CASE phase' = "failed"
  BY <1>1, <1>2, QuietKeeps
<1>3. CASE phase' # "failed"
  <2>1. \E seq : /\ GraphOf(graph', job.model, seq)
                 /\ (job.saved => job.saved_seq = job.seq) => seq = job.seq
    <3>0. IsJob(job)
      BY DEF CompileInv
    <3>1. CASE TraceSymbolically \/ TraceStructurally
      <4>1. \/ graph' = trace_model_fx(job.model, job.fx, Trying, job.batch, job.seq)
            \/ graph' = build_fallback_graph(job.model, Trying, job.seq)
        BY <1>3, <3>1 DEF TraceSymbolically, TraceStructurally, Goto, Fail
      <4> QED
        BY <3>0, <4>1, JobGraphs
    <3>2. CASE load_pre_traced
      <4> DEFINE full == {build_fallback_graph(job.model, Causal, job.saved_seq),
                          trace_model_fx(job.model, job.fx, Causal, job.batch, job.saved_seq)}
                 short(g, known, sized) == [g EXCEPT !.weights = IF known THEN @ ELSE {},
                                                     !.config.head_dim = IF sized THEN @ ELSE 0]
      <4>0. SavedGraphs = {short(g, known, sized) : g \in full, known \in BOOLEAN, sized \in BOOLEAN}
        BY DEF SavedGraphs
      <4> HIDE DEF full, short
      <4>1. PICK g \in full, known \in BOOLEAN, sized \in BOOLEAN : graph' = short(g, known, sized)
        BY <3>2, <4>0 DEF load_pre_traced
      <4>2. GraphOf(g, job.model, job.saved_seq)
        BY <3>0, <4>1, JobGraphs DEF full
      <4>3. GraphOf(graph', job.model, job.saved_seq)
        BY <4>1, <4>2, SavedGraph DEF short
      <4>4. job.saved
        BY <3>2 DEF load_pre_traced, CompileInv
      <4> QED
        BY <4>3, <4>4
    <3> QED
      BY <3>1, <3>2
  <2>2. GraphReady'
    BY <1>1, <2>1, GraphTraced DEF GraphReady
  <2>3. HasTarget' /\ GatedOpsAreDecomposed' /\ IsJob(job') /\ prepared' = Unprepared /\ package' = <<>>
    BY <1>1, ReadyKeeps DEF CompileInv
  <2> QED
    BY <1>1, <1>3, <2>2, <2>3 DEF CompileInv, Unprepared
<1> QED
  BY <1>2, <1>3

LEMMA NodedEach ==
    ASSUME NEW fit, NEW nodes, Noded(nodes, fit)
    PROVE  /\ \A i \in DOMAIN nodes : OfKind(nodes[i], fit)
           /\ DOMAIN nodes = 1..Len(nodes) /\ Len(nodes) \in Nat
BY DEF Noded

LEMMA BuildKeeps == ASSUME CompileInv, BuildSir PROVE CompileInv'
<1> USE DEF PreparedPhases, BuiltPhases, LocatePhases, GraphPhases
<1>1. /\ phase = "named" /\ UNCHANGED <<job, graph, report, prepared, package>>
      /\ sir' = build_sir_from_trace(graph, target_family)
      /\ phase' \in {"built", "failed"}
  BY DEF BuildSir, Goto, tracer
<1>2. HasTarget /\ GraphReady /\ prepared = Unprepared /\ package = <<>> /\ IsJob(job) /\ GatedOpsAreDecomposed
  BY <1>1 DEF CompileInv
<1>3. Noded(sir'.nodes, Fit)
  <2>1. Fit.kinds = Buildable(target_family) /\ Fit.rows = graph.inputs[1][2] /\ Fit.dim = head_dim(graph)
    BY DEF Fit
  <2>2. Fit.rows = IF graph.inputs # <<>> /\ Len(graph.inputs[1]) >= 2 THEN graph.inputs[1][2] ELSE 32
    BY <1>2, <2>1 DEF GraphReady
  <2>3. Traced(graph, Fit.dim)
    BY <1>2, <2>1 DEF GraphReady
  <2> QED
    BY <1>1, <2>1, <2>2, <2>3, SirKinds
<1>4. Fit' = Fit /\ GraphReady' /\ HasTarget' /\ GatedOpsAreDecomposed'
  BY <1>1, <1>2, ReadyKeeps DEF Fit
<1>5. IsSir(sir')
  BY <1>1 DEF IsSir, build_sir_from_trace
<1>6. SirReady'
  BY <1>3, <1>4, <1>5 DEF SirReady
<1> QED
  BY <1>1, <1>2, <1>4, <1>6 DEF CompileInv, Unprepared

(* The report on kinds that are built. *)
LEMMA ReportIsGood ==
    ASSUME NEW family \in Families, NEW kinds,
           \A k \in kinds : k.axis = 0 /\ k.kind \in Buildable(family), NEW ane_only
    PROVE  LET made == validate_sir(kinds, family, ane_only)
           IN  /\ made.violations \subseteq IF family <= 12 THEN {"RealDiv"} ELSE {}
               /\ \A kind \in made.ane_supported : kind \in Buildable(family)
<1> DEFINE of(k) == check_op(k.kind, k.axis, family)
           violations == {k \in kinds : ~Counted(of(k), family)}
           made == validate_sir(kinds, family, ane_only)
<1>1. /\ made.violations = {k.kind : k \in violations}
      /\ made.ane_supported = {k.kind : k \in kinds \ violations}
  BY DEF validate_sir
<1>2. \A k \in violations : k.kind = "RealDiv" /\ family <= 12
  BY BuildableIsCounted
<1> HIDE DEF made
<1>3. made.violations \subseteq IF family <= 12 THEN {"RealDiv"} ELSE {}
  BY <1>1, <1>2
<1>4. \A kind \in made.ane_supported : kind \in Buildable(family)
  BY <1>1
<1> QED
  BY <1>3, <1>4 DEF made

LEMMA ReportKeeps == ASSUME CompileInv, Validate PROVE CompileInv'
<1> USE DEF PreparedPhases, BuiltPhases, LocatePhases, GraphPhases
<1>1. /\ phase = "built" /\ phase' = "reported" /\ UNCHANGED <<job, graph, sir, prepared, package>>
      /\ report' = validate_sir(ReportKinds, target_family, job.ane_only)
  BY DEF Validate, Goto, tracer
<1>2. HasTarget /\ SirReady /\ GraphReady /\ prepared = Unprepared /\ package = <<>> /\ IsJob(job)
  BY <1>1 DEF CompileInv
<1>3. target_family \in Families /\ target_family' = target_family
  BY <1>1, <1>2, TargetIsKnown, ReadyKeeps
<1>4. \A k \in ReportKinds : k.axis = 0 /\ k.kind \in Buildable(target_family)
  <2>1. \A i \in DOMAIN sir.nodes : sir.nodes[i].op.kind \in Buildable(target_family)
    BY <1>2, NodedEach DEF SirReady, OfKind, Fit
  <2> QED
    BY <2>1 DEF ReportKinds
<1>5. /\ report'.violations \subseteq IF target_family <= 12 THEN {"RealDiv"} ELSE {}
      /\ \A kind \in report'.ane_supported : kind \in Buildable(target_family)
  BY <1>1, <1>3, <1>4, ReportIsGood
<1>6. GatedOpsAreDecomposed'
  BY <1>3, <1>5, BuildableHasEngine DEF GatedOpsAreDecomposed
<1>7. SirReady' /\ GraphReady' /\ HasTarget'
  BY <1>1, <1>2, ReadyKeeps
<1> QED
  BY <1>1, <1>2, <1>6, <1>7 DEF CompileInv, Unprepared

(* The names of the sets of tables: one, if anything rotates. *)
LEMMA RefsAreShared == ASSUME SirReady PROVE rope_tables_refs \subseteq {Shared}
<1>1. \A i \in DOMAIN sir.nodes : sir.nodes[i].op.kind = "RoPETransform" => sir.nodes[i].op.attr = <<Shared>>
  BY NodedEach DEF SirReady, OfKind
<1> QED
  BY <1>1 DEF rope_tables_refs

LEMMA SharedSequence ==
    ASSUME NEW refs, refs \subseteq {Shared}
    PROVE  SetToSeq(refs) \in Seq({Shared})
<1> DEFINE n == Cardinality(refs)
           Good(f) == f \in [1..n -> refs] /\ IsInjective(f)
<1>1. \E f : Good(f)
  <2>1. CASE refs = {}
    <3>1. n = 0
      BY <2>1, FS_EmptySet
    <3> DEFINE f == [i \in 1..0 |-> Shared]
    <3>2. Good(f)
      BY <2>1, <3>1 DEF IsInjective
    <3> HIDE DEF Good, f
    <3> QED
      BY <3>2
  <2>2. CASE refs = {Shared}
    <3>1. n = 1
      BY <2>2, FS_Singleton
    <3> DEFINE f == [i \in 1..1 |-> Shared]
    <3>2. Good(f)
      BY <2>2, <3>1 DEF IsInjective
    <3> HIDE DEF Good, f
    <3> QED
      BY <3>2
  <2> QED
    BY <2>1, <2>2
<1>2. n \in Nat
  <2>1. refs = {} \/ refs = {Shared}
    OBVIOUS
  <2> QED
    BY <2>1, FS_EmptySet, FS_Singleton
<1>3. SetToSeq(refs) = CHOOSE f \in [1..n -> refs] : IsInjective(f)
  BY DEF SetToSeq
<1>4. SetToSeq(refs) \in [1..n -> refs]
  BY <1>1, <1>3
<1> QED
  BY <1>2, <1>4

LEMMA TablesKeep == ASSUME CompileInv, StaticTables PROVE CompileInv'
<1> USE DEF PreparedPhases, BuiltPhases, LocatePhases, GraphPhases
<1>1. /\ phase = "reported" /\ phase' = "tabled" /\ UNCHANGED <<job, graph, report, prepared, package>>
      /\ sir' = [sir EXCEPT !.nodes = run_static_tables_pass]
  BY DEF StaticTables, Goto, tracer
<1>2. HasTarget /\ SirReady /\ GraphReady /\ prepared = Unprepared /\ package = <<>> /\ IsJob(job)
      /\ GatedOpsAreDecomposed
  BY <1>1 DEF CompileInv
<1>3. Noded(run_static_tables_pass, Fit)
  <2> DEFINE const(table, ref) ==
                 [id |-> <<"static", table, ref>>, op |-> Op("Const", <<>>, NoWeight, <<table, ref>>),
                  name |-> <<table, <<>>, ref>>, from |-> <<"static">>]
             refs == SetToSeq(rope_tables_refs)
             consts == [r \in DOMAIN refs |-> [t \in DOMAIN Linear |-> const(Linear[t], refs[r])]]
             N == {const(table, Shared) : table \in Tables}
  <2>1. run_static_tables_pass = FlattenSeq(consts) \o sir.nodes
    BY Zenon DEF run_static_tables_pass
  <2>2. refs \in Seq({Shared})
    BY <1>2, RefsAreShared, SharedSequence
  <2> HIDE DEF refs
  <2>3. \A r \in DOMAIN refs : [t \in DOMAIN Linear |-> const(Linear[t], refs[r])] \in Seq(N)
    <3>1. \A t \in DOMAIN Linear : Linear[t] \in Tables
      BY DEF Linear, Tables
    <3>2. DOMAIN Linear = 1..4
      BY DEF Linear
    <3>3. \A r \in DOMAIN refs : refs[r] = Shared
      BY <2>2
    <3> HIDE DEF const
    <3> QED
      BY <3>1, <3>2, <3>3
  <2>4. consts \in Seq(Seq(N))
    <3> HIDE DEF N, const
    <3> QED
      BY <2>2, <2>3
  <2> HIDE DEF consts
  <2>5. FlattenSeq(consts) \in Seq(N)
    <3> HIDE DEF N
    <3> QED
      BY <2>4, Flattened
  <2>6. \A x \in N : x = [id |-> x.id, op |-> x.op, name |-> x.name, from |-> x.from] /\ OfKind(x, Fit)
    <3>1. "Const" \in Fit.kinds
      BY DEF Fit, Buildable, Everywhere
    <3>2. Tables \cap Laying = {}
      BY DEF Tables, Laying
    <3> SUFFICES ASSUME NEW table \in Tables
                 PROVE  /\ const(table, Shared) = [id |-> const(table, Shared).id, op |-> const(table, Shared).op,
                                                   name |-> const(table, Shared).name,
                                                   from |-> const(table, Shared).from]
                        /\ OfKind(const(table, Shared), Fit)
      OBVIOUS
    <3> QED
      BY <3>1, <3>2 DEF OfKind, Op
  <2>7. Noded(FlattenSeq(consts), Fit)
    <3> HIDE DEF N
    <3> QED
      BY <2>5, <2>6, Zenon DEF Noded
  <2>8. Noded(sir.nodes, Fit)
    BY <1>2 DEF SirReady
  <2> QED
    BY <2>1, <2>7, <2>8, NodedConcat
<1>4. Fit' = Fit /\ GraphReady' /\ HasTarget' /\ GatedOpsAreDecomposed'
  BY <1>1, <1>2, ReadyKeeps DEF Fit
<1>5. sir'.nodes = run_static_tables_pass /\ IsSir(sir')
  BY <1>1, <1>2 DEF SirReady, IsSir
<1>6. SirReady'
  BY <1>3, <1>4, <1>5 DEF SirReady
<1> QED
  BY <1>1, <1>2, <1>4, <1>6 DEF CompileInv, Unprepared

LEMMA PrepareKeeps == ASSUME CompileInv, Prepare PROVE CompileInv'
<1> USE DEF PreparedPhases, BuiltPhases, LocatePhases, GraphPhases
<1> DEFINE dim == head_dim(graph)
           inputs == [id \in sir.inputs |-> InputShape(id)]
           tables(seq) == ensure_tables_computed(seq, dim)
           shapes(seq) == weight_shapes(seq, dim)
<1>1. /\ phase = "resolved" /\ phase' = "prepared" /\ UNCHANGED <<job, graph, sir, report, package>>
      /\ prepared' = [inputs |-> inputs, tables |-> tables(job.seq),
                      decode_tables |-> tables(actual_max_seq_len), shapes |-> shapes(job.seq),
                      decode_shapes |-> shapes(actual_max_seq_len)]
  BY Zenon DEF Prepare, Goto, tracer
<1>2. HasTarget /\ SirReady /\ GraphReady /\ prepared = Unprepared /\ package = <<>> /\ IsJob(job)
      /\ GatedOpsAreDecomposed
  BY <1>1 DEF CompileInv
<1>3. SirReady' /\ GraphReady' /\ HasTarget' /\ GatedOpsAreDecomposed'
  BY <1>1, <1>2, ReadyKeeps
<1> HIDE DEF inputs, tables, shapes, dim
<1>4. /\ prepared'.tables = tables(job.seq) /\ prepared'.decode_tables = tables(actual_max_seq_len)
      /\ prepared'.shapes = shapes(job.seq) /\ prepared'.decode_shapes = shapes(actual_max_seq_len)
  BY <1>1
<1>5. /\ ensure_tables_computed(job.seq, head_dim(graph))' = tables(job.seq)
      /\ ensure_tables_computed(actual_max_seq_len, head_dim(graph))' = tables(actual_max_seq_len)
      /\ weight_shapes(job.seq, head_dim(graph))' = shapes(job.seq)
      /\ weight_shapes(actual_max_seq_len, head_dim(graph))' = shapes(actual_max_seq_len)
  BY <1>1 DEF tables, shapes, dim, ensure_tables_computed, weight_shapes, actual_max_seq_len, rope_tables_refs
<1>6. AllReady'
  BY <1>3, <1>4, <1>5 DEF AllReady
<1> QED
  BY <1>1, <1>2, <1>3, <1>6 DEF CompileInv, Unprepared

LEMMA EmitKeeps == ASSUME CompileInv, EmitMultiFunction \/ EmitSingleFunction PROVE CompileInv'
<1> USE DEF PreparedPhases, BuiltPhases, LocatePhases, GraphPhases
<1>1. /\ phase = "lowered" /\ UNCHANGED <<job, graph, sir, report, prepared>>
      /\ \/ phase' = "failed" /\ UNCHANGED package
         \/ phase' = "emitted" /\ package' \in {<<Embedding>>, <<Embedding, decode_step>>}
  BY DEF EmitMultiFunction, EmitSingleFunction, Emit, Goto, Fail, tracer, compiler
<1>2. CASE phase' = "failed" /\ UNCHANGED package
  BY <1>1, <1>2, QuietKeeps
<1>3. CASE phase' = "emitted" /\ package' \in {<<Embedding>>, <<Embedding, decode_step>>}
  <2>1. HasTarget /\ AllReady /\ SirReady /\ GraphReady /\ IsJob(job) /\ GatedOpsAreDecomposed
    BY <1>1 DEF CompileInv
  <2>2. HasTarget' /\ AllReady' /\ SirReady' /\ GraphReady' /\ GatedOpsAreDecomposed'
        /\ Embedding' = Embedding /\ decode_step' = decode_step
    BY <1>1, <2>1, ReadyKeeps
  <2> QED
    BY <1>1, <1>3, <2>1, <2>2 DEF CompileInv
<1> QED
  BY <1>1, <1>2, <1>3

LEMMA CompileStep == ASSUME CompileInv, [Next]_vars PROVE CompileInv'
BY QuietSteps, TracingKeeps, BuildKeeps, ReportKeeps, TablesKeep, PrepareKeeps, EmitKeeps DEF Next

LEMMA CompileInit == ASSUME Init PROVE CompileInv
<1>1. IsJob(job)
  BY JobsAssumption DEF Init
<1> QED
  BY <1>1 DEF Init, CompileInv, PreparedPhases, BuiltPhases, LocatePhases, GraphPhases, GatedOpsAreDecomposed

LEMMA CompileAlways == Spec => []CompileInv
<1>1. Init => CompileInv
  BY CompileInit
<1>2. CompileInv /\ [Next]_vars => CompileInv'
  BY CompileStep
<1> QED
  BY <1>1, <1>2, PTL DEF Spec

(* What needs a converter of its own is built only for the families that have
   it (sir_build.rs), so the report of the compiler (versioned.rs) finds
   nothing in a graph that falls back, but the division of the two oldest
   families, and what it counts as supported an engine takes
   (ane_placement.rs), for every target and whatever the tracer saw.          *)
THEOREM GatedOpsAreAlwaysDecomposed == Spec => []GatedOpsAreDecomposed
<1>1. CompileInv => GatedOpsAreDecomposed
  BY DEF CompileInv
<1> QED
  BY <1>1, CompileAlways, PTL

-----------------------------------------------------------------------------
(* The tables. *)

LEMMA TableNames ==
    /\ Range(Linear) = {"sin_tab", "cos_tab", "arange_tab", "arange_fp16_tab"}
    /\ Range(Linear \o Quadratic) = Tables
<1>1. Range(Linear) = {"sin_tab", "cos_tab", "arange_tab", "arange_fp16_tab"}
  BY DEF Range, Linear
<1>2. Range(Quadratic) = {"eye_tab", "mask_tab"}
  BY DEF Range, Quadratic
<1>3. Linear \in Seq(Tables) /\ Quadratic \in Seq(Tables)
  <2>1. \A a, b, c, d \in Tables : <<a, b, c, d>> \in Seq(Tables) /\ <<a, b>> \in Seq(Tables)
    OBVIOUS
  <2>2. {"sin_tab", "cos_tab", "arange_tab", "arange_fp16_tab", "eye_tab", "mask_tab"} \subseteq Tables
    BY DEF Tables
  <2> QED
    BY <2>1, <2>2 DEF Linear, Quadratic
<1>4. Range(Linear \o Quadratic) = Range(Linear) \cup Range(Quadratic)
  BY <1>3, RangeOfBoth
<1> QED
  BY <1>1, <1>2, <1>4 DEF Tables

\* The tables that are computed, and those inference is told of.
LEMMA Computations ==
    ASSUME NEW seq, NEW dim, NEW ref \in rope_tables_refs
    PROVE  LET tables == ensure_tables_computed(seq, dim)
           IN  /\ \A table \in {"sin_tab", "cos_tab"} : tables[<<table, ref>>] = <<1, 1, seq, dim>>
               /\ seq <= QuadraticLimit => tables[<<"mask_tab", ref>>] = <<seq, seq>>
<1> DEFINE names == Range(IF seq <= QuadraticLimit THEN Linear \o Quadratic ELSE Linear)
           tables == ensure_tables_computed(seq, dim)
<1>1. tables = [table \in names \X rope_tables_refs |-> Shape(table[1], seq, dim)]
  BY DEF ensure_tables_computed
<1>2. /\ {"sin_tab", "cos_tab"} \subseteq names
      /\ seq <= QuadraticLimit => "mask_tab" \in names
  BY TableNames DEF Tables
<1>3. /\ \A table \in {"sin_tab", "cos_tab"} : Shape(table, seq, dim) = <<1, 1, seq, dim>>
      /\ Shape("mask_tab", seq, dim) = <<seq, seq>>
  BY Zenon DEF Shape
<1> HIDE DEF names, tables
<1>4. \A table \in names : tables[<<table, ref>>] = Shape(table, seq, dim)
  BY <1>1
<1>5. /\ \A table \in {"sin_tab", "cos_tab"} : tables[<<table, ref>>] = <<1, 1, seq, dim>>
      /\ seq <= QuadraticLimit => tables[<<"mask_tab", ref>>] = <<seq, seq>>
  BY <1>2, <1>3, <1>4
<1> QED
  BY <1>5 DEF tables

LEMMA TablesFit == ASSUME CompileInv PROVE TablesFitHeads
<1> SUFFICES ASSUME prepared # Unprepared, job.saved => job.saved_seq = job.seq,
                    NEW i \in DOMAIN sir.nodes,
                    sir.nodes[i].name \in {Name("q_reshape_4d"), Name("k_reshape_4d")},
                    NEW ref \in rope_tables_refs
             PROVE  LET rows == sir.nodes[i].op.attr[2]
                        dim == sir.nodes[i].op.attr[4]
                    IN  /\ prepared.tables[<<"sin_tab", ref>>] = <<1, 1, rows, dim>>
                        /\ prepared.tables[<<"cos_tab", ref>>] = <<1, 1, rows, dim>>
                        /\ rows <= QuadraticLimit => prepared.tables[<<"mask_tab", ref>>] = <<rows, rows>>
  BY DEF TablesFitHeads
<1>1. AllReady /\ SirReady /\ GraphReady
  BY DEF CompileInv, AllReady, SirReady
<1>2. OfKind(sir.nodes[i], Fit)
  BY <1>1, NodedEach DEF SirReady
<1>3. sir.nodes[i].name[1] \in Laying
  BY NamesBegin DEF Laying
<1>4. sir.nodes[i].op.attr[2] = job.seq /\ sir.nodes[i].op.attr[4] = head_dim(graph)
  BY <1>1, <1>2, <1>3 DEF OfKind, Fit, GraphReady
<1>5. prepared.tables = ensure_tables_computed(job.seq, head_dim(graph))
  BY <1>1 DEF AllReady
<1> DEFINE tables == ensure_tables_computed(job.seq, head_dim(graph))
<1>6. /\ \A table \in {"sin_tab", "cos_tab"} : tables[<<table, ref>>] = <<1, 1, job.seq, head_dim(graph)>>
      /\ job.seq <= QuadraticLimit => tables[<<"mask_tab", ref>>] = <<job.seq, job.seq>>
  BY Computations
<1> HIDE DEF tables
<1>7. prepared.tables = tables
  BY <1>5 DEF tables
<1> QED
  BY <1>4, <1>6, <1>7

(* The tables the rotation and the mask read (static_tables.rs) have as many
   rows and columns as the heads they are applied to, for every model, family
   and sequence length, but for a saved trace compiled at another length.     *)
THEOREM TablesAlwaysFitHeads == Spec => []TablesFitHeads
<1>1. CompileInv => TablesFitHeads
  BY TablesFit
<1> QED
  BY <1>1, CompileAlways, PTL

LEMMA TablesThere == ASSUME CompileInv PROVE TablesAreThere
<1> SUFFICES ASSUME package # <<>>, rope_tables_refs # {}, job.seq <= QuadraticLimit,
                    NEW f \in Range(package)
             PROVE  f.reads \subseteq DOMAIN f.tables /\ \A table \in DOMAIN f.shapes : f.shapes[table] = f.tables[table]
  BY DEF TablesAreThere
<1> DEFINE dim == head_dim(graph)
           names(seq) == Range(IF seq <= QuadraticLimit THEN Linear \o Quadratic ELSE Linear)
<1>1. AllReady /\ SirReady
  BY DEF CompileInv, AllReady
<1>2. f = Embedding \/ f = decode_step
  <2>1. package = <<Embedding>> \/ package = <<Embedding, decode_step>>
    BY DEF CompileInv
  <2> HIDE DEF Embedding, decode_step
  <2> QED
    BY <2>1 DEF Range
<1>3. rope_tables_refs = {Shared}
  BY <1>1, RefsAreShared
<1>4. ASSUME NEW seq
      PROVE  /\ DOMAIN ensure_tables_computed(seq, dim) = names(seq) \X {Shared}
             /\ DOMAIN weight_shapes(seq, dim) = Range(Linear) \X {Shared}
             /\ \A table \in DOMAIN weight_shapes(seq, dim) :
                    weight_shapes(seq, dim)[table] = ensure_tables_computed(seq, dim)[table]
  <2>1. Range(Linear) \subseteq names(seq)
    BY TableNames DEF Tables
  <2>2. /\ ensure_tables_computed(seq, dim) = [table \in names(seq) \X {Shared} |-> Shape(table[1], seq, dim)]
        /\ weight_shapes(seq, dim) = [table \in Range(Linear) \X {Shared} |-> Shape(table[1], seq, dim)]
    BY <1>3 DEF ensure_tables_computed, weight_shapes
  <2> HIDE DEF names, dim
  <2> QED
    BY <2>1, <2>2
<1>5. CASE f = Embedding
  <2>1. f.reads = embedding_tables /\ f.tables = ensure_tables_computed(job.seq, dim)
        /\ f.shapes = weight_shapes(job.seq, dim)
    BY <1>1, <1>5 DEF Embedding, AllReady
  <2>2. embedding_tables \subseteq Tables \X {Shared}
    <3>1. \A i \in DOMAIN sir.nodes : sir.nodes[i].op.kind = "Const" =>
             sir.nodes[i].op.attr[1] \in {"scale", "one"} \/ sir.nodes[i].op.attr \in Tables \X {Shared}
      BY <1>1, NodedEach DEF SirReady, OfKind
    <3>2. {"scale", "one"} \cap Tables = {} /\ {"sin_tab", "cos_tab"} \subseteq Tables
      BY DEF Tables
    <3> HIDE DEF Tables
    <3> QED
      BY <1>3, <3>1, <3>2, TableNames DEF embedding_tables
  <2>3. names(job.seq) = Tables
    BY TableNames
  <2> QED
    BY <1>4, <2>1, <2>2, <2>3
<1>6. CASE f = decode_step
  <2>1. /\ f.reads \subseteq Range(Linear) \X {Shared}
        /\ f.tables = ensure_tables_computed(actual_max_seq_len, dim)
        /\ f.shapes = weight_shapes(actual_max_seq_len, dim)
    BY <1>1, <1>6 DEF decode_step, AllReady, Shared
  <2>2. Range(Linear) \subseteq names(actual_max_seq_len)
    BY TableNames DEF Tables
  <2> HIDE DEF names, dim
  <2> QED
    BY <1>4, <2>1, <2>2
<1> QED
  BY <1>2, <1>5, <1>6

(* Every table a function of the package reads is computed for it, with the
   shape its operations were inferred from, for every model that rotates and
   every prompt short enough for a mask.                                      *)
THEOREM TablesAreAlwaysThere == Spec => []TablesAreThere
<1>1. CompileInv => TablesAreThere
  BY TablesThere
<1> QED
  BY <1>1, CompileAlways, PTL

-----------------------------------------------------------------------------
(* The weights of a model whose graph was written from its configuration: those
   the operations of every traced node read, and so those of all.             *)

(* The members of a sequence. *)
Listed(s, members) == (\E S : s \in Seq(S)) /\ Range(s) = members

LEMMA ListedBy == ASSUME NEW S, NEW s \in Seq(S) PROVE Listed(s, Range(s))
BY DEF Listed

LEMMA ListedConcat ==
    ASSUME NEW s, NEW P, Listed(s, P), NEW t, NEW Q, Listed(t, Q)
    PROVE  Listed(s \o t, P \cup Q)
<1>1. PICK S : s \in Seq(S)
  BY DEF Listed
<1>2. PICK T : t \in Seq(T)
  BY DEF Listed
<1>3. s \in Seq(S \cup T) /\ t \in Seq(S \cup T)
  BY <1>1, <1>2
<1>4. s \o t \in Seq(S \cup T) /\ Range(s \o t) = Range(s) \cup Range(t)
  BY <1>3, RangeOfBoth
<1>5. Range(s) = P /\ Range(t) = Q
  BY DEF Listed
<1> QED
  BY <1>4, <1>5, ListedBy

LEMMA ListedSome ==
    /\ Listed(<<>>, {})
    /\ \A a : Listed(<<a>>, {a})
    /\ \A a, b : Listed(<<a, b>>, {a, b})
    /\ \A a, b, c : Listed(<<a, b, c>>, {a, b, c})
    /\ \A a, b, c, d, e : Listed(<<a, b, c, d, e>>, {a, b, c, d, e})
    /\ \A a, b, c, d, e, f : Listed(<<a, b, c, d, e, f>>, {a, b, c, d, e, f})
<1>1. Listed(<<>>, {})
  <2> DEFINE S == {}
  <2>1. <<>> \in Seq(S) /\ Range(<<>>) = {}
    BY DEF Range
  <2> HIDE DEF S
  <2> QED
    BY <2>1 DEF Listed
<1>2. ASSUME NEW a PROVE Listed(<<a>>, {a})
  <2> DEFINE S == {a}
  <2>1. <<a>> \in Seq(S) /\ Range(<<a>>) = {a}
    BY DEF Range
  <2> HIDE DEF S
  <2> QED
    BY <2>1 DEF Listed
<1>3. ASSUME NEW a, NEW b PROVE Listed(<<a, b>>, {a, b})
  <2> DEFINE S == {a, b}
  <2>1. <<a, b>> \in Seq(S) /\ Range(<<a, b>>) = {a, b}
    BY DEF Range
  <2> HIDE DEF S
  <2> QED
    BY <2>1 DEF Listed
<1>4. ASSUME NEW a, NEW b, NEW c PROVE Listed(<<a, b, c>>, {a, b, c})
  <2> DEFINE S == {a, b, c}
  <2>1. <<a, b, c>> \in Seq(S) /\ Range(<<a, b, c>>) = {a, b, c}
    BY DEF Range
  <2> HIDE DEF S
  <2> QED
    BY <2>1 DEF Listed
<1>5. ASSUME NEW a, NEW b, NEW c, NEW d, NEW e PROVE Listed(<<a, b, c, d, e>>, {a, b, c, d, e})
  <2> DEFINE S == {a, b, c, d, e}
  <2>1. <<a, b, c, d, e>> \in Seq(S) /\ Range(<<a, b, c, d, e>>) = {a, b, c, d, e}
    BY DEF Range
  <2> HIDE DEF S
  <2> QED
    BY <2>1 DEF Listed
<1>6. ASSUME NEW a, NEW b, NEW c, NEW d, NEW e, NEW f
      PROVE  Listed(<<a, b, c, d, e, f>>, {a, b, c, d, e, f})
  <2> DEFINE S == {a, b, c, d, e, f}
  <2>1. <<a, b, c, d, e, f>> \in Seq(S) /\ Range(<<a, b, c, d, e, f>>) = {a, b, c, d, e, f}
    BY DEF Range
  <2> HIDE DEF S
  <2> QED
    BY <2>1 DEF Listed
<1> QED
  BY <1>1, <1>2, <1>3, <1>4, <1>5, <1>6

LEMMA ListedFlattened ==
    ASSUME NEW n \in Nat, NEW seqs, DOMAIN seqs = 1..n, seqs = [i \in 1..n |-> seqs[i]],
           \A i \in 1..n : Listed(seqs[i], Range(seqs[i]))
    PROVE  Listed(FlattenSeq(seqs), UNION {Range(seqs[i]) : i \in 1..n})
<1> DEFINE S == UNION {Range(seqs[i]) : i \in 1..n}
<1>1. ASSUME NEW i \in 1..n PROVE seqs[i] \in Seq(S)
  <2>1. PICK T : seqs[i] \in Seq(T)
    BY DEF Listed
  <2>2. DOMAIN seqs[i] = 1..Len(seqs[i]) /\ Len(seqs[i]) \in Nat
        /\ seqs[i] = [k \in 1..Len(seqs[i]) |-> seqs[i][k]]
    BY <2>1
  <2>3. \A k \in DOMAIN seqs[i] : seqs[i][k] \in S
    BY DEF Range
  <2> HIDE DEF S
  <2> QED
    BY <2>2, <2>3
<1>2. seqs \in Seq(Seq(S)) /\ Len(seqs) = n
  <2> HIDE DEF S
  <2> QED
    BY <1>1
<1> HIDE DEF S
<1>3. FlattenSeq(seqs) \in Seq(S) /\ Range(FlattenSeq(seqs)) = UNION {Range(seqs[i]) : i \in 1..n}
  BY <1>2, Flattened
<1> QED
  BY <1>3 DEF Listed

-----------------------------------------------------------------------------
(* The weights the operations of a sequence read. *)
ReadBy(ops, weights) ==
    /\ Listed(ops, Range(ops))
    /\ UNION {WeightsOf(x.op) : x \in Range(ops)} = weights

LEMMA ReadConcat ==
    ASSUME NEW s, NEW P, ReadBy(s, P), NEW t, NEW Q, ReadBy(t, Q)
    PROVE  ReadBy(s \o t, P \cup Q)
<1>1. Listed(s \o t, Range(s) \cup Range(t))
  BY ListedConcat DEF ReadBy
<1>2. Range(s \o t) = Range(s) \cup Range(t)
  BY <1>1 DEF Listed
<1> QED
  BY <1>1, <1>2 DEF ReadBy

LEMMA ReadListed ==
    ASSUME NEW ops, NEW members, Listed(ops, members)
    PROVE  ReadBy(ops, UNION {WeightsOf(x.op) : x \in members})
BY DEF ReadBy, Listed

LEMMA ReadNothing ==
    ASSUME NEW n \in Nat, NEW seqs, DOMAIN seqs = 1..n, seqs = [i \in 1..n |-> seqs[i]],
           \A i \in 1..n : ReadBy(seqs[i], {})
    PROVE  ReadBy(FlattenSeq(seqs), {})
<1>1. Listed(FlattenSeq(seqs), UNION {Range(seqs[i]) : i \in 1..n})
  BY ListedFlattened DEF ReadBy
<1>2. ASSUME NEW i \in 1..n, NEW x \in Range(seqs[i]) PROVE WeightsOf(x.op) = {}
  BY DEF ReadBy
<1> QED
  BY <1>1, <1>2, ReadListed

(* No reference to a weight. *)
Plain(refs) == \A k \in DOMAIN refs : refs[k][1] # "weight"

LEMMA QuietRead ==
    ASSUME NEW refs, Plain(refs), NEW kind, NEW attr, NEW name
    PROVE  WeightsOf(Named(Op(kind, refs, NoWeight, attr), name).op) = {}
BY DEF WeightsOf, Named, Op, Plain

LEMMA WeightRead ==
    ASSUME NEW refs, Plain(refs), NEW weight, weight # NoWeight, NEW kind, NEW attr, NEW name
    PROVE  WeightsOf(Named(Op(kind, refs, weight, attr), name).op) = {weight}
BY DEF WeightsOf, Named, Op, Plain

LEMMA PlainSome ==
    /\ Plain(<<>>)
    /\ \A a : a[1] # "weight" => Plain(<<a>>)
    /\ \A a, b : a[1] # "weight" /\ b[1] # "weight" => Plain(<<a, b>>)
BY DEF Plain

LEMMA ReadSome ==
    /\ ReadBy(<<>>, {})
    /\ \A a : ReadBy(<<a>>, WeightsOf(a.op))
    /\ \A a, b : ReadBy(<<a, b>>, WeightsOf(a.op) \cup WeightsOf(b.op))
    /\ \A a, b, c : ReadBy(<<a, b, c>>, WeightsOf(a.op) \cup WeightsOf(b.op) \cup WeightsOf(c.op))
    /\ \A a, b, c, d, e :
           ReadBy(<<a, b, c, d, e>>, WeightsOf(a.op) \cup WeightsOf(b.op) \cup WeightsOf(c.op)
                                         \cup WeightsOf(d.op) \cup WeightsOf(e.op))
    /\ \A a, b, c, d, e, f :
           ReadBy(<<a, b, c, d, e, f>>, WeightsOf(a.op) \cup WeightsOf(b.op) \cup WeightsOf(c.op)
                                            \cup WeightsOf(d.op) \cup WeightsOf(e.op) \cup WeightsOf(f.op))
<1>1. \A ops, members : Listed(ops, members) => ReadBy(ops, UNION {WeightsOf(x.op) : x \in members})
  BY ReadListed
<1>2. UNION {WeightsOf(x.op) : x \in {}} = {}
  OBVIOUS
<1>3. \A a : UNION {WeightsOf(x.op) : x \in {a}} = WeightsOf(a.op)
  OBVIOUS
<1>4. \A a, b : UNION {WeightsOf(x.op) : x \in {a, b}} = WeightsOf(a.op) \cup WeightsOf(b.op)
  OBVIOUS
<1>5. \A a, b, c : UNION {WeightsOf(x.op) : x \in {a, b, c}} =
                        WeightsOf(a.op) \cup WeightsOf(b.op) \cup WeightsOf(c.op)
  OBVIOUS
<1>8. ReadBy(<<>>, {})
  BY <1>1, <1>2, ListedSome
<1>9. ASSUME NEW a PROVE ReadBy(<<a>>, WeightsOf(a.op))
  <2>1. ReadBy(<<a>>, UNION {WeightsOf(x.op) : x \in {a}})
    BY <1>1, ListedSome
  <2> QED
    BY <1>3, <2>1
<1>10. ASSUME NEW a, NEW b PROVE ReadBy(<<a, b>>, WeightsOf(a.op) \cup WeightsOf(b.op))
  <2>1. ReadBy(<<a, b>>, UNION {WeightsOf(x.op) : x \in {a, b}})
    BY <1>1, ListedSome
  <2> QED
    BY <1>4, <2>1
<1>11. ASSUME NEW a, NEW b, NEW c
       PROVE  ReadBy(<<a, b, c>>, WeightsOf(a.op) \cup WeightsOf(b.op) \cup WeightsOf(c.op))
  <2>1. ReadBy(<<a, b, c>>, UNION {WeightsOf(x.op) : x \in {a, b, c}})
    BY <1>1, ListedSome
  <2> QED
    BY <1>5, <2>1
<1>12. ASSUME NEW a, NEW b, NEW c, NEW d, NEW e
       PROVE  ReadBy(<<a, b, c, d, e>>, WeightsOf(a.op) \cup WeightsOf(b.op) \cup WeightsOf(c.op)
                                            \cup WeightsOf(d.op) \cup WeightsOf(e.op))
  <2>1. ReadBy(<<a, b, c, d, e>>, UNION {WeightsOf(x.op) : x \in {a, b, c, d, e}})
    BY <1>1, ListedSome
  <2>2. UNION {WeightsOf(x.op) : x \in {a, b, c, d, e}} =
            WeightsOf(a.op) \cup WeightsOf(b.op) \cup WeightsOf(c.op) \cup WeightsOf(d.op) \cup WeightsOf(e.op)
    OBVIOUS
  <2> QED
    BY <2>1, <2>2
<1>13. ASSUME NEW a, NEW b, NEW c, NEW d, NEW e, NEW f
       PROVE  ReadBy(<<a, b, c, d, e, f>>, WeightsOf(a.op) \cup WeightsOf(b.op) \cup WeightsOf(c.op)
                                       \cup WeightsOf(d.op) \cup WeightsOf(e.op) \cup WeightsOf(f.op))
  <2>1. ReadBy(<<a, b, c, d, e, f>>, UNION {WeightsOf(x.op) : x \in {a, b, c, d, e, f}})
    BY <1>1, ListedSome
  <2>2. UNION {WeightsOf(x.op) : x \in {a, b, c, d, e, f}} =
            WeightsOf(a.op) \cup WeightsOf(b.op) \cup WeightsOf(c.op)
                \cup WeightsOf(d.op) \cup WeightsOf(e.op) \cup WeightsOf(f.op)
    OBVIOUS
  <2> QED
    BY <2>1, <2>2
<1> QED
  BY <1>8, <1>9, <1>10, <1>11, <1>12, <1>13

LEMMA NoneRead ==
    ASSUME NEW kind, NEW attr, NEW name
    PROVE  WeightsOf(Named(Op(kind, <<>>, NoWeight, attr), name).op) = {}
BY PlainSome, QuietRead

LEMMA OneRead ==
    ASSUME NEW a, a[1] # "weight", NEW kind, NEW attr, NEW name
    PROVE  WeightsOf(Named(Op(kind, <<a>>, NoWeight, attr), name).op) = {}
BY PlainSome, QuietRead

LEMMA OneWeightRead ==
    ASSUME NEW a, a[1] # "weight", NEW weight, weight # NoWeight, NEW kind, NEW attr, NEW name
    PROVE  WeightsOf(Named(Op(kind, <<a>>, weight, attr), name).op) = {weight}
<1>1. Plain(<<a>>)
  BY PlainSome
<1> QED
  BY <1>1 DEF WeightsOf, Named, Op, Plain

LEMMA TwoRead ==
    ASSUME NEW a, a[1] # "weight", NEW b, b[1] # "weight", NEW kind, NEW attr, NEW name
    PROVE  WeightsOf(Named(Op(kind, <<a, b>>, NoWeight, attr), name).op) = {}
BY PlainSome, QuietRead

LEMMA PlainNames ==
    ASSUME NEW node
    PROVE  /\ \A name : A(node, name)[1] # "weight"
           /\ \A n, name : Plain([h \in 1..n |-> A(node, Numbered(name, h - 1))])
BY DEF A, Plain

(* Nodes are referred to by their ids. *)
Separate(node_map) == \A t \in DOMAIN node_map : node_map[t][1] = "id"

LEMMA PlainInput ==
    ASSUME NEW node_map, Separate(node_map), NEW node, NEW k
    PROVE  resolve_input(node, k, node_map)[1] # "weight"
BY DEF resolve_input, Separate

(* A node of a module, whose parameters have names. *)
HasPath(node) == node.path # Nowhere /\ \E S : node.path \in Seq(S)

LEMMA ParamNames ==
    ASSUME NEW node, HasPath(node)
    PROVE  /\ \A module : hf_param_name(node, module) # NoWeight
           /\ resolve_weight_name(node) # NoWeight
<1>1. PICK S : node.path \in Seq(S)
  BY DEF HasPath
<1>2. ASSUME NEW module PROVE node.path \o <<module, "weight">> # <<>>
  <2> DEFINE T == S \cup {module, "weight"}
  <2>1. node.path \in Seq(T) /\ <<module, "weight">> \in Seq(T) /\ Len(<<module, "weight">>) = 2
    BY <1>1
  <2> HIDE DEF T
  <2>2. Len(node.path \o <<module, "weight">>) = Len(node.path) + 2 /\ Len(node.path) \in Nat
    BY <2>1
  <2> QED
    BY <2>2
<1>3. Append(node.path, "weight") # <<>>
  <2> DEFINE T == S \cup {"weight"}
  <2>1. node.path \in Seq(T) /\ "weight" \in T
    BY <1>1
  <2> HIDE DEF T
  <2>2. Len(Append(node.path, "weight")) = Len(node.path) + 1 /\ Len(node.path) \in Nat
    BY <2>1
  <2> QED
    BY <2>2
<1> QED
  BY <1>2, <1>3 DEF HasPath, hf_param_name, resolve_weight_name, NoWeight

LEMMA ResidualReads ==
    ASSUME NEW node, NEW node_map, Separate(node_map), NEW from, NEW name
    PROVE  ReadBy(Residual(node, node_map, from, name), {})
<1> DEFINE refs == <<A(node, Name(from)), resolve_input(node, 2, node_map)>>
<1>1. Plain(refs)
  BY PlainNames, PlainInput, PlainSome
<1> HIDE DEF refs
<1>2. WeightsOf(Named(Op("Add", refs, NoWeight, <<>>), Name(name)).op) = {}
  BY <1>1, QuietRead, Zenon
<1> DEFINE add == Named(Op("Add", refs, NoWeight, <<>>), Name(name))
<1>3. Residual(node, node_map, from, name) = IF Len(node.in) >= 2 THEN <<add>> ELSE <<>>
  BY DEF Residual, refs
<1> HIDE DEF add
<1>4. ReadBy(<<add>>, {}) /\ ReadBy(<<>>, {})
  <2>1. ReadBy(<<add>>, WeightsOf(add.op))
    BY ReadSome
  <2> QED
    BY <1>2, <2>1, ReadSome DEF add
<1> QED
  BY <1>3, <1>4

LEMMA LaidReads ==
    ASSUME NEW node, NEW config, NEW batch, NEW seq, NEW heads, NEW head_dim_of
    PROVE  ReadBy(Laid(node, config, batch, seq, heads, head_dim_of), {})
<1> DEFINE after(norm, proj) == A(node, Name(IF node.op.has_qk_norm THEN norm ELSE proj))
           reshape(x, n, name) == Named(Op("Reshape", <<x>>, NoWeight, <<batch, seq, n, head_dim_of>>),
                                        Name(name))
           transpose(of, name) == Named(Op("Transpose", <<A(node, Name(of))>>, NoWeight, <<0, 2, 1, 3>>),
                                        Name(name))
<1>1. \A norm, proj : after(norm, proj)[1] # "weight"
  BY PlainNames
<1> HIDE DEF after
<1>2. /\ \A x, n, name : x[1] # "weight" => WeightsOf(reshape(x, n, name).op) = {}
      /\ \A of, name : WeightsOf(transpose(of, name).op) = {}
  <2>1. ASSUME NEW x, NEW n, NEW name, x[1] # "weight" PROVE WeightsOf(reshape(x, n, name).op) = {}
    BY <2>1, OneRead
  <2>2. ASSUME NEW of, NEW name PROVE WeightsOf(transpose(of, name).op) = {}
    <3>1. A(node, Name(of))[1] # "weight"
      BY PlainNames
    <3> QED
      BY <3>1, OneRead
  <2> QED
    BY <2>1, <2>2
<1>3. Laid(node, config, batch, seq, heads, head_dim_of) =
         << reshape(after("q_norm", "q_proj"), heads, "q_reshape_4d"),
            reshape(after("k_norm", "k_proj"), config.kv, "k_reshape_4d"),
            reshape(A(node, Name("v_proj")), config.kv, "v_reshape_4d"),
            transpose("q_reshape_4d", "q_transpose"),
            transpose("k_reshape_4d", "k_transpose"),
            transpose("v_reshape_4d", "v_transpose") >>
  BY Zenon DEF Laid, after
<1> HIDE DEF reshape, transpose
<1>4. /\ WeightsOf(reshape(after("q_norm", "q_proj"), heads, "q_reshape_4d").op) = {}
      /\ WeightsOf(reshape(after("k_norm", "k_proj"), config.kv, "k_reshape_4d").op) = {}
      /\ WeightsOf(reshape(A(node, Name("v_proj")), config.kv, "v_reshape_4d").op) = {}
  BY <1>1, <1>2, PlainNames
<1> DEFINE a == reshape(after("q_norm", "q_proj"), heads, "q_reshape_4d")
           b == reshape(after("k_norm", "k_proj"), config.kv, "k_reshape_4d")
           c == reshape(A(node, Name("v_proj")), config.kv, "v_reshape_4d")
           d == transpose("q_reshape_4d", "q_transpose")
           e == transpose("k_reshape_4d", "k_transpose")
           f == transpose("v_reshape_4d", "v_transpose")
<1>5. WeightsOf(a.op) = {} /\ WeightsOf(b.op) = {} /\ WeightsOf(c.op) = {}
      /\ WeightsOf(d.op) = {} /\ WeightsOf(e.op) = {} /\ WeightsOf(f.op) = {}
  BY <1>2, <1>4
<1>6. Laid(node, config, batch, seq, heads, head_dim_of) = <<a, b, c, d, e, f>>
  BY <1>3
<1> HIDE DEF a, b, c, d, e, f
<1>7. ReadBy(<<a, b, c, d, e, f>>, WeightsOf(a.op) \cup WeightsOf(b.op) \cup WeightsOf(c.op)
                                       \cup WeightsOf(d.op) \cup WeightsOf(e.op) \cup WeightsOf(f.op))
  BY ReadSome
<1> QED
  BY <1>5, <1>6, <1>7

LEMMA HeadReads ==
    ASSUME NEW h, NEW node, NEW config, NEW heads
    PROVE  ReadBy(HeadOps(h, node, config, heads), {})
<1> DEFINE k == kv_idx(h, heads, config.kv)
           first == \A g \in 0..h - 1 : kv_idx(g, heads, config.kv) # k
           q4 == A(node, Name(IF config.uses_rope THEN "q_rope" ELSE "q_transpose"))
           k4 == A(node, Name(IF config.uses_rope THEN "k_rope" ELSE "k_transpose"))
           of(base) == A(node, Numbered(base, h))
           op(kind, refs, attr, base) == Named(Op(kind, refs, NoWeight, attr), Numbered(base, h))
           transposed == <<"k_head", <<k>>, "transpose">>
           query == Slice(q4, h, Numbered("q_head", h))
           key == Slice(k4, k, Numbered("k_head", k))
           value == Slice(A(node, Name("v_transpose")), k, Numbered("v_head", k))
           swapped == Named(Op("Transpose", <<A(node, Numbered("k_head", k))>>, NoWeight, <<0, 2, 1>>),
                            transposed)
           a == op("MatMul", <<of("q_head"), A(node, transposed)>>, <<>>, "logits")
           b == op("Mul", <<of("logits"), A(node, Name("attn_scale_const"))>>, <<>>, "scaled_logits")
           c == op("Add", <<of("scaled_logits"), A(node, Name("causal_mask_4d"))>>, <<>>, "masked_logits")
           d == op("Softmax", <<of("masked_logits")>>, <<-1>>, "weights")
           e == op("MatMul", <<of("weights"), A(node, Numbered("v_head", k))>>, <<>>, "ctx")
           f == op("ExpandDims", <<of("ctx")>>, <<1>>, "ctx_exp")
           all == WeightsOf(a.op) \cup WeightsOf(b.op) \cup WeightsOf(c.op)
                      \cup WeightsOf(d.op) \cup WeightsOf(e.op) \cup WeightsOf(f.op)
<1>1. HeadOps(h, node, config, heads) =
          <<query>> \o (IF first THEN <<key, value, swapped>> ELSE <<>>) \o <<a, b, c, d, e, f>>
  BY Zenon DEF HeadOps
<1>2. \A name : A(node, name)[1] # "weight"
  BY PlainNames
<1>3. \A x, i, name : x[1] # "weight" => WeightsOf(Slice(x, i, name).op) = {}
  BY OneRead DEF Slice
<1>4. WeightsOf(query.op) = {} /\ WeightsOf(key.op) = {} /\ WeightsOf(value.op) = {}
  BY <1>2, <1>3
<1>5. WeightsOf(swapped.op) = {} /\ WeightsOf(d.op) = {} /\ WeightsOf(f.op) = {}
  <2>1. \A kind, attr, name, x : WeightsOf(Named(Op(kind, <<A(node, x)>>, NoWeight, attr), name).op) = {}
    BY <1>2, OneRead
  <2> QED
    BY <2>1
<1>6. WeightsOf(a.op) = {} /\ WeightsOf(b.op) = {} /\ WeightsOf(c.op) = {} /\ WeightsOf(e.op) = {}
  <2>1. \A kind, attr, name, x, y :
            WeightsOf(Named(Op(kind, <<A(node, x), A(node, y)>>, NoWeight, attr), name).op) = {}
    BY <1>2, TwoRead
  <2> QED
    BY <2>1
<1> HIDE DEF query, key, value, swapped, a, b, c, d, e, f, first
<1>7. ReadBy(<<query>>, {})
  <2>1. ReadBy(<<query>>, WeightsOf(query.op))
    BY ReadSome
  <2> QED
    BY <1>4, <2>1
<1>8. ReadBy(<<key, value, swapped>>, {})
  <2>1. ReadBy(<<key, value, swapped>>, WeightsOf(key.op) \cup WeightsOf(value.op) \cup WeightsOf(swapped.op))
    BY ReadSome
  <2> QED
    BY <1>4, <1>5, <2>1
<1>9. ReadBy(<<a, b, c, d, e, f>>, {})
  <2>1. ReadBy(<<a, b, c, d, e, f>>, all)
    BY ReadSome
  <2> QED
    BY <1>5, <1>6, <2>1
<1>10. ReadBy(IF first THEN <<key, value, swapped>> ELSE <<>>, {})
  BY <1>8, ReadSome
<1> DEFINE part == IF first THEN <<key, value, swapped>> ELSE <<>>
           rest == <<a, b, c, d, e, f>>
           one == <<query>>
<1> HIDE DEF part, rest, one
<1>11. ReadBy(one \o part \o rest, {} \cup {} \cup {})
  BY <1>7, <1>9, <1>10, ReadConcat DEF part, rest, one
<1> QED
  BY <1>1, <1>11 DEF part, rest, one

(* What an attention block reads. *)
BlockModules(node) == Projections \cup (IF node.op.has_qk_norm THEN {"q_norm", "k_norm"} ELSE {})

LEMMA AttentionReads ==
    ASSUME NEW node, HasPath(node), node.op.heads \in Nat, NEW config, NEW node_map, Separate(node_map),
           NEW batch, NEW seq
    PROVE  ReadBy(decompose_attention(node, config, node_map, batch, seq),
                  {hf_param_name(node, p) : p \in BlockModules(node)})
<1> DEFINE heads == node.op.heads
           dim == node.op.head_dim
           x == resolve_input(node, 1, node_map)
           w(p) == hf_param_name(node, p)
           Heads == [h \in 1..heads |-> HeadOps(h - 1, node, config, heads)]
           scale == Named(Op("Const", <<>>, NoWeight, <<"scale", dim>>), Name("attn_scale_const"))
           mask == Named(Op("Const", <<>>, NoWeight, <<"mask_tab", "rope_tables_shared">>), Name("causal_mask"))
           mask4 == Named(Op("Reshape", <<A(node, Name("causal_mask"))>>, NoWeight, <<1, 1, seq, seq>>),
                          Name("causal_mask_4d"))
           ctxs == [h \in 1..heads |-> A(node, Numbered("ctx_exp", h - 1))]
           concat == Named(Op("Concat", ctxs, NoWeight, <<1>>), Name("ctx_concat"))
           flat == Named(Op("Reshape", <<A(node, Name("ctx_concat"))>>, NoWeight, <<batch, seq, heads * dim>>),
                         Name("attn_reshape_3d"))
           out == Named(Op("LinearProjection", <<A(node, Name("attn_reshape_3d"))>>, w("o_proj"), <<>>),
                        Numbered("out_proj", 0))
           normed == IF node.op.has_qk_norm THEN {w("q_norm"), w("k_norm")} ELSE {}
<1>1. /\ \A name : A(node, name)[1] # "weight"
      /\ x[1] # "weight"
      /\ \A p : w(p) # NoWeight
  BY PlainNames, PlainInput, ParamNames
<1> HIDE DEF x, w
<1>2. ASSUME NEW kind, NEW attr, NEW name, NEW of
      PROVE  WeightsOf(Named(Op(kind, <<A(node, of)>>, NoWeight, attr), name).op) = {}
  BY <1>1, OneRead
<1>3. ReadBy(Projected(node, x, config, heads, dim), {w("q_proj"), w("k_proj"), w("v_proj")})
  <2> DEFINE proj(p, n) == Named(Op("LinearProjection", <<x>>, w(p), <<>>), Numbered(p, n * dim))
             a == proj("q_proj", heads)
             b == proj("k_proj", config.kv)
             c == proj("v_proj", config.kv)
  <2>1. Projected(node, x, config, heads, dim) = <<a, b, c>>
    BY Zenon DEF Projected, w
  <2>2. WeightsOf(a.op) = {w("q_proj")} /\ WeightsOf(b.op) = {w("k_proj")} /\ WeightsOf(c.op) = {w("v_proj")}
    BY <1>1 DEF WeightsOf, Named, Op
  <2> HIDE DEF a, b, c
  <2>3. ReadBy(<<a, b, c>>, WeightsOf(a.op) \cup WeightsOf(b.op) \cup WeightsOf(c.op))
    BY ReadSome
  <2>4. WeightsOf(a.op) \cup WeightsOf(b.op) \cup WeightsOf(c.op) = {w("q_proj"), w("k_proj"), w("v_proj")}
    BY <2>2
  <2> QED
    BY <2>1, <2>3, <2>4
<1>4. ReadBy(QkNormed(node, config), normed)
  <2> DEFINE norm(p, of) == Named(Op("RMSNorm", <<A(node, Name(of))>>, w(p),
                                     <<effective_epsilon(0, config), 3>>), Name(p))
             a == norm("q_norm", "q_proj")
             b == norm("k_norm", "k_proj")
  <2>1. QkNormed(node, config) = IF node.op.has_qk_norm THEN <<a, b>> ELSE <<>>
    BY Zenon DEF QkNormed, w
  <2>2. WeightsOf(a.op) = {w("q_norm")} /\ WeightsOf(b.op) = {w("k_norm")}
    BY <1>1 DEF WeightsOf, Named, Op
  <2> HIDE DEF a, b
  <2>3. ReadBy(<<a, b>>, WeightsOf(a.op) \cup WeightsOf(b.op)) /\ ReadBy(<<>>, {})
    BY ReadSome
  <2>4. WeightsOf(a.op) \cup WeightsOf(b.op) = {w("q_norm"), w("k_norm")}
    BY <2>2
  <2> QED
    BY <2>1, <2>3, <2>4
<1>5. ReadBy(Laid(node, config, batch, seq, heads, dim), {})
  BY LaidReads
<1>6. ReadBy(Rotated(node, config), {})
  <2> DEFINE rope(of, name) == Named(Op("RoPETransform", <<A(node, Name(of))>>, NoWeight,
                                        <<"rope_tables_shared">>), Name(name))
             a == rope("q_transpose", "q_rope")
             b == rope("k_transpose", "k_rope")
  <2>1. Rotated(node, config) = IF config.uses_rope THEN <<a, b>> ELSE <<>>
    BY Zenon DEF Rotated
  <2>2. WeightsOf(a.op) = {} /\ WeightsOf(b.op) = {}
    BY <1>2
  <2> HIDE DEF a, b
  <2>3. ReadBy(<<a, b>>, WeightsOf(a.op) \cup WeightsOf(b.op)) /\ ReadBy(<<>>, {})
    BY ReadSome
  <2> QED
    BY <2>1, <2>2, <2>3
<1>7. ReadBy(<<scale, mask, mask4>>, {})
  <2>1. WeightsOf(scale.op) = {} /\ WeightsOf(mask.op) = {} /\ WeightsOf(mask4.op) = {}
    BY <1>2, NoneRead
  <2> HIDE DEF scale, mask, mask4
  <2>2. ReadBy(<<scale, mask, mask4>>, WeightsOf(scale.op) \cup WeightsOf(mask.op) \cup WeightsOf(mask4.op))
    BY ReadSome
  <2> QED
    BY <2>1, <2>2
<1>8. ReadBy(FlattenSeq(Heads), {})
  BY HeadReads, ReadNothing
<1>9. ReadBy(<<concat, flat, out>>, {w("o_proj")})
  <2>1. WeightsOf(concat.op) = {}
    <3>1. Plain(ctxs)
      BY PlainNames
    <3> HIDE DEF ctxs
    <3> QED
      BY <3>1, QuietRead
  <2>2. WeightsOf(flat.op) = {} /\ WeightsOf(out.op) = {w("o_proj")}
    BY <1>1 DEF WeightsOf, Named, Op
  <2> HIDE DEF concat, flat, out
  <2>3. ReadBy(<<concat, flat, out>>, WeightsOf(concat.op) \cup WeightsOf(flat.op) \cup WeightsOf(out.op))
    BY ReadSome
  <2>4. WeightsOf(concat.op) \cup WeightsOf(flat.op) \cup WeightsOf(out.op) = {w("o_proj")}
    BY <2>1, <2>2
  <2> QED
    BY <2>3, <2>4
<1>10. ReadBy(Residual(node, node_map, "out_proj", "attn_residual_add"), {})
  BY ResidualReads
<1> DEFINE Mask == <<scale, mask, mask4>>
           Out == <<concat, flat, out>>
<1>11. decompose_attention(node, config, node_map, batch, seq) =
         Projected(node, x, config, heads, dim) \o QkNormed(node, config)
         \o Laid(node, config, batch, seq, heads, dim) \o Rotated(node, config)
         \o Mask \o FlattenSeq(Heads) \o Out
         \o Residual(node, node_map, "out_proj", "attn_residual_add")
  BY Zenon DEF decompose_attention, w, x
<1>12. {w(p) : p \in BlockModules(node)} = {w("q_proj"), w("k_proj"), w("v_proj")} \cup normed \cup {w("o_proj")}
  BY DEF BlockModules, Projections
<1> DEFINE P1 == {w("q_proj"), w("k_proj"), w("v_proj")}
           P2 == {w("o_proj")}
<1> HIDE DEF heads, dim, Heads, Mask, Out, P1, P2, normed
<1>13. ReadBy(decompose_attention(node, config, node_map, batch, seq),
              P1 \cup normed \cup {} \cup {} \cup {} \cup {} \cup P2 \cup {})
  <2>1. ReadBy(Projected(node, x, config, heads, dim), P1) /\ ReadBy(Mask, {}) /\ ReadBy(Out, P2)
    BY <1>3, <1>7, <1>9 DEF Mask, Out, P1, P2
  <2> DEFINE a == Projected(node, x, config, heads, dim)
             b == QkNormed(node, config)
             c == Laid(node, config, batch, seq, heads, dim)
             d == Rotated(node, config)
             e == FlattenSeq(Heads)
             f == Residual(node, node_map, "out_proj", "attn_residual_add")
  <2>2. decompose_attention(node, config, node_map, batch, seq) = a \o b \o c \o d \o Mask \o e \o Out \o f
    BY <1>11
  <2>3. ReadBy(a, P1) /\ ReadBy(b, normed) /\ ReadBy(c, {}) /\ ReadBy(d, {}) /\ ReadBy(e, {}) /\ ReadBy(f, {})
    BY <1>4, <1>5, <1>6, <1>8, <1>10, <2>1
  <2> HIDE DEF a, b, c, d, e, f
  <2>4. ReadBy(a \o b \o c \o d, P1 \cup normed \cup {} \cup {})
    BY <2>3, ReadConcat
  <2>5. ReadBy(a \o b \o c \o d \o Mask \o e, P1 \cup normed \cup {} \cup {} \cup {} \cup {})
    BY <2>1, <2>3, <2>4, ReadConcat
  <2>6. ReadBy(a \o b \o c \o d \o Mask \o e \o Out \o f,
               P1 \cup normed \cup {} \cup {} \cup {} \cup {} \cup P2 \cup {})
    BY <2>1, <2>3, <2>5, ReadConcat
  <2> QED
    BY <2>2, <2>6
<1>14. P1 \cup normed \cup {} \cup {} \cup {} \cup {} \cup P2 \cup {} = {w(p) : p \in BlockModules(node)}
  BY <1>12 DEF P1, P2
<1> QED
  BY <1>13, <1>14 DEF w

LEMMA MlpReads ==
    ASSUME NEW node, HasPath(node), NEW config, NEW weights,
           {hf_param_name(node, "gate_proj"), hf_param_name(node, "up_proj")} \subseteq weights,
           NEW node_map, Separate(node_map)
    PROVE  ReadBy(decompose_mlp(node, config, weights, node_map),
                  {hf_param_name(node, p) : p \in {"gate_proj", "up_proj", "down_proj"}})
<1> DEFINE x == resolve_input(node, 1, node_map)
           w(p) == hf_param_name(node, p)
           linear(of, p, name) == Named(Op("LinearProjection", <<of>>, w(p), <<>>), Numbered(name, 0))
           a == linear(x, "gate_proj", "gate_proj")
           b == Named(Op("Silu", <<A(node, Name("gate_proj"))>>, NoWeight, <<>>), Name("mlp_gate_silu"))
           c == linear(x, "up_proj", "up_proj")
           d == Named(Op("Mul", <<A(node, Name("mlp_gate_silu")), A(node, Name("up_proj"))>>, NoWeight, <<>>),
                      Name("mlp_swiglu_mul"))
           e == linear(A(node, Name("mlp_swiglu_mul")), "down_proj", "down_proj")
           residual == Residual(node, node_map, "down_proj", "mlp_residual_add")
<1>1. is_swiglu(node, config, weights)
  BY DEF is_swiglu, HasPath
<1>2. decompose_mlp(node, config, weights, node_map) = <<a, b, c, d, e>> \o residual
  BY <1>1, Zenon DEF decompose_mlp
<1>3. (\A name : A(node, name)[1] # "weight") /\ x[1] # "weight" /\ \A p : w(p) # NoWeight
  BY PlainNames, PlainInput, ParamNames
<1> HIDE DEF x, w
<1>4. /\ WeightsOf(a.op) = {w("gate_proj")} /\ WeightsOf(c.op) = {w("up_proj")}
      /\ WeightsOf(e.op) = {w("down_proj")}
  BY <1>3 DEF WeightsOf, Named, Op
<1>5. WeightsOf(b.op) = {}
  BY <1>3, OneRead
<1>6. WeightsOf(d.op) = {}
  BY <1>3, TwoRead
<1> HIDE DEF a, b, c, d, e
<1>7. ReadBy(<<a, b, c, d, e>>, WeightsOf(a.op) \cup WeightsOf(b.op) \cup WeightsOf(c.op)
                                    \cup WeightsOf(d.op) \cup WeightsOf(e.op))
  BY ReadSome
<1>8. ReadBy(residual, {})
  BY ResidualReads
<1> DEFINE gated == <<a, b, c, d, e>>
           weights_of_all == WeightsOf(a.op) \cup WeightsOf(b.op) \cup WeightsOf(c.op)
                                 \cup WeightsOf(d.op) \cup WeightsOf(e.op)
<1>9. weights_of_all \cup {} = {w(p) : p \in {"gate_proj", "up_proj", "down_proj"}}
  BY <1>4, <1>5, <1>6
<1> HIDE DEF gated, residual, weights_of_all
<1>10. ReadBy(gated \o residual, weights_of_all \cup {})
  BY <1>7, <1>8, ReadConcat DEF gated, weights_of_all
<1> QED
  BY <1>2, <1>9, <1>10 DEF gated, w

LEMMA ModulesRead ==
    ASSUME NEW node, HasPath(node), NEW config, NEW node_map, Separate(node_map)
    PROVE  /\ ReadBy(decompose_rms_norm(node, config, node_map), {resolve_weight_name(node)})
           /\ ReadBy(MapWeighted(node, node_map), {resolve_weight_name(node)})
<1> DEFINE x == resolve_input(node, 1, node_map)
           weight == resolve_weight_name(node)
           norm == Named(Op("RMSNorm", <<x>>, weight, <<effective_epsilon(node.op.epsilon, config), 2>>),
                         Numbered("rms_norm", 0))
           linear == Named(Op("LinearProjection", <<x>>, weight, <<>>), Numbered("linear", 0))
           gather == Named(Op("Gather", <<<<"weight", weight>>, x>>, NoWeight, <<0>>), Numbered("embedding", 0))
<1>1. x[1] # "weight" /\ weight # NoWeight
  BY PlainInput, ParamNames
<1>2. decompose_rms_norm(node, config, node_map) = <<norm>>
  BY Zenon DEF decompose_rms_norm
<1>3. MapWeighted(node, node_map) = IF node.op.type = "Linear" THEN <<linear>> ELSE <<gather>>
  BY Zenon DEF MapWeighted
<1> HIDE DEF x, weight
<1>4. WeightsOf(norm.op) = {weight} /\ WeightsOf(linear.op) = {weight}
  BY <1>1 DEF WeightsOf, Named, Op
<1>5. WeightsOf(gather.op) = {weight}
  <2>1. gather.op.weight = NoWeight /\ gather.op.refs = <<<<"weight", weight>>, x>>
    BY DEF Named, Op
  <2> HIDE DEF gather
  <2>2. {k \in DOMAIN gather.op.refs : gather.op.refs[k][1] = "weight"} = {1}
    BY <1>1, <2>1
  <2>3. {gather.op.refs[k][2] : k \in {1}} = {weight}
    BY <2>1
  <2> QED
    BY <1>1, <2>1, <2>2, <2>3 DEF WeightsOf
<1> HIDE DEF norm, linear, gather
<1>6. ReadBy(<<norm>>, WeightsOf(norm.op)) /\ ReadBy(<<linear>>, WeightsOf(linear.op))
      /\ ReadBy(<<gather>>, WeightsOf(gather.op))
  BY ReadSome
<1>7. ReadBy(<<norm>>, {weight}) /\ ReadBy(<<linear>>, {weight}) /\ ReadBy(<<gather>>, {weight})
  BY <1>4, <1>5, <1>6
<1> HIDE DEF weight
<1>8. ReadBy(decompose_rms_norm(node, config, node_map), {weight}) /\ ReadBy(MapWeighted(node, node_map), {weight})
  BY <1>2, <1>3, <1>7
<1> QED
  BY <1>8 DEF weight

LEMMA OthersRead ==
    ASSUME NEW node, NEW node_map, Separate(node_map)
    PROVE  /\ ReadBy(MapSlice(node, node_map), {})
           /\ node.op.type = "Output" => ReadBy(MapDirect(node, node_map), {})
           /\ ReadBy(Held, {})
<1> DEFINE x == resolve_input(node, 1, node_map)
           slice == Named(Op("SliceByIndex", <<x>>, NoWeight, <<node.op.begin, node.op.end>>), Name("slice"))
           out == Named(Op("Identity", [k \in 1..1 |-> resolve_input(node, k, node_map)], NoWeight, <<>>),
                        Name(node.op.type))
           held == Named(Op("Identity", <<<<"placeholder">>>>, NoWeight, <<>>), Name("placeholder"))
<1>1. MapSlice(node, node_map) = <<slice>> /\ Held = <<held>>
  BY Zenon DEF MapSlice, Held
<1>2. node.op.type = "Output" => MapDirect(node, node_map) = <<out>>
  <2>1. Direct["Output"] = <<"Identity", 1>>
    BY DEF Direct
  <2>2. Direct["Output"][1] = "Identity" /\ Direct["Output"][2] = 1
    BY <2>1
  <2> QED
    BY <2>2, Zenon DEF MapDirect
<1>3. WeightsOf(slice.op) = {}
  <2>1. x[1] # "weight"
    BY PlainInput
  <2> HIDE DEF x
  <2> QED
    BY <2>1, OneRead
<1>4. WeightsOf(out.op) = {}
  <2>1. Plain([k \in 1..1 |-> resolve_input(node, k, node_map)])
    BY PlainInput DEF Plain
  <2> QED
    BY <2>1, QuietRead
<1>5. WeightsOf(held.op) = {}
  BY OneRead
<1> HIDE DEF slice, out, held
<1>6. ReadBy(<<slice>>, WeightsOf(slice.op)) /\ ReadBy(<<out>>, WeightsOf(out.op))
      /\ ReadBy(<<held>>, WeightsOf(held.op))
  BY ReadSome
<1> QED
  BY <1>1, <1>2, <1>3, <1>4, <1>5, <1>6

(* What the operations of a traced node of the graph from the configuration
   read.                                                                      *)
NodeReads(node) ==
    IF node.op.type = "AttentionBlock" THEN {hf_param_name(node, p) : p \in BlockModules(node)}
    ELSE IF node.op.type = "MlpBlock" THEN {hf_param_name(node, p) : p \in {"gate_proj", "up_proj", "down_proj"}}
    ELSE IF node.op.type \in {"RmsNorm", "Linear", "Embedding"} THEN {resolve_weight_name(node)}
    ELSE {}

\* A node of it, of a model that is gated.
Configured(node, weights) ==
    /\ \/ node.op.type \in {"Placeholder", "Slice", "Output"}
       \/ HasPath(node) /\ node.op.type \in {"Embedding", "RmsNorm", "AttentionBlock", "MlpBlock", "Linear"}
    /\ node.op.type = "AttentionBlock" => node.op.heads \in Nat
    /\ node.op.type = "MlpBlock" =>
           {hf_param_name(node, "gate_proj"), hf_param_name(node, "up_proj")} \subseteq weights

LEMMA TracedReads ==
    ASSUME NEW node, NEW g, Configured(node, g.weights), NEW family, NEW node_map, Separate(node_map),
           NEW batch, NEW seq
    PROVE  ReadBy(map_traced_op(node, g, family, node_map, batch, seq), NodeReads(node))
<1> DEFINE ops == map_traced_op(node, g, family, node_map, batch, seq)
           type == node.op.type
<1>1. /\ type = "AttentionBlock" => ops = decompose_attention(node, g.config, node_map, batch, seq)
      /\ type = "MlpBlock" => ops = decompose_mlp(node, g.config, g.weights, node_map)
      /\ type = "RmsNorm" => ops = decompose_rms_norm(node, g.config, node_map)
      /\ type \in {"Linear", "Embedding"} => ops = MapWeighted(node, node_map)
      /\ type = "Slice" => ops = MapSlice(node, node_map)
      /\ type = "Placeholder" => ops = Held
      /\ type \in DOMAIN Direct \ TypesOfTheirOwn => ops = MapDirect(node, node_map)
  BY Translated
<1>2. "Output" \in DOMAIN Direct \ TypesOfTheirOwn
  BY DEF Direct, TypesOfTheirOwn
<1>3. type = "AttentionBlock" => ReadBy(decompose_attention(node, g.config, node_map, batch, seq), NodeReads(node))
  BY AttentionReads DEF Configured, NodeReads
<1>4. type = "MlpBlock" => ReadBy(decompose_mlp(node, g.config, g.weights, node_map), NodeReads(node))
  BY MlpReads DEF Configured, NodeReads
<1>5. type \in {"RmsNorm", "Linear", "Embedding"} =>
          /\ ReadBy(decompose_rms_norm(node, g.config, node_map), NodeReads(node))
          /\ ReadBy(MapWeighted(node, node_map), NodeReads(node))
  BY ModulesRead DEF Configured, NodeReads
<1>6. /\ type \in {"Slice", "Placeholder"} =>
             ReadBy(MapSlice(node, node_map), NodeReads(node)) /\ ReadBy(Held, NodeReads(node))
      /\ type = "Output" => ReadBy(MapDirect(node, node_map), NodeReads(node))
  BY OthersRead DEF NodeReads
<1>7. type \in {"Placeholder", "Slice", "Output", "Embedding", "RmsNorm", "AttentionBlock", "MlpBlock", "Linear"}
  BY DEF Configured
<1> HIDE DEF ops, type
<1>8. ReadBy(ops, NodeReads(node))
  BY <1>1, <1>2, <1>3, <1>4, <1>5, <1>6, <1>7
<1> QED
  BY <1>8 DEF ops

(* The weights the nodes made so far read, and what they are referred to by. *)
ReadsMade(made, weights) ==
    /\ made = [nodes |-> made.nodes, node_map |-> made.node_map, failed |-> made.failed]
    /\ made.failed \in BOOLEAN
    /\ ~made.failed => /\ ReadBy(made.nodes, weights)
                       /\ Separate(made.node_map)
                       /\ \A x \in Range(made.nodes) : x.id[1] = "id"

LEMMA NodesRead ==
    ASSUME NEW ops, NEW weights, ReadBy(ops, weights), NEW from, NEW id
    PROVE  LET new == [k \in DOMAIN ops |-> [id |-> id[k], op |-> ops[k].op, name |-> ops[k].name, from |-> from]]
           IN  /\ ReadBy(new, weights)
               /\ \A x \in Range(new) : \E k \in DOMAIN ops : x.id = id[k]
<1> DEFINE node(k) == [id |-> id[k], op |-> ops[k].op, name |-> ops[k].name, from |-> from]
           new == [k \in DOMAIN ops |-> node(k)]
           S == {node(k) : k \in DOMAIN ops}
<1>1. PICK O : ops \in Seq(O)
  BY DEF ReadBy, Listed
<1>2. Len(ops) \in Nat /\ DOMAIN ops = 1..Len(ops)
  BY <1>1
<1>3. \A k \in DOMAIN ops : node(k).op = ops[k].op /\ node(k).id = id[k]
  OBVIOUS
<1> HIDE DEF node
<1>4. new \in Seq(S) /\ Range(new) = S
  BY <1>2 DEF Range
<1>5. UNION {WeightsOf(x.op) : x \in S} = UNION {WeightsOf(x.op) : x \in Range(ops)}
  <2>1. Range(ops) = {ops[k] : k \in DOMAIN ops}
    BY DEF Range
  <2>2. UNION {WeightsOf(x.op) : x \in S} = UNION {WeightsOf(node(k).op) : k \in DOMAIN ops}
    OBVIOUS
  <2>3. UNION {WeightsOf(x.op) : x \in Range(ops)} = UNION {WeightsOf(ops[k].op) : k \in DOMAIN ops}
    BY <2>1
  <2> QED
    BY <1>3, <2>2, <2>3
<1>6. UNION {WeightsOf(x.op) : x \in Range(ops)} = weights
  BY DEF ReadBy
<1>7. \A x \in S : \E k \in DOMAIN ops : x.id = id[k]
  BY <1>3
<1> HIDE DEF new, S
<1>8. ReadBy(new, weights)
  BY <1>4, <1>5, <1>6, ListedBy DEF ReadBy
<1>9. \A x \in Range(new) : \E k \in DOMAIN ops : x.id = id[k]
  BY <1>4, <1>7
<1> QED
  BY <1>8, <1>9 DEF new, node

LEMMA AddReads ==
    ASSUME NEW g, NEW node, Configured(node, g.weights), NEW family, NEW batch, NEW seq,
           NEW made, NEW weights, ReadsMade(made, weights)
    PROVE  ReadsMade(AddNode(made, node, g, family, batch, seq), weights \cup NodeReads(node))
<1> DEFINE ops == map_traced_op(node, g, family, made.node_map, batch, seq)
           next == Len(made.nodes)
           id(k) == <<"id", next + k - 1, node.id>>
           ids == [k \in DOMAIN ops |-> id(k)]
           new == [k \in DOMAIN ops |-> [id |-> ids[k], op |-> ops[k].op, name |-> ops[k].name, from |-> node.id]]
           mapped == [t \in DOMAIN made.node_map \cup {node.id} |->
                         IF t = node.id THEN id(Len(ops)) ELSE made.node_map[t]]
           added == AddNode(made, node, g, family, batch, seq)
<1>1. ~made.failed => ReadBy(ops, NodeReads(node))
  BY TracedReads DEF ReadsMade
<1>2. new = [k \in DOMAIN ops |-> [id |-> id(k), op |-> ops[k].op, name |-> ops[k].name, from |-> node.id]]
  OBVIOUS
<1> HIDE DEF ops
<1>3. added = IF made.failed \/ Failed(ops) THEN [made EXCEPT !.failed = TRUE]
              ELSE [made EXCEPT !.nodes = made.nodes \o new, !.node_map = mapped]
  BY <1>2, Zenon DEF AddNode, ops
<1>4. CASE made.failed \/ Failed(ops)
  BY <1>3, <1>4 DEF ReadsMade
<1>5. CASE ~ (made.failed \/ Failed(ops))
  <2>1. ReadBy(new, NodeReads(node)) /\ \A x \in Range(new) : \E k \in DOMAIN ops : x.id = ids[k]
    <3>1. ReadBy(ops, NodeReads(node))
      BY <1>1, <1>5
    <3> HIDE DEF ids
    <3> QED
      BY <3>1, NodesRead
  <2>2. /\ made = [nodes |-> made.nodes, node_map |-> made.node_map, failed |-> made.failed]
        /\ ReadBy(made.nodes, weights) /\ Separate(made.node_map) /\ made.failed \in BOOLEAN
        /\ \A x \in Range(made.nodes) : x.id[1] = "id"
    BY <1>5 DEF ReadsMade
  <2>3. \A k : id(k)[1] = "id"
    OBVIOUS
  <2>4. Separate(mapped)
    <3> HIDE DEF id
    <3> QED
      BY <2>2, <2>3 DEF Separate
  <2>5. \A x \in Range(new) : x.id[1] = "id"
    <3> HIDE DEF id, new
    <3> QED
      BY <2>1, <2>3
  <2> HIDE DEF id, ids, new, mapped, next
  <2>6. added.nodes = made.nodes \o new /\ added.node_map = mapped /\ added.failed = made.failed
        /\ added = [nodes |-> added.nodes, node_map |-> added.node_map, failed |-> added.failed]
    BY <1>3, <1>5, <2>2
  <2>7. ReadBy(made.nodes \o new, weights \cup NodeReads(node))
    BY <2>1, <2>2, ReadConcat
  <2>8. Range(made.nodes \o new) = Range(made.nodes) \cup Range(new)
    <3>1. Listed(made.nodes, Range(made.nodes)) /\ Listed(new, Range(new))
      BY <2>1, <2>2 DEF ReadBy
    <3>2. Listed(made.nodes \o new, Range(made.nodes) \cup Range(new))
      BY <3>1, ListedConcat
    <3> QED
      BY <3>2 DEF Listed
  <2> HIDE DEF added
  <2>9. ReadsMade(added, weights \cup NodeReads(node))
    BY <2>2, <2>4, <2>5, <2>6, <2>7, <2>8 DEF ReadsMade
  <2> QED
    BY <2>9 DEF added
<1> QED
  BY <1>4, <1>5

LEMMA AllReads ==
    ASSUME NEW g, NEW T, g.nodes \in Seq(T), \A x \in Range(g.nodes) : Configured(x, g.weights),
           NEW family, NEW batch, NEW seq
    PROVE  ReadsMade(AllNodes(g, family, batch, seq), UNION {NodeReads(x) : x \in Range(g.nodes)})
<1> DEFINE n == Len(g.nodes)
           add(made, i) == AddNode(made, g.nodes[i], g, family, batch, seq)
           start == [nodes |-> <<>>, node_map |-> <<>>, failed |-> FALSE]
           upto(m) == UNION {NodeReads(g.nodes[i]) : i \in 1..m}
<1>1. n \in Nat /\ DOMAIN g.nodes = 1..n
  OBVIOUS
<1>2. PICK all : /\ all[0] = start
                 /\ \A i \in 1..n : all[i] = add(all[i - 1], i)
                 /\ AllNodes(g, family, batch, seq) = all[n]
  BY AllSteps
<1>3. ReadsMade(start, upto(0))
  <2>1. upto(0) = {}
    OBVIOUS
  <2>2. ReadBy(<<>>, {}) /\ Range(<<>>) = {} /\ Separate(<<>>)
    BY ReadSome DEF Range, Separate
  <2> HIDE DEF upto
  <2> QED
    BY <2>1, <2>2 DEF ReadsMade
<1>4. \A i \in 1..n : Configured(g.nodes[i], g.weights)
  BY <1>1 DEF Range
<1>5. \A i \in 1..n : \A made : ReadsMade(made, upto(i - 1)) => ReadsMade(add(made, i), upto(i))
  <2> SUFFICES ASSUME NEW i \in 1..n, NEW made, ReadsMade(made, upto(i - 1))
               PROVE  ReadsMade(add(made, i), upto(i))
    OBVIOUS
  <2>1. upto(i) = upto(i - 1) \cup NodeReads(g.nodes[i])
    <3>1. 1..i = (1..i - 1) \cup {i}
      BY <1>1
    <3> QED
      BY <3>1
  <2> HIDE DEF upto
  <2>2. ReadsMade(add(made, i), upto(i - 1) \cup NodeReads(g.nodes[i]))
    BY <1>4, AddReads
  <2> QED
    BY <2>1, <2>2
<1> HIDE DEF add, start, upto, n
<1>6. \A i \in 0..n : ReadsMade(all[i], upto(i))
  <2> DEFINE Numbers == {i \in 0..n : ReadsMade(all[i], upto(i))}
  <2>1. 0 \in Numbers
    BY <1>1, <1>2, <1>3
  <2>2. ASSUME NEW i \in 1..n, i - 1 \in Numbers PROVE i \in Numbers
    BY <1>1, <1>2, <1>5, <2>2
  <2>3. \A i \in 0..n : i \in Numbers
    <3> HIDE DEF Numbers
    <3> QED
      BY <1>1, <2>1, <2>2, UpTo
  <2> QED
    BY <2>3
<1>7. ReadsMade(all[n], upto(n))
  BY <1>1, <1>6
<1>8. upto(n) = UNION {NodeReads(x) : x \in Range(g.nodes)}
  BY <1>1 DEF upto, Range
<1> QED
  BY <1>2, <1>7, <1>8

(* The resolution of the names changes no weight. *)
LEMMA AliasesStay ==
    ASSUME NEW S, NEW nodes \in Seq(S), \A x \in Range(nodes) : x.id[1] = "id", NEW ref
    PROVE  \/ Resolve(ref, nodes) = ref
           \/ ref[1] = "alias" /\ Resolve(ref, nodes)[1] = "id"
<1>1. ASSUME NEW at \in SUBSET (DOMAIN nodes), at # {} PROVE nodes[Min(at)].id[1] = "id"
  <2>1. DOMAIN nodes \in SUBSET Nat
    OBVIOUS
  <2>2. PICK least \in at : \A n \in at : least <= n
    BY <1>1, <2>1, LeastExists
  <2>3. Min(at) \in at
    BY <2>2 DEF Min
  <2> QED
    BY <2>3 DEF Range
<1> DEFINE own == {i \in DOMAIN nodes : nodes[i].from = ref[3]}
           base == ref[2][1]
           at == {i \in own : Cardinality({j \in own : j < i}) = semantic_prefix_to_position[base]}
           named == {i \in DOMAIN nodes :
                       /\ nodes[i].from = ref[3]
                       /\ ref[2] \in {nodes[i].name, strip_trailing_dim_suffix(nodes[i].name)}}
<1>2. /\ at # {} => nodes[Min(at)].id[1] = "id"
      /\ named # {} => nodes[Min(named)].id[1] = "id"
  <2>1. at \in SUBSET (DOMAIN nodes) /\ named \in SUBSET (DOMAIN nodes)
    OBVIOUS
  <2> HIDE DEF at, named
  <2> QED
    BY <1>1, <2>1
<1>3. resolve_alias(ref, nodes) = IF ref[2] = Name(base) /\ base \in DOMAIN semantic_prefix_to_position /\ at # {}
                                  THEN nodes[Min(at)].id ELSE ref
  BY Zenon DEF resolve_alias
<1>4. Resolve(ref, nodes) = IF ref[1] # "alias" THEN ref
                            ELSE IF named # {} THEN nodes[Min(named)].id ELSE resolve_alias(ref, nodes)
  BY Zenon DEF Resolve
<1> HIDE DEF at, named, own, base
<1> QED
  BY <1>2, <1>3, <1>4

LEMMA ResolvedReads ==
    ASSUME NEW nodes, NEW fit, Noded(nodes, fit), NEW weights, ReadBy(nodes, weights),
           \A x \in Range(nodes) : x.id[1] = "id"
    PROVE  UNION {WeightsOf(Resolved(nodes)[i].op) : i \in DOMAIN Resolved(nodes)} = weights
<1>1. PICK S : nodes \in Seq(S) /\ \A x \in S : x = [id |-> x.id, op |-> x.op, name |-> x.name, from |-> x.from]
                                               /\ OfKind(x, fit)
  BY DEF Noded
<1> DEFINE new == Resolved(nodes)
<1>2. ASSUME NEW i \in DOMAIN nodes PROVE WeightsOf(new[i].op) = WeightsOf(nodes[i].op)
  <2> DEFINE x == nodes[i]
             refs == [k \in DOMAIN x.op.refs |-> Resolve(x.op.refs[k], nodes)]
  <2>1. x = [id |-> x.id, op |-> x.op, name |-> x.name, from |-> x.from] /\ OfKind(x, fit)
    BY <1>1
  <2>2. new[i] = [x EXCEPT !.op.refs = refs]
    BY DEF Resolved
  <2>3. \A k \in DOMAIN x.op.refs : \/ refs[k] = x.op.refs[k]
                                    \/ x.op.refs[k][1] = "alias" /\ refs[k][1] = "id"
    BY <1>1, AliasesStay
  <2>4. DOMAIN refs = DOMAIN x.op.refs
    OBVIOUS
  <2> HIDE DEF refs, new, x
  <2>5. new[i].op.weight = x.op.weight /\ new[i].op.refs = refs
    BY <2>1, <2>2 DEF OfKind, Op
  <2>6. {k \in DOMAIN refs : refs[k][1] = "weight"} = {k \in DOMAIN x.op.refs : x.op.refs[k][1] = "weight"}
    BY <2>3, <2>4
  <2>7. {refs[k][2] : k \in {k \in DOMAIN refs : refs[k][1] = "weight"}}
           = {x.op.refs[k][2] : k \in {k \in DOMAIN x.op.refs : x.op.refs[k][1] = "weight"}}
    BY <2>3, <2>4, <2>6
  <2>8. WeightsOf(new[i].op) = WeightsOf(x.op)
    BY <2>5, <2>7 DEF WeightsOf
  <2> QED
    BY <2>8 DEF x
<1>3. DOMAIN new = DOMAIN nodes
  BY DEF Resolved
<1>4. Range(nodes) = {nodes[i] : i \in DOMAIN nodes}
  BY DEF Range
<1> HIDE DEF new
<1>5. UNION {WeightsOf(new[i].op) : i \in DOMAIN new} = UNION {WeightsOf(x.op) : x \in Range(nodes)}
  BY <1>2, <1>3, <1>4
<1> QED
  BY <1>5 DEF ReadBy, new

(* The names of parameters, as paths with a leaf. *)
LEMMA PairJoined ==
    ASSUME NEW a, NEW b
    PROVE  <<a>> \o <<b>> = <<a, b>>
<1> DEFINE S == {a, b}
           s == <<a>>
           t == <<b>>
           u == <<a, b>>
<1>1. s \in Seq(S) /\ t \in Seq(S) /\ u \in Seq(S) /\ Len(s) = 1 /\ Len(t) = 1 /\ Len(u) = 2
      /\ s[1] = a /\ t[1] = b /\ u[1] = a /\ u[2] = b
  OBVIOUS
<1> HIDE DEF S, s, t, u
<1>2. s \o t \in Seq(S) /\ Len(s \o t) = 2
  BY <1>1, ConcatProperties
<1>3. \A i \in 1..2 : (s \o t)[i] = IF i <= 1 THEN s[i] ELSE t[i - 1]
  BY <1>1, ConcatProperties
<1>4. \A i \in 1..2 : (s \o t)[i] = u[i]
  <2> DEFINE c == s \o t
  <2>1. \A i \in 1..2 : c[i] = IF i <= 1 THEN s[i] ELSE t[i - 1]
    BY <1>3
  <2> HIDE DEF c
  <2>2. c[1] = s[1] /\ c[2] = t[1]
    BY <2>1
  <2> QED
    BY <1>1, <2>2 DEF c
<1>5. s \o t = u
  BY <1>1, <1>2, <1>4, SeqEqual
<1> QED
  BY <1>5 DEF s, t, u

LEMMA Appended ==
    ASSUME NEW S, NEW s \in Seq(S), NEW e
    PROVE  Append(s, e) = s \o <<e>>
<1>1. s \in Seq(S \cup {e}) /\ e \in S \cup {e}
  OBVIOUS
<1> QED
  BY <1>1, AppendIsConcat

LEMMA PathsAreSequences ==
    ASSUME NEW a, NEW b, NEW c, NEW S, a \in S, b \in S, c \in S
    PROVE  <<a>> \in Seq(S) /\ <<a, b>> \in Seq(S) /\ <<a, b, c>> \in Seq(S)
OBVIOUS

(* The parameter of a module of a layer. *)
LayerParam(i, name) == Layer(i) \o name \o <<"weight">>

LEMMA LayerParams ==
    ASSUME NEW i, NEW node, NEW module
    PROVE  /\ node.path = Layer(i) \o <<module>> =>
                  /\ HasPath(node)
                  /\ resolve_weight_name(node) = LayerParam(i, <<module>>)
                  /\ \A p : hf_param_name(node, p) = LayerParam(i, <<module, p>>)
<1> SUFFICES ASSUME node.path = Layer(i) \o <<module>>
             PROVE  /\ HasPath(node)
                    /\ resolve_weight_name(node) = LayerParam(i, <<module>>)
                    /\ \A p : hf_param_name(node, p) = LayerParam(i, <<module, p>>)
  OBVIOUS
<1> DEFINE s == Layer(i)
           t == <<module>>
           w == <<"weight">>
           S == {"model", "layers", i, module, "weight"}
<1>1. s \in Seq(S) /\ t \in Seq(S) /\ w \in Seq(S) /\ Len(t) = 1 /\ Len(s) = 3
  BY DEF Layer
<1>a. Layer(i) = s
  OBVIOUS
<1> HIDE DEF s, t, w, S
<1>2. s \o t \in Seq(S) /\ Len(s \o t) = 4
  <2>1. s \o t \in Seq(S) /\ Len(s \o t) = Len(s) + Len(t)
    BY <1>1, ConcatProperties
  <2> QED
    BY <1>1, <2>1
<1>3. s \o t # <<>>
  BY <1>2
<1>4. HasPath(node)
  BY <1>2, <1>3 DEF HasPath, Nowhere, t, s
<1>5. resolve_weight_name(node) = LayerParam(i, <<module>>)
  <2>1. resolve_weight_name(node) = Append(s \o t, "weight")
    BY <1>4 DEF resolve_weight_name, HasPath, s, t
  <2>2. Append(s \o t, "weight") = s \o t \o w
    BY <1>2, Appended DEF w
  <2> QED
    BY <2>1, <2>2 DEF LayerParam, s, t, w
<1>6. ASSUME NEW p PROVE hf_param_name(node, p) = LayerParam(i, <<module, p>>)
  <2> DEFINE q == <<p>>
             T == S \cup {p}
  <2>1. s \in Seq(T) /\ t \in Seq(T) /\ w \in Seq(T) /\ q \in Seq(T)
    BY <1>1
  <2>2. hf_param_name(node, p) = (s \o t) \o <<p, "weight">>
    BY <1>4 DEF hf_param_name, HasPath, s, t
  <2>3. <<p, "weight">> = q \o w /\ <<module, p>> = t \o q
    BY PairJoined DEF w, t
  <2> HIDE DEF q, T
  <2>4. (s \o t) \o (q \o w) = s \o (t \o q) \o w
    <3>1. (s \o t) \o (q \o w) = ((s \o t) \o q) \o w
      <4> DEFINE st == s \o t
      <4>1. st \in Seq(T) /\ q \in Seq(T) /\ w \in Seq(T)
        BY <2>1, ConcatProperties
      <4> HIDE DEF st
      <4>2. (st \o q) \o w = st \o (q \o w)
        BY <4>1, ConcatAssociative
      <4> QED
        BY <4>2 DEF st
    <3>2. (s \o t) \o q = s \o (t \o q)
      BY <2>1, ConcatAssociative
    <3> QED
      BY <3>1, <3>2
  <2> QED
    BY <2>2, <2>3, <2>4 DEF LayerParam, s, w
<1> QED
  BY <1>4, <1>5, <1>6

LEMMA TripleJoined ==
    ASSUME NEW a, NEW b, NEW c
    PROVE  <<a, b>> \o <<c>> = <<a, b, c>>
<1> DEFINE S == {a, b, c}
           s == <<a, b>>
           t == <<c>>
           u == <<a, b, c>>
<1>1. s \in Seq(S) /\ t \in Seq(S) /\ u \in Seq(S) /\ Len(s) = 2 /\ Len(t) = 1 /\ Len(u) = 3
      /\ s[1] = a /\ s[2] = b /\ t[1] = c /\ u[1] = a /\ u[2] = b /\ u[3] = c
  OBVIOUS
<1> HIDE DEF S, s, t, u
<1>2. s \o t \in Seq(S) /\ Len(s \o t) = 3
  <2>1. s \o t \in Seq(S) /\ Len(s \o t) = Len(s) + Len(t)
    BY <1>1, ConcatProperties
  <2> QED
    BY <1>1, <2>1
<1> DEFINE w == s \o t
<1>3. \A i \in 1..Len(s) + Len(t) : w[i] = IF i <= Len(s) THEN s[i] ELSE t[i - Len(s)]
  BY <1>1, ConcatProperties
<1> HIDE DEF w
<1>4. \A i \in 1..3 : w[i] = u[i]
  <2>1. w[1] = s[1] /\ w[2] = s[2] /\ w[3] = t[1]
    BY <1>1, <1>3
  <2>2. \A i \in 1..3 : i = 1 \/ i = 2 \/ i = 3
    OBVIOUS
  <2> QED
    BY <1>1, <2>1, <2>2
<1>5. s \o t = u
  BY <1>1, <1>2, <1>4, SeqEqual DEF w
<1> QED
  BY <1>5 DEF s, t, u

LEMMA ModelParams ==
    ASSUME NEW node, NEW a
    PROVE  /\ node.path = <<a>> => HasPath(node) /\ resolve_weight_name(node) = <<a, "weight">>
           /\ \A b : node.path = <<a, b>> => HasPath(node) /\ resolve_weight_name(node) = <<a, b, "weight">>
<1>1. ASSUME node.path = <<a>> PROVE HasPath(node) /\ resolve_weight_name(node) = <<a, "weight">>
  <2> DEFINE S == {a}
             s == <<a>>
  <2>1. s \in Seq(S) /\ s # <<>>
    OBVIOUS
  <2> HIDE DEF S
  <2>2. Append(s, "weight") = <<a, "weight">>
    <3>1. Append(s, "weight") = s \o <<"weight">>
      BY <2>1, Appended
    <3> QED
      BY <3>1, PairJoined
  <2> HIDE DEF s
  <2>3. node.path = s
    BY <1>1 DEF s
  <2> QED
    BY <2>1, <2>2, <2>3 DEF HasPath, resolve_weight_name, Nowhere
<1>2. ASSUME NEW b, node.path = <<a, b>>
      PROVE  HasPath(node) /\ resolve_weight_name(node) = <<a, b, "weight">>
  <2> DEFINE S == {a, b}
             s == <<a, b>>
  <2>1. s \in Seq(S) /\ s # <<>>
    OBVIOUS
  <2> HIDE DEF S
  <2>2. Append(s, "weight") = <<a, b, "weight">>
    <3>1. Append(s, "weight") = s \o <<"weight">>
      BY <2>1, Appended
    <3> QED
      BY <3>1, TripleJoined
  <2> HIDE DEF s
  <2>3. node.path = s
    BY <1>2 DEF s
  <2> QED
    BY <2>1, <2>2, <2>3 DEF HasPath, resolve_weight_name, Nowhere
<1> QED
  BY <1>1, <1>2

-----------------------------------------------------------------------------
(* What the nodes of a sequence read together. *)
ReadsOf(nodes, known, weights) ==
    /\ Listed(nodes, Range(nodes))
    /\ \A x \in Range(nodes) : Configured(x, known)
    /\ UNION {NodeReads(x) : x \in Range(nodes)} = weights

LEMMA ReadsOfListed ==
    ASSUME NEW nodes, NEW members, Listed(nodes, members), NEW known, \A x \in members : Configured(x, known)
    PROVE  ReadsOf(nodes, known, UNION {NodeReads(x) : x \in members})
BY DEF ReadsOf, Listed

LEMMA ReadsOfBoth ==
    ASSUME NEW known, NEW s, NEW P, ReadsOf(s, known, P), NEW t, NEW Q, ReadsOf(t, known, Q)
    PROVE  ReadsOf(s \o t, known, P \cup Q)
<1>1. Listed(s \o t, Range(s) \cup Range(t))
  BY ListedConcat DEF ReadsOf
<1>2. Range(s \o t) = Range(s) \cup Range(t)
  BY <1>1 DEF Listed
<1> QED
  BY <1>1, <1>2 DEF ReadsOf

LEMMA ReadsOfOne ==
    ASSUME NEW known, NEW a, Configured(a, known)
    PROVE  ReadsOf(<<a>>, known, NodeReads(a))
<1>1. ReadsOf(<<a>>, known, UNION {NodeReads(x) : x \in {a}})
  <2>1. Listed(<<a>>, {a})
    BY ListedSome
  <2> QED
    BY <2>1, ReadsOfListed
<1>2. UNION {NodeReads(x) : x \in {a}} = NodeReads(a)
  OBVIOUS
<1> QED
  BY <1>1, <1>2

LEMMA ReadsOfThree ==
    ASSUME NEW known, NEW a, NEW b, NEW c, Configured(a, known), Configured(b, known), Configured(c, known)
    PROVE  ReadsOf(<<a, b, c>>, known, NodeReads(a) \cup NodeReads(b) \cup NodeReads(c))
<1>1. ReadsOf(<<a, b, c>>, known, UNION {NodeReads(x) : x \in {a, b, c}})
  <2>1. Listed(<<a, b, c>>, {a, b, c})
    BY ListedSome
  <2> QED
    BY <2>1, ReadsOfListed
<1>2. UNION {NodeReads(x) : x \in {a, b, c}} = NodeReads(a) \cup NodeReads(b) \cup NodeReads(c)
  OBVIOUS
<1> QED
  BY <1>1, <1>2

LEMMA ReadsOfFlattened ==
    ASSUME NEW n \in Nat, NEW seqs, DOMAIN seqs = 1..n, seqs = [i \in 1..n |-> seqs[i]], NEW known,
           NEW read, \A i \in 1..n : ReadsOf(seqs[i], known, read[i]),
           NEW all, \A i \in 1..n : read[i] \subseteq all, \A w \in all : \E i \in 1..n : w \in read[i]
    PROVE  ReadsOf(FlattenSeq(seqs), known, all)
<1> DEFINE members == UNION {Range(seqs[i]) : i \in 1..n}
<1>1. Listed(FlattenSeq(seqs), members)
  BY ListedFlattened DEF ReadsOf
<1>2. \A x \in members : Configured(x, known)
  BY DEF ReadsOf
<1>3. UNION {NodeReads(x) : x \in members} = all
  <2>1. \A i \in 1..n : read[i] = UNION {NodeReads(x) : x \in Range(seqs[i])}
    BY DEF ReadsOf
  <2> QED
    BY <2>1
<1> HIDE DEF members
<1> QED
  BY <1>1, <1>2, <1>3, ReadsOfListed

(* What a layer of a gated decoder with RMS norms reads. *)
DecodeNames ==
    {<<"self_attn", p>> : p \in Projections}
    \cup {<<"mlp", p>> : p \in {"gate_proj", "up_proj", "down_proj"}}
    \cup {<<"input_layernorm">>, <<"post_attention_layernorm">>}
QkNames(qk_norm) == IF qk_norm THEN {<<"self_attn", "q_norm">>, <<"self_attn", "k_norm">>} ELSE {}
LayerReads(i, qk_norm) == {LayerParam(i, name) : name \in DecodeNames \cup QkNames(qk_norm)}

LEMMA NormReads ==
    ASSUME NEW known, NEW i, NEW module, NEW id, NEW in, NEW config, config.uses_rms_norm, NEW seq
    PROVE  ReadsOf(Norm(id, in, Layer(i) \o <<module>>, config, seq), known, {LayerParam(i, <<module>>)})
<1> DEFINE path == Layer(i) \o <<module>>
           op == [type |-> "RmsNorm", epsilon |-> config.layer_norm_epsilon]
           node == Node(id, op, <<in>>, path, <<1, seq, config.hidden>>, "fp16")
<1>1. Norm(id, in, path, config, seq) = <<node>>
  BY Zenon DEF Norm
<1>2. node.path = path /\ node.op = op
  BY DEF Node
<1>3. op.type = "RmsNorm"
  OBVIOUS
<1> HIDE DEF node, op
<1>4. HasPath(node) /\ resolve_weight_name(node) = LayerParam(i, <<module>>)
  BY <1>2, LayerParams
<1>5. Configured(node, known) /\ NodeReads(node) = {LayerParam(i, <<module>>)}
  BY <1>2, <1>3, <1>4 DEF Configured, NodeReads
<1>6. ReadsOf(<<node>>, known, {LayerParam(i, <<module>>)})
  BY <1>5, ReadsOfOne
<1> QED
  BY <1>1, <1>6

LEMMA BlockReads ==
    ASSUME NEW known, NEW i, NEW node, node.path = Layer(i) \o <<"self_attn">>,
           node.op.type = "AttentionBlock", node.op.heads \in Nat
    PROVE  ReadsOf(<<node>>, known,
                   {LayerParam(i, name) : name \in {<<"self_attn", p>> : p \in Projections}
                                                       \cup QkNames(node.op.has_qk_norm)})
<1> DEFINE names == {<<"self_attn", p>> : p \in Projections} \cup QkNames(node.op.has_qk_norm)
<1>1. HasPath(node) /\ \A p : hf_param_name(node, p) = LayerParam(i, <<"self_attn", p>>)
  BY LayerParams
<1>2. Configured(node, known) /\ NodeReads(node) = {hf_param_name(node, p) : p \in BlockModules(node)}
  BY <1>1 DEF Configured, NodeReads
<1>3. names = {<<"self_attn", p>> : p \in BlockModules(node)}
  BY DEF BlockModules, QkNames
<1> HIDE DEF names
<1>4. NodeReads(node) = {LayerParam(i, name) : name \in names}
  BY <1>1, <1>2, <1>3
<1>5. ReadsOf(<<node>>, known, {LayerParam(i, name) : name \in names})
  BY <1>2, <1>4, ReadsOfOne
<1> QED
  BY <1>5 DEF names

LEMMA GatedReads ==
    ASSUME NEW known, NEW i, NEW node, node.path = Layer(i) \o <<"mlp">>, node.op.type = "MlpBlock",
           {LayerParam(i, <<"mlp", "gate_proj">>), LayerParam(i, <<"mlp", "up_proj">>)} \subseteq known
    PROVE  ReadsOf(<<node>>, known,
                   {LayerParam(i, name) : name \in {<<"mlp", p>> : p \in {"gate_proj", "up_proj", "down_proj"}}})
<1> DEFINE modules == {"gate_proj", "up_proj", "down_proj"}
<1>1. HasPath(node) /\ \A p : hf_param_name(node, p) = LayerParam(i, <<"mlp", p>>)
  BY LayerParams
<1>2. Configured(node, known) /\ NodeReads(node) = {hf_param_name(node, p) : p \in modules}
  BY <1>1 DEF Configured, NodeReads
<1> HIDE DEF modules
<1>4. NodeReads(node) = {LayerParam(i, name) : name \in {<<"mlp", p>> : p \in modules}}
  BY <1>1, <1>2
<1>5. ReadsOf(<<node>>, known, {LayerParam(i, name) : name \in {<<"mlp", p>> : p \in modules}})
  BY <1>2, <1>4, ReadsOfOne
<1> QED
  BY <1>5 DEF modules

LEMMA FallbackLayerReads ==
    ASSUME NEW config, config.heads \in Nat, config.uses_rms_norm, NEW i, NEW prev, NEW features, NEW seq,
           NEW known,
           {LayerParam(i, <<"mlp", "gate_proj">>), LayerParam(i, <<"mlp", "up_proj">>)} \subseteq known
    PROVE  ReadsOf(FallbackLayer(i, prev, config, features, seq), known, LayerReads(i, features.has_qk_norm))
<1> DEFINE id(part) == <<"layer", i, part>>
           shape == <<1, seq, config.hidden>>
           normed == NormedBy(id("input_norm"), prev, config)
           attn == id("self_attn")
           normed2 == NormedBy(id("post_attn_norm"), attn, config)
           first == Norm(id("input_norm"), prev, Layer(i) \o <<"input_layernorm">>, config, seq)
           attention == [type |-> "AttentionBlock", heads |-> config.heads,
                         head_dim |-> config.head_dim, has_qk_norm |-> features.has_qk_norm]
           block == Node(attn, attention, <<normed, prev>>, Layer(i) \o <<"self_attn">>, shape, "fp16")
           second == Norm(id("post_attn_norm"), attn, Layer(i) \o <<"post_attention_layernorm">>, config, seq)
           mlp == [type |-> "MlpBlock", activation |-> config.hidden_act]
           gated == Node(id("mlp"), mlp, <<normed2, attn>>, Layer(i) \o <<"mlp">>, shape, "fp16")
           A1 == {<<"self_attn", p>> : p \in Projections} \cup QkNames(features.has_qk_norm)
           A2 == {<<"mlp", p>> : p \in {"gate_proj", "up_proj", "down_proj"}}
           P1 == {LayerParam(i, <<"input_layernorm">>)}
           P2 == {LayerParam(i, name) : name \in A1}
           P3 == {LayerParam(i, <<"post_attention_layernorm">>)}
           P4 == {LayerParam(i, name) : name \in A2}
<1>1. FallbackLayer(i, prev, config, features, seq) = first \o <<block>> \o second \o <<gated>>
  BY Zenon DEF FallbackLayer
<1>2. block.path = Layer(i) \o <<"self_attn">> /\ block.op = attention
      /\ gated.path = Layer(i) \o <<"mlp">> /\ gated.op = mlp
  BY DEF Node
<1>3. attention.type = "AttentionBlock" /\ attention.heads \in Nat
      /\ attention.has_qk_norm = features.has_qk_norm /\ mlp.type = "MlpBlock"
  OBVIOUS
<1> HIDE DEF block, gated, attention, mlp
<1>4. ReadsOf(first, known, P1) /\ ReadsOf(second, known, P3)
  BY NormReads
<1>5. ReadsOf(<<block>>, known, P2)
  BY <1>2, <1>3, BlockReads
<1>6. ReadsOf(<<gated>>, known, P4)
  BY <1>2, <1>3, GatedReads
<1>7. P1 \cup P2 \cup P3 \cup P4 = LayerReads(i, features.has_qk_norm)
  BY DEF LayerReads, DecodeNames
<1> DEFINE one == <<block>>
           two == <<gated>>
<1> HIDE DEF first, second, one, two, P1, P2, P3, P4
<1>8. ReadsOf(first \o one \o second \o two, known, P1 \cup P2 \cup P3 \cup P4)
  BY <1>4, <1>5, <1>6, ReadsOfBoth DEF one, two
<1> QED
  BY <1>1, <1>7, <1>8 DEF one, two

FinalReads == {<<"model", "norm", "weight">>, <<"lm_head", "weight">>}

LEMMA FallbackHeadReads ==
    ASSUME NEW config, config.uses_rms_norm, NEW prev, NEW seq, NEW known
    PROVE  ReadsOf(FallbackHead(prev, config, seq), known, FinalReads)
<1> DEFINE token == <<"hidden_state_last_token">>
           one == <<1, 1, config.vocab>>
           op == [type |-> "RmsNorm", epsilon |-> config.layer_norm_epsilon]
           slice == [type |-> "Slice", begin |-> <<0, seq - 1, 0>>, end |-> <<1, seq, config.hidden>>]
           linear == [type |-> "Linear", has_bias |-> FALSE]
           norm == Node(<<"final_norm">>, op, <<prev>>, <<"model", "norm">>, <<1, seq, config.hidden>>, "fp16")
           a == Node(token, slice, <<NormedBy(<<"final_norm">>, prev, config)>>, <<"model", "norm">>,
                     <<1, 1, config.hidden>>, "fp16")
           b == Node(<<"lm_head">>, linear, <<token>>, <<"lm_head">>, one, "fp16")
           c == Node(<<"output">>, Simple("Output"), <<<<"lm_head">>>>, Nowhere, one, "fp16")
<1>1. FallbackHead(prev, config, seq) = <<norm>> \o <<a, b, c>>
  <2>1. Norm(<<"final_norm">>, prev, <<"model", "norm">>, config, seq) = <<norm>>
    BY Zenon DEF Norm
  <2> QED
    BY <2>1, Zenon DEF FallbackHead
<1>2. norm.path = <<"model", "norm">> /\ norm.op = op /\ a.op = slice
      /\ b.path = <<"lm_head">> /\ b.op = linear /\ c.op = Simple("Output")
  BY DEF Node
<1>3. op.type = "RmsNorm" /\ slice.type = "Slice" /\ linear.type = "Linear" /\ Simple("Output").type = "Output"
  BY DEF Simple
<1> HIDE DEF norm, a, b, c, op, slice, linear
<1>4. HasPath(norm) /\ resolve_weight_name(norm) = <<"model", "norm", "weight">>
  BY <1>2, ModelParams
<1>5. HasPath(b) /\ resolve_weight_name(b) = <<"lm_head", "weight">>
  BY <1>2, ModelParams
<1>6. Configured(norm, known) /\ NodeReads(norm) = {<<"model", "norm", "weight">>}
  BY <1>2, <1>3, <1>4 DEF Configured, NodeReads
<1>7. Configured(a, known) /\ NodeReads(a) = {} /\ Configured(c, known) /\ NodeReads(c) = {}
  BY <1>2, <1>3 DEF Configured, NodeReads
<1>8. Configured(b, known) /\ NodeReads(b) = {<<"lm_head", "weight">>}
  BY <1>2, <1>3, <1>5 DEF Configured, NodeReads
<1> DEFINE first == <<norm>>
           rest == <<a, b, c>>
<1>9. ReadsOf(first, known, NodeReads(norm))
  BY <1>6, ReadsOfOne
<1>10. ReadsOf(rest, known, NodeReads(a) \cup NodeReads(b) \cup NodeReads(c))
  BY <1>7, <1>8, ReadsOfThree
<1> HIDE DEF first, rest
<1>11. ReadsOf(first \o rest, known, NodeReads(norm) \cup (NodeReads(a) \cup NodeReads(b) \cup NodeReads(c)))
  BY <1>9, <1>10, ReadsOfBoth
<1>12. NodeReads(norm) \cup (NodeReads(a) \cup NodeReads(b) \cup NodeReads(c)) = FinalReads
  BY <1>6, <1>7, <1>8 DEF FinalReads
<1> QED
  BY <1>1, <1>11, <1>12 DEF first, rest

(* What the prompt's function of such a model reads. *)
EmbeddingParam == <<"model", "embed_tokens", "weight">>
PromptReads(layers, qk_norm) ==
    {EmbeddingParam} \cup (UNION {LayerReads(i, qk_norm) : i \in 0..layers - 1}) \cup FinalReads

LEMMA GateIsKnown ==
    ASSUME NEW m, m.gated, NEW cfg, NEW i \in 0..cfg.layers - 1
    PROVE  {LayerParam(i, <<"mlp", "gate_proj">>), LayerParam(i, <<"mlp", "up_proj">>)}
               \subseteq named_parameters(m, cfg, "model")
<1>1. <<"mlp", "gate_proj">> \in BlockNames(m) /\ <<"mlp", "up_proj">> \in BlockNames(m)
  BY DEF BlockNames
<1>2. \A name \in BlockNames(m) : LayerParam(i, name) \in named_parameters(m, cfg, "model")
  <2> DEFINE w(k, name) == <<"model", "layers", k>> \o name \o <<"weight">>
         all == {w(k, name) : k \in 0..cfg.layers - 1, name \in BlockNames(m)}
         biases == {<<"model", "layers", k>> \o name \o <<"bias">> : k \in 0..cfg.layers - 1, name \in m.biased}
         rest == {<<"model", "embed_tokens", "weight">>, <<"model", "norm", "weight">>}
         last == IF m.tied THEN {} ELSE {<<"lm_head", "weight">>}
  <2>1. named_parameters(m, cfg, "model") = all \cup biases \cup rest \cup last
    BY DEF named_parameters
  <2>2. \A name : LayerParam(i, name) = w(i, name)
    BY DEF LayerParam, Layer
  <2> HIDE DEF w
  <2>3. \A name \in BlockNames(m) : w(i, name) \in all
    OBVIOUS
  <2> HIDE DEF all, biases, rest, last
  <2> QED
    BY <2>1, <2>2, <2>3
<1> QED
  BY <1>1, <1>2

LEMMA FallbackInputsRead ==
    ASSUME NEW config, NEW encdec, NEW seq, NEW known
    PROVE  ReadsOf(FallbackInputs(config, encdec, seq), known, {})
<1> DEFINE a == Placeholder(<<"encoder_hidden_states">>, <<1, seq, config.hidden>>, "fp16")
           b == Placeholder(<<"decoder_input_ids">>, <<1, seq>>, "int32")
           c == Placeholder(<<"input_ids">>, <<1, seq>>, "int32")
<1>1. FallbackInputs(config, encdec, seq) = IF encdec THEN <<a, b>> ELSE <<c>>
  BY Zenon DEF FallbackInputs
<1>2. a.op.type = "Placeholder" /\ b.op.type = "Placeholder" /\ c.op.type = "Placeholder"
  BY DEF Placeholder, Node, Simple
<1> HIDE DEF a, b, c
<1>3. \A x \in {a, b, c} : Configured(x, known) /\ NodeReads(x) = {}
  BY <1>2 DEF Configured, NodeReads
<1>4. UNION {NodeReads(x) : x \in {a, b}} = {} /\ UNION {NodeReads(x) : x \in {c}} = {}
  BY <1>3
<1>5. Listed(<<a, b>>, {a, b}) /\ Listed(<<c>>, {c})
  BY ListedSome
<1> DEFINE two == <<a, b>>
           one == <<c>>
<1> HIDE DEF two, one
<1>6. ReadsOf(two, known, UNION {NodeReads(x) : x \in {a, b}})
  BY <1>3, <1>5, ReadsOfListed DEF two
<1>7. ReadsOf(one, known, UNION {NodeReads(x) : x \in {c}})
  BY <1>3, <1>5, ReadsOfListed DEF one
<1> QED
  BY <1>1, <1>4, <1>6, <1>7 DEF two, one

LEMMA FallbackEmbeddingReads ==
    ASSUME NEW config, NEW encdec, NEW seq, NEW known
    PROVE  ReadsOf(<<FallbackEmbedding(config, encdec, seq)>>, known, {EmbeddingParam})
<1> DEFINE node == FallbackEmbedding(config, encdec, seq)
<1>1. node.path = <<"model", "embed_tokens">> /\ node.op.type = "Embedding"
  BY DEF FallbackEmbedding, Node, Simple
<1> HIDE DEF node
<1>2. HasPath(node) /\ resolve_weight_name(node) = EmbeddingParam
  BY <1>1, ModelParams DEF EmbeddingParam
<1>3. Configured(node, known) /\ NodeReads(node) = {EmbeddingParam}
  BY <1>1, <1>2 DEF Configured, NodeReads
<1>4. ReadsOf(<<node>>, known, {EmbeddingParam})
  BY <1>3, ReadsOfOne
<1> QED
  BY <1>4 DEF node

LEMMA FallbackReads ==
    ASSUME NEW m, m.gated, NEW tried, Prefix(tried) = "model", NEW seq,
           NEW config, config = extract_model_config(m),
           config.heads \in Nat, config.layers \in Nat, config.uses_rms_norm
    PROVE  LET g == build_fallback_graph(m, tried, seq)
           IN  ReadsOf(g.nodes, g.weights, PromptReads(config.layers, m.qk_norm))
<1> DEFINE g == build_fallback_graph(m, tried, seq)
           encdec == tried.class = "seq2seq_lm"
           inputs == FallbackInputs(config, encdec, seq)
           before(i) == IF i = 0 THEN <<"embed_tokens">> ELSE <<"layer", i - 1, "mlp">>
           layer(i) == FallbackLayer(i, before(i), config, discover_model_features(m), seq)
           layers == [i \in 1..config.layers |-> layer(i - 1)]
           embedding == <<FallbackEmbedding(config, encdec, seq)>>
           head == FallbackHead(before(config.layers), config, seq)
           n == config.layers
           read == [i \in 1..n |-> LayerReads(i - 1, m.qk_norm)]
<1>1. /\ g.nodes = inputs \o embedding \o FlattenSeq(layers) \o head
      /\ g.weights = named_parameters(m, config, "model")
  BY Zenon DEF build_fallback_graph
<1> HIDE DEF g
<1>2. ReadsOf(inputs, g.weights, {}) /\ ReadsOf(embedding, g.weights, {EmbeddingParam})
      /\ ReadsOf(head, g.weights, FinalReads)
  BY FallbackInputsRead, FallbackEmbeddingReads, FallbackHeadReads
<1> DEFINE P == {EmbeddingParam}
           Q == UNION {LayerReads(i, m.qk_norm) : i \in 0..n - 1}
<1>3. ReadsOf(FlattenSeq(layers), g.weights, Q)
  <2>1. ASSUME NEW i \in 1..n PROVE ReadsOf(layers[i], g.weights, read[i])
    <3>1. discover_model_features(m).has_qk_norm = m.qk_norm
      BY DEF discover_model_features
    <3>2. i - 1 \in 0..config.layers - 1
      OBVIOUS
    <3>3. {LayerParam(i - 1, <<"mlp", "gate_proj">>), LayerParam(i - 1, <<"mlp", "up_proj">>)} \subseteq g.weights
      BY <1>1, <3>2, GateIsKnown
    <3> QED
      BY <3>1, <3>3, FallbackLayerReads
  <2>2. layers = [i \in 1..n |-> layers[i]] /\ DOMAIN layers = 1..n /\ n \in Nat
    OBVIOUS
  <2>3. (\A i \in 1..n : read[i] \subseteq Q) /\ \A w \in Q : \E i \in 1..n : w \in read[i]
    <3>1. \A i \in 1..n : i - 1 \in 0..n - 1
      OBVIOUS
    <3>2. \A i \in 0..n - 1 : i + 1 \in 1..n /\ (i + 1) - 1 = i
      OBVIOUS
    <3> QED
      BY <3>1, <3>2
  <2> HIDE DEF layers, read, Q, n
  <2> QED
    BY <2>1, <2>2, <2>3, ReadsOfFlattened
<1>5. {} \cup P \cup Q \cup FinalReads = PromptReads(config.layers, m.qk_norm)
  BY DEF PromptReads
<1> HIDE DEF inputs, embedding, layers, head, P, Q
<1>6. ReadsOf(inputs \o embedding \o FlattenSeq(layers) \o head, g.weights, {} \cup P \cup Q \cup FinalReads)
  BY <1>2, <1>3, ReadsOfBoth DEF P, Q
<1> QED
  BY <1>1, <1>5, <1>6 DEF g

-----------------------------------------------------------------------------
(* A graph the tracer saw whole of a gated decoder with RMS norms is read as
   the configuration says, and so is the prompt's function made of it.        *)

Whole == SeenWhole /\ job.model.gated /\ graph.config.uses_rms_norm
AllReadsOf(g) == PromptReads(g.config.layers, job.model.qk_norm)
GraphWhole == Whole => graph.config.layers \in Nat /\ ReadsOf(graph.nodes, graph.weights, AllReadsOf(graph))
PromptWhole == Whole => graph.config.layers \in Nat /\ embedding_weights = AllReadsOf(graph)

ReadingInv ==
    /\ phase \in {"load", "trace"} => ~job.saved
    /\ phase \in GraphPhases => GraphWhole
    /\ phase \in BuiltPhases \/ package # <<>> => PromptWhole

LEMMA WholeKeeps ==
    /\ UNCHANGED <<job, graph, attempt>> => (Whole' <=> Whole) /\ (GraphWhole' <=> GraphWhole)
    /\ UNCHANGED <<job, graph, attempt, sir>> => (PromptWhole' <=> PromptWhole)
<1>1. UNCHANGED <<job, graph, attempt>> => (SeenWhole' <=> SeenWhole)
  BY DEF SeenWhole, Trying, Attempts
<1>2. UNCHANGED <<job, graph, attempt>> => (Whole' <=> Whole)
  BY <1>1 DEF Whole
<1>3. UNCHANGED <<job, graph, attempt>> => (GraphWhole' <=> GraphWhole)
  BY <1>2 DEF GraphWhole, AllReadsOf
<1>4. UNCHANGED <<job, graph, attempt, sir>> => (PromptWhole' <=> PromptWhole)
  BY <1>2 DEF PromptWhole, AllReadsOf, embedding_weights
<1> QED
  BY <1>2, <1>3, <1>4

\* The graphs of the configuration that is seen whole.
LEMMA SeenGraph ==
    ASSUME IsJob(job), NEW tried, Prefix(tried) = "model", NEW seq, job.model.gated,
           extract_model_config(job.model).uses_rms_norm
    PROVE  LET g == build_fallback_graph(job.model, tried, seq)
           IN  g.config.layers \in Nat /\ ReadsOf(g.nodes, g.weights, AllReadsOf(g))
<1> DEFINE config == extract_model_config(job.model)
           cfg == _resolve_effective_config(job.model)
           g == build_fallback_graph(job.model, tried, seq)
<1>1. cfg.heads \in Nat /\ cfg.layers \in Nat
  BY DEF IsJob, _resolve_effective_config
<1>2. config.heads \in Nat /\ config.layers \in Nat
  BY <1>1 DEF extract_model_config
<1>3. g.config = config
  BY Zenon DEF build_fallback_graph
<1> HIDE DEF config, g
<1>4. ReadsOf(g.nodes, g.weights, PromptReads(config.layers, job.model.qk_norm))
  BY <1>2, FallbackReads DEF config, g
<1> QED
  BY <1>2, <1>3, <1>4 DEF AllReadsOf, g

LEMMA SeenWhenTraced ==
    ASSUME CompileInv, ReadingInv, TraceSymbolically \/ TraceStructurally \/ load_pre_traced,
           phase' # "failed"
    PROVE  GraphWhole'
<1> SUFFICES ASSUME Whole'
             PROVE  graph'.config.layers \in Nat /\ ReadsOf(graph'.nodes, graph'.weights, AllReadsOf(graph)')
  BY DEF GraphWhole
<1>0. IsJob(job) /\ job' = job
  BY DEF CompileInv, TraceSymbolically, TraceStructurally, load_pre_traced
<1>1. CASE TraceSymbolically
  <2>1. graph' = trace_model_fx(job.model, job.fx, Trying, job.batch, job.seq)
    BY <1>1 DEF TraceSymbolically, Goto, Fail
  <2>2. ~graph'.fallback
    BY <2>1 DEF trace_model_fx
  <2> QED
    BY <2>2 DEF Whole, SeenWhole
<1>2. CASE TraceStructurally
  <2>1. graph' = build_fallback_graph(job.model, Trying, job.seq) /\ ~job.saved /\ attempt' = attempt
    BY <1>2 DEF TraceStructurally, ReadingInv
  <2>2. Trying' = Trying
    BY <1>0, <2>1 DEF Trying, Attempts
  <2>3. Trying.what = "CausalLM"
    BY <1>0, <2>1, <2>2 DEF Whole, SeenWhole
  <2>4. Prefix(Trying) = "model"
    BY <2>3, Zenon DEF Prefix
  <2>5. job.model.gated /\ extract_model_config(job.model).uses_rms_norm
    <3>1. graph'.config = extract_model_config(job.model)
      BY <2>1 DEF build_fallback_graph
    <3> QED
      BY <1>0, <3>1 DEF Whole
  <2> DEFINE g == build_fallback_graph(job.model, Trying, job.seq)
  <2>6. g.config.layers \in Nat /\ ReadsOf(g.nodes, g.weights, AllReadsOf(g))
    BY <1>0, <2>4, <2>5, SeenGraph
  <2>7. graph' = g
    BY <2>1
  <2> HIDE DEF g
  <2> QED
    BY <1>0, <2>6, <2>7 DEF AllReadsOf
<1>3. CASE load_pre_traced
  <2> DEFINE a == build_fallback_graph(job.model, Causal, job.saved_seq)
             b == trace_model_fx(job.model, job.fx, Causal, job.batch, job.saved_seq)
             short(g, known, sized) == [g EXCEPT !.weights = IF known THEN @ ELSE {},
                                                 !.config.head_dim = IF sized THEN @ ELSE 0]
  <2>1. SavedGraphs = {short(g, known, sized) : g \in {a, b}, known \in BOOLEAN, sized \in BOOLEAN}
    BY DEF SavedGraphs
  <2> HIDE DEF a, b, short
  <2>2. PICK g \in {a, b}, known \in BOOLEAN, sized \in BOOLEAN : graph' = short(g, known, sized)
    BY <1>3, <2>1 DEF load_pre_traced
  <2>3. graph'.fallback /\ graph'.weights # {} /\ job.model.gated /\ graph'.config.uses_rms_norm
    BY <1>0 DEF Whole, SeenWhole
  <2>4. /\ a = [nodes |-> a.nodes, config |-> a.config, weights |-> a.weights,
                weight_name_map |-> a.weight_name_map, inputs |-> a.inputs, fallback |-> a.fallback]
        /\ b = [nodes |-> b.nodes, config |-> b.config, weights |-> b.weights,
                weight_name_map |-> b.weight_name_map, inputs |-> b.inputs, fallback |-> b.fallback]
        /\ ~b.fallback
    BY DEF a, b, build_fallback_graph, trace_model_fx
  <2>5. a.config = extract_model_config(job.model)
        /\ a.config = [hidden |-> a.config.hidden, heads |-> a.config.heads, kv |-> a.config.kv,
                       layers |-> a.config.layers, inter |-> a.config.inter, vocab |-> a.config.vocab,
                       hidden_act |-> a.config.hidden_act, layer_norm_epsilon |-> a.config.layer_norm_epsilon,
                       uses_rope |-> a.config.uses_rope, uses_rms_norm |-> a.config.uses_rms_norm,
                       uses_gqa |-> a.config.uses_gqa, head_dim |-> a.config.head_dim]
    BY DEF a, build_fallback_graph, extract_model_config
  <2>6. graph'.fallback = g.fallback
    BY <2>2, <2>4 DEF short
  <2>7. g = a
    BY <2>2, <2>3, <2>4, <2>6
  <2>8. /\ graph'.nodes = a.nodes
        /\ graph'.weights = IF known THEN a.weights ELSE {}
        /\ graph'.config.layers = a.config.layers
        /\ graph'.config.uses_rms_norm = a.config.uses_rms_norm
    BY <2>2, <2>4, <2>5, <2>7 DEF short
  <2>9. Prefix(Causal) = "model"
    BY DEF Prefix, Causal, Attempt
  <2>10. a.config.layers \in Nat /\ ReadsOf(a.nodes, a.weights, AllReadsOf(a))
    BY <1>0, <2>3, <2>5, <2>8, <2>9, SeenGraph DEF a
  <2> QED
    BY <1>0, <2>3, <2>8, <2>10 DEF AllReadsOf
<1> QED
  BY <1>1, <1>2, <1>3

(* What the operations of nodes read together. *)
AllWeights(nodes) == UNION {WeightsOf(nodes[i].op) : i \in DOMAIN nodes}

LEMMA SirReads ==
    ASSUME NEW g, NEW family \in Families, NEW dim, Traced(g, dim), NEW weights, ReadsOf(g.nodes, g.weights, weights),
           NEW built, built = build_sir_from_trace(g, family), ~built.failed
    PROVE  AllWeights(built.nodes) = weights
<1> DEFINE dims == g.inputs[1]
           known == g.inputs # <<>> /\ Len(dims) >= 2
           batch == IF known THEN dims[1] ELSE 1
           rows == IF known THEN dims[2] ELSE 32
           fit == [kinds |-> Buildable(family), rows |-> rows, dim |-> dim]
           made == AllNodes(g, family, batch, rows)
<1>1. Noded(made.nodes, fit)
  <2>1. fit.kinds = Buildable(family) /\ fit.rows = rows /\ fit.dim = dim
    OBVIOUS
  <2> HIDE DEF fit, rows, batch
  <2> QED
    BY <2>1, AllKinds
<1>2. built.nodes = Resolved(made.nodes) /\ ~made.failed
  BY DEF build_sir_from_trace
<1> HIDE DEF made, fit, batch, rows, known, dims
<1>3. ReadsMade(made, UNION {NodeReads(x) : x \in Range(g.nodes)})
  <2>1. \A x \in Range(g.nodes) : Configured(x, g.weights)
    BY DEF ReadsOf
  <2>2. PICK T : g.nodes \in Seq(T)
    BY DEF Traced
  <2> QED
    BY <2>1, <2>2, AllReads DEF made
<1>4. UNION {NodeReads(x) : x \in Range(g.nodes)} = weights
  BY DEF ReadsOf
<1>5. ReadBy(made.nodes, weights) /\ \A x \in Range(made.nodes) : x.id[1] = "id"
  BY <1>2, <1>3, <1>4 DEF ReadsMade
<1> DEFINE nodes == made.nodes
<1>6. Noded(nodes, fit) /\ ReadBy(nodes, weights) /\ \A x \in Range(nodes) : x.id[1] = "id"
  BY <1>1, <1>5
<1>7. built.nodes = Resolved(nodes)
  BY <1>2
<1> HIDE DEF nodes
<1>8. AllWeights(Resolved(nodes)) = weights
  BY <1>6, ResolvedReads DEF AllWeights
<1> QED
  BY <1>7, <1>8

LEMMA ReadWhenBuilt == ASSUME CompileInv, ReadingInv, BuildSir PROVE ReadingInv'
<1> USE DEF PreparedPhases, BuiltPhases, LocatePhases, GraphPhases
<1>1. /\ phase = "named" /\ UNCHANGED <<job, graph, attempt, package>>
      /\ sir' = build_sir_from_trace(graph, target_family)
      /\ phase' = IF sir'.failed THEN "failed" ELSE "built"
  BY DEF BuildSir, Goto, tracer
<1>2. HasTarget /\ GraphReady /\ package = <<>> /\ GraphWhole
  BY <1>1 DEF CompileInv, ReadingInv
<1>3. GraphWhole' /\ (Whole' <=> Whole)
  BY <1>1, <1>2, WholeKeeps
<1>4. ASSUME phase' = "built", Whole' PROVE graph'.config.layers \in Nat /\ embedding_weights' = AllReadsOf(graph)'
  <2>1. ~sir'.failed
    BY <1>1, <1>4
  <2>2. target_family \in Families /\ Traced(graph, head_dim(graph))
    BY <1>2, TargetIsKnown DEF GraphReady
  <2>3. graph.config.layers \in Nat /\ ReadsOf(graph.nodes, graph.weights, AllReadsOf(graph))
    BY <1>2, <1>3, <1>4 DEF GraphWhole
  <2>4. AllWeights(sir'.nodes) = AllReadsOf(graph)
    <3> DEFINE built == build_sir_from_trace(graph, target_family)
               weights == AllReadsOf(graph)
    <3>1. sir' = built /\ ~built.failed
      BY <1>1, <2>1
    <3>2. ReadsOf(graph.nodes, graph.weights, weights)
      BY <2>3
    <3> HIDE DEF weights
    <3>3. AllWeights(built.nodes) = weights
      BY <2>2, <3>1, <3>2, SirReads
    <3> HIDE DEF built
    <3> QED
      BY <3>1, <3>3 DEF weights
  <2>5. embedding_weights' = AllWeights(sir'.nodes)
    BY DEF embedding_weights, AllWeights
  <2> QED
    BY <1>1, <2>3, <2>4, <2>5 DEF AllReadsOf
<1> QED
  BY <1>1, <1>2, <1>3, <1>4 DEF ReadingInv, PromptWhole

LEMMA TablesReadNothing ==
    ASSUME NEW fit, Noded(sir.nodes, fit), rope_tables_refs \subseteq {Shared}
    PROVE  UNION {WeightsOf(run_static_tables_pass[i].op) : i \in DOMAIN run_static_tables_pass} = embedding_weights
<1> DEFINE const(table, ref) ==
               [id |-> <<"static", table, ref>>, op |-> Op("Const", <<>>, NoWeight, <<table, ref>>),
                name |-> <<table, <<>>, ref>>, from |-> <<"static">>]
           refs == SetToSeq(rope_tables_refs)
           consts == [r \in DOMAIN refs |-> [t \in DOMAIN Linear |-> const(Linear[t], refs[r])]]
           N == {const(Linear[t], Shared) : t \in DOMAIN Linear}
           all == run_static_tables_pass
<1>1. all = FlattenSeq(consts) \o sir.nodes
  BY Zenon DEF run_static_tables_pass
<1>2. refs \in Seq({Shared})
  BY SharedSequence
<1>3. \A table, ref : WeightsOf(const(table, ref).op) = {}
  BY DEF WeightsOf, Op
<1> HIDE DEF refs, const
<1>4. \A r \in DOMAIN refs : [t \in DOMAIN Linear |-> const(Linear[t], refs[r])] \in Seq(N)
  <2>1. \A r \in DOMAIN refs : refs[r] = Shared
    BY <1>2
  <2>2. DOMAIN Linear = 1..4
    BY DEF Linear
  <2> QED
    BY <2>1, <2>2
<1>5. consts \in Seq(Seq(N))
  <2> HIDE DEF N
  <2> QED
    BY <1>2, <1>4
<1>6. \A x \in N : WeightsOf(x.op) = {}
  BY <1>3
<1> HIDE DEF consts, N, all
<1> DEFINE first == FlattenSeq(consts)
           second == sir.nodes
<1>7. first \in Seq(N) /\ \A x \in Range(first) : x \in N
  <2>1. first \in Seq(N)
    BY <1>5, Flattened
  <2> QED
    BY <2>1 DEF Range
<1>8. ReadBy(first, {})
  <2>1. Listed(first, Range(first))
    BY <1>7, ListedBy
  <2>2. UNION {WeightsOf(x.op) : x \in Range(first)} = {}
    BY <1>6, <1>7
  <2> QED
    BY <2>1, <2>2 DEF ReadBy
<1>9. ReadBy(second, embedding_weights)
  <2>1. Listed(second, Range(second))
    BY ListedBy DEF Noded
  <2>2. UNION {WeightsOf(x.op) : x \in Range(second)} = embedding_weights
    BY DEF embedding_weights, Range
  <2> QED
    BY <2>1, <2>2 DEF ReadBy
<1>10. all = first \o second
  BY <1>1
<1> HIDE DEF first, second
<1>11. ReadBy(all, {} \cup embedding_weights)
  BY <1>8, <1>9, <1>10, ReadConcat
<1>12. UNION {WeightsOf(x.op) : x \in Range(all)} = embedding_weights
  BY <1>11 DEF ReadBy
<1>13. UNION {WeightsOf(all[i].op) : i \in DOMAIN all} = embedding_weights
  BY <1>12 DEF Range
<1> QED
  BY <1>13 DEF all

LEMMA ReadWhenTabled == ASSUME CompileInv, ReadingInv, StaticTables PROVE ReadingInv'
<1> USE DEF PreparedPhases, BuiltPhases, LocatePhases, GraphPhases
<1>1. /\ phase = "reported" /\ phase' = "tabled" /\ UNCHANGED <<job, graph, attempt, package>>
      /\ sir' = [sir EXCEPT !.nodes = run_static_tables_pass]
  BY DEF StaticTables, Goto, tracer
<1>2. SirReady /\ GraphWhole /\ PromptWhole
  BY <1>1 DEF CompileInv, ReadingInv
<1>3. GraphWhole' /\ (Whole' <=> Whole)
  BY <1>1, <1>2, WholeKeeps
<1>4. embedding_weights' = embedding_weights
  <2>1. sir'.nodes = run_static_tables_pass
    BY <1>1, <1>2 DEF SirReady, IsSir
  <2>2. UNION {WeightsOf(run_static_tables_pass[i].op) : i \in DOMAIN run_static_tables_pass} = embedding_weights
    BY <1>2, RefsAreShared, TablesReadNothing DEF SirReady
  <2>3. embedding_weights' = UNION {WeightsOf(sir'.nodes[i].op) : i \in DOMAIN sir'.nodes}
    BY DEF embedding_weights
  <2> QED
    BY <2>1, <2>2, <2>3
<1>5. PromptWhole'
  BY <1>1, <1>2, <1>3, <1>4 DEF PromptWhole, AllReadsOf
<1> QED
  BY <1>1, <1>3, <1>5 DEF ReadingInv

\* The steps that change neither the graph nor the nodes.
LEMMA ReadingStays ==
    ASSUME CompileInv, ReadingInv, UNCHANGED <<job, graph, attempt, sir>>,
           phase' \in {"load", "trace"} => phase \in {"load", "trace"} \/ ~job.saved,
           phase' \in GraphPhases => phase \in GraphPhases,
           phase' \in BuiltPhases \/ package' # <<>> => phase \in BuiltPhases \/ package # <<>>
    PROVE  ReadingInv'
BY WholeKeeps DEF ReadingInv

LEMMA ReadingStep == ASSUME CompileInv, ReadingInv, [Next]_vars PROVE ReadingInv'
<1> USE DEF PreparedPhases, BuiltPhases, LocatePhases, GraphPhases
<1>1. CASE ParseTarget
  <2>1. UNCHANGED <<job, graph, attempt, sir, package>> /\ phase' \in {"saved", "load", "failed"}
        /\ (phase' = "load" => ~job.saved)
    BY <1>1 DEF ParseTarget, tracer, compiler, Goto, Fail
  <2> QED
    BY <2>1, ReadingStays
<1>2. CASE LoadModel \/ LoadTraceFails \/ TracerFails \/ Evict \/ UNCHANGED vars
  <2>1. UNCHANGED <<job, graph, attempt, sir, package>>
        /\ (phase' \in {phase, "failed"} \/ (phase = "load" /\ phase' = "trace"))
    BY <1>2 DEF LoadModel, LoadTraceFails, TracerFails, Evict, tracer, compiler, Goto, Fail, vars
  <2> QED
    BY <2>1, ReadingStays
<1>3. CASE LoadFails
  <2>1. UNCHANGED <<job, package>> /\ phase = "load" /\ phase' \in {"load", "failed"}
    BY <1>3 DEF LoadFails, compiler, Goto, Fail
  <2>2. package = <<>>
    BY <2>1 DEF CompileInv
  <2> QED
    BY <2>1, <2>2 DEF ReadingInv
<1>4. CASE SnapshotLocally \/ Download \/ DownloadOffline \/ ScanCache \/ ScanLocal \/ WalkCache
  <2>1. /\ phase \in LocatePhases
        /\ \E found : \E next \in LocatePhases \cup {"traced"} : Locate(found, next)
    <3>1. AfterDownload \in LocatePhases
      BY DEF AfterDownload
    <3> HIDE DEF LocatePhases
    <3>2. LocatePhases = {"locate_1a", "locate_1b", "locate_2", "locate_3", "locate_4"}
      BY DEF LocatePhases
    <3> QED
      BY <1>4, <3>1, <3>2 DEF SnapshotLocally, Download, DownloadOffline, ScanCache, ScanLocal, WalkCache
  <2>2. UNCHANGED <<job, graph, attempt, sir, package>> /\ phase' \in LocatePhases \cup {"traced"}
    BY <2>1 DEF Locate, Goto, compiler
  <2> QED
    BY <2>1, <2>2, ReadingStays
<1>5. CASE TraceSymbolically \/ TraceStructurally \/ load_pre_traced
  <2>1. /\ UNCHANGED <<job, sir, package, attempt>>
        /\ phase \in {"trace", "saved"} /\ phase' \in {"locate_1a", "traced", "failed"}
    BY <1>5 DEF TraceSymbolically, TraceStructurally, load_pre_traced, compiler, Goto, Fail
  <2>2. package = <<>>
    BY <2>1 DEF CompileInv
  <2>3. phase' # "failed" => GraphWhole'
    BY <1>5, SeenWhenTraced
  <2> QED
    BY <2>1, <2>2, <2>3 DEF ReadingInv
<1>6. CASE ResolveArchitecture \/ Validate \/ Rewrite \/ ResolveWeights \/ Prepare \/ Lower
           \/ ValidatePackage \/ WriteArtifact
  <2>1. UNCHANGED <<job, graph, attempt, sir, package>>
    BY <1>6 DEF ResolveArchitecture, Validate, Rewrite, ResolveWeights, Prepare, Lower, ValidatePackage,
                WriteArtifact, MayFail, tracer, compiler
  <2>2. \/ phase = "traced" /\ phase' \in {"named", "failed"}
        \/ phase \in BuiltPhases /\ phase' \in BuiltPhases \cup {"failed"}
    BY <1>6 DEF ResolveArchitecture, Validate, Rewrite, ResolveWeights, Prepare, Lower, ValidatePackage,
                WriteArtifact, MayFail, Goto, Fail
  <2> QED
    BY <2>1, <2>2, ReadingStays
<1>7. CASE EmitMultiFunction \/ EmitSingleFunction
  <2>1. UNCHANGED <<job, graph, attempt, sir>> /\ phase = "lowered" /\ phase' \in {"emitted", "failed"}
    BY <1>7 DEF EmitMultiFunction, EmitSingleFunction, Emit, Goto, Fail, tracer, compiler
  <2> QED
    BY <2>1, ReadingStays
<1> QED
  BY <1>1, <1>2, <1>3, <1>4, <1>5, <1>6, <1>7, ReadWhenBuilt, ReadWhenTabled DEF Next

LEMMA ReadingInit == ASSUME Init PROVE ReadingInv
BY DEF Init, ReadingInv, PreparedPhases, BuiltPhases, LocatePhases, GraphPhases

LEMMA ReadingAlways == Spec => []ReadingInv
<1>1. Init => ReadingInv
  BY ReadingInit
<1>2. CompileInv /\ ReadingInv /\ [Next]_vars => ReadingInv'
  BY ReadingStep
<1> QED
  BY <1>1, <1>2, CompileAlways, PTL DEF Spec

(* The module a parameter is of, by its name. *)
LEMMA LeafOf ==
    ASSUME NEW i, NEW S, Layer(i) \in Seq(S), <<"weight">> \in Seq(S), NEW t \in Seq(S), t # <<>>
    PROVE  /\ Len(LayerParam(i, t)) = Len(t) + 4
           /\ LayerParam(i, t)[Len(t) + 3] = t[Len(t)]
<1> DEFINE s == Layer(i)
           w == <<"weight">>
<1>0. s \in Seq(S) /\ w \in Seq(S)
  OBVIOUS
<1>1. Len(s) = 3 /\ Len(w) = 1 /\ Len(t) \in Nat /\ Len(t) >= 1
  <2>1. Len(s) = 3 /\ Len(w) = 1
    BY DEF Layer
  <2> HIDE DEF s, w
  <2>2. Len(t) \in Nat \ {0}
    BY <1>0, EmptySeq
  <2> QED
    BY <2>1, <2>2
<1> DEFINE st == s \o t
           all == st \o w
<1> HIDE DEF s, w
<1>2. st \in Seq(S) /\ Len(st) = Len(s) + Len(t)
      /\ \A k \in 1..Len(s) + Len(t) : st[k] = IF k <= Len(s) THEN s[k] ELSE t[k - Len(s)]
  BY <1>0, ConcatProperties
<1> HIDE DEF st
<1>3. Len(all) = Len(st) + Len(w)
      /\ \A k \in 1..Len(st) + Len(w) : all[k] = IF k <= Len(st) THEN st[k] ELSE w[k - Len(st)]
  <2>1. st \in Seq(S) /\ w \in Seq(S)
    BY <1>0, <1>2
  <2> QED
    BY <2>1, ConcatProperties
<1> HIDE DEF all
<1> DEFINE n == Len(t)
<1>4. Len(all) = n + 4
  BY <1>1, <1>2, <1>3
<1>5. n \in Nat /\ n >= 1 /\ Len(st) = n + 3 /\ Len(s) = 3 /\ Len(w) = 1
  BY <1>1, <1>2
<1>6. n + 3 \in 1..Len(st) + Len(w) /\ n + 3 <= Len(st)
  <2> HIDE DEF n
  <2> QED
    BY <1>5
<1>7. all[n + 3] = st[n + 3]
  BY <1>3, <1>6
<1>8. n + 3 \in 1..Len(s) + Len(t) /\ ~ (n + 3 <= Len(s)) /\ (n + 3) - Len(s) = n
  BY <1>1
<1>9. st[n + 3] = t[n]
  BY <1>2, <1>8
<1> QED
  BY <1>4, <1>7, <1>9 DEF LayerParam, all, st, s, w

LEMMA LeafOfLayer ==
    ASSUME NEW i, NEW a
    PROVE  Len(LayerParam(i, <<a>>)) = 5 /\ LayerParam(i, <<a>>)[4] = a
<1> DEFINE S == {"model", "layers", i, "weight", a}
           t == <<a>>
           w == LayerParam(i, t)
<1>1. /\ Layer(i) \in Seq(S) /\ <<"weight">> \in Seq(S)
      /\ t \in Seq(S) /\ t # <<>> /\ Len(t) = 1 /\ t[1] = a
  BY DEF Layer
<1> HIDE DEF S, t
<1>2. Len(w) = Len(t) + 4 /\ w[Len(t) + 3] = t[Len(t)]
  BY <1>1, LeafOf
<1> HIDE DEF w
<1>3. Len(w) = 5 /\ w[4] = a
  BY <1>1, <1>2
<1> QED
  BY <1>3 DEF w, t

LEMMA LeafOfModule ==
    ASSUME NEW i, NEW a, NEW b
    PROVE  Len(LayerParam(i, <<a, b>>)) = 6 /\ LayerParam(i, <<a, b>>)[5] = b
<1> DEFINE S == {"model", "layers", i, "weight", a, b}
           t == <<a, b>>
           w == LayerParam(i, t)
<1>1. /\ Layer(i) \in Seq(S) /\ <<"weight">> \in Seq(S)
      /\ t \in Seq(S) /\ t # <<>> /\ Len(t) = 2 /\ t[2] = b
  BY DEF Layer
<1> HIDE DEF S, t
<1>2. Len(w) = Len(t) + 4 /\ w[Len(t) + 3] = t[Len(t)]
  BY <1>1, LeafOf
<1> HIDE DEF w
<1>3. Len(w) = 6 /\ w[5] = b
  BY <1>1, <1>2
<1> QED
  BY <1>3 DEF w, t

\* Whether a parameter is of a norm of queries or keys.
OfQkNorm(w) == Len(w) > 1 /\ w[Len(w) - 1] \in {"q_norm", "k_norm"}

LEMMA WhichAreNorms ==
    ASSUME NEW i
    PROVE  /\ \A name \in DecodeNames : ~OfQkNorm(LayerParam(i, name)) /\ LayerParam(i, name) # EmbeddingParam
           /\ \A qk_norm : \A name \in QkNames(qk_norm) : OfQkNorm(LayerParam(i, name))
           /\ \A w \in FinalReads : ~OfQkNorm(w) /\ w # EmbeddingParam
<1>1. ASSUME NEW name \in DecodeNames
      PROVE  ~OfQkNorm(LayerParam(i, name)) /\ LayerParam(i, name) # EmbeddingParam
  <2> DEFINE w == LayerParam(i, name)
  <2>1. Len(EmbeddingParam) = 3
    BY DEF EmbeddingParam
  <2>2. CASE name \in {<<"input_layernorm">>, <<"post_attention_layernorm">>}
    <3>1. PICK a \in {"input_layernorm", "post_attention_layernorm"} : name = <<a>>
      BY <2>2
    <3>2. Len(w) = 5 /\ w[4] = a
      <4>1. w = LayerParam(i, <<a>>)
        BY <3>1
      <4> HIDE DEF w
      <4> QED
        BY <4>1, LeafOfLayer
    <3> HIDE DEF w
    <3>3. ~OfQkNorm(w) /\ w # EmbeddingParam
      BY <2>1, <3>1, <3>2 DEF OfQkNorm
    <3> QED
      BY <3>3 DEF w
  <2>3. CASE name \in {<<"self_attn", p>> : p \in Projections}
                        \cup {<<"mlp", p>> : p \in {"gate_proj", "up_proj", "down_proj"}}
    <3>1. PICK a \in {"self_attn", "mlp"}, b \in Projections \cup {"gate_proj", "up_proj", "down_proj"} :
             name = <<a, b>>
      BY <2>3
    <3>2. Len(w) = 6 /\ w[5] = b
      <4>1. w = LayerParam(i, <<a, b>>)
        BY <3>1
      <4> HIDE DEF w
      <4> QED
        BY <4>1, LeafOfModule
    <3>3. b \notin {"q_norm", "k_norm"}
      BY DEF Projections
    <3> HIDE DEF w
    <3>4. ~OfQkNorm(w) /\ w # EmbeddingParam
      BY <2>1, <3>2, <3>3 DEF OfQkNorm
    <3> QED
      BY <3>4 DEF w
  <2> QED
    BY <2>2, <2>3 DEF DecodeNames
<1>2. ASSUME NEW qk_norm, NEW name \in QkNames(qk_norm) PROVE OfQkNorm(LayerParam(i, name))
  <2> DEFINE w == LayerParam(i, name)
  <2>1. PICK b \in {"q_norm", "k_norm"} : name = <<"self_attn", b>>
    BY DEF QkNames
  <2>2. Len(w) = 6 /\ w[5] = b
    <3>1. w = LayerParam(i, <<"self_attn", b>>)
      BY <2>1
    <3> HIDE DEF w
    <3> QED
      BY <3>1, LeafOfModule
  <2> HIDE DEF w
  <2>3. OfQkNorm(w)
    BY <2>2 DEF OfQkNorm
  <2> QED
    BY <2>3 DEF w
<1>3. ASSUME NEW w \in FinalReads PROVE ~OfQkNorm(w) /\ w # EmbeddingParam
  <2>1. CASE w = <<"model", "norm", "weight">>
    BY <2>1 DEF OfQkNorm, EmbeddingParam
  <2>2. CASE w = <<"lm_head", "weight">>
    BY <2>2 DEF OfQkNorm, EmbeddingParam
  <2> QED
    BY <2>1, <2>2 DEF FinalReads
<1> QED
  BY <1>1, <1>2, <1>3

LEMMA DecodeReads ==
    ASSUME NEW g, g.config.layers \in Nat, NEW qk_norm
    PROVE  LET prompt == PromptReads(g.config.layers, qk_norm)
           IN  /\ decode_weights(g) = {w \in prompt : ~OfQkNorm(w) /\ w # EmbeddingParam}
               /\ ~qk_norm => \A w \in prompt : ~OfQkNorm(w)
<1> DEFINE layers == 0..g.config.layers - 1
           decode == {LayerParam(i, name) : i \in layers, name \in DecodeNames}
           normed == {LayerParam(i, name) : i \in layers, name \in QkNames(qk_norm)}
           prompt == PromptReads(g.config.layers, qk_norm)
<1>1. decode_weights(g) = decode \cup FinalReads
  <2> DEFINE of(i, name) == <<"model", "layers", i>> \o name \o <<"weight">>
             names == {<<"self_attn", p>> : p \in Projections}
                      \cup {<<"mlp", p>> : p \in {"gate_proj", "up_proj", "down_proj"}}
                      \cup {<<"input_layernorm">>, <<"post_attention_layernorm">>}
             all == {of(i, name) : i \in layers, name \in names}
  <2>1. \A i, name : LayerParam(i, name) = of(i, name)
    BY DEF LayerParam, Layer
  <2>2. names = DecodeNames
    BY DEF DecodeNames
  <2>3. decode_weights(g) = all \cup FinalReads
    BY DEF decode_weights, FinalReads
  <2> HIDE DEF of, layers, names
  <2>4. all = decode
    BY <2>1, <2>2
  <2> HIDE DEF all, decode
  <2> QED
    BY <2>3, <2>4
<1>2. \A w : w \in prompt <=> w = EmbeddingParam \/ w \in decode \/ w \in normed \/ w \in FinalReads
  <2> DEFINE U == UNION {LayerReads(i, qk_norm) : i \in layers}
  <2>1. prompt = {EmbeddingParam} \cup U \cup FinalReads
    BY DEF PromptReads
  <2>2. \A w : w \in U <=> w \in decode \/ w \in normed
    <3>1. \A w : w \in U <=> \E i \in layers : w \in LayerReads(i, qk_norm)
      OBVIOUS
    <3>2. \A i, w : w \in LayerReads(i, qk_norm)
                      <=> \E name \in DecodeNames \cup QkNames(qk_norm) : w = LayerParam(i, name)
      BY Zenon DEF LayerReads
    <3>3. \A w : w \in decode <=> \E i \in layers, name \in DecodeNames : w = LayerParam(i, name)
      OBVIOUS
    <3>4. \A w : w \in normed <=> \E i \in layers, name \in QkNames(qk_norm) : w = LayerParam(i, name)
      OBVIOUS
    <3> HIDE DEF U, decode, normed, layers
    <3> QED
      BY <3>1, <3>2, <3>3, <3>4
  <2> HIDE DEF U, decode, normed, prompt
  <2> QED
    BY <2>1, <2>2
<1>3. \A w \in decode : ~OfQkNorm(w) /\ w # EmbeddingParam
  BY WhichAreNorms
<1>4. \A w \in normed : OfQkNorm(w)
  BY WhichAreNorms
<1>5. \A w \in FinalReads : ~OfQkNorm(w) /\ w # EmbeddingParam
  BY WhichAreNorms
<1>7. ~qk_norm => \A w : w \notin normed
  BY DEF QkNames
<1>8. ~OfQkNorm(EmbeddingParam)
  BY DEF OfQkNorm, EmbeddingParam
<1> HIDE DEF decode, normed, prompt
<1>6. decode_weights(g) = {w \in prompt : ~OfQkNorm(w) /\ w # EmbeddingParam}
  BY <1>1, <1>2, <1>3, <1>4, <1>5
<1>9. ~qk_norm => \A w \in prompt : ~OfQkNorm(w)
  BY <1>2, <1>3, <1>5, <1>7, <1>8
<1> QED
  BY <1>6, <1>9 DEF prompt

LEMMA CacheIsLongEnough ==
    ASSUME IsJob(job), job.max_seq_len = 0
    PROVE  actual_max_seq_len >= job.seq
<1> DEFINE lengths == {job.max_positions, 64 * job.seq}
           longest == Max(lengths)
<1>1. job.max_positions \in Nat /\ job.seq \in Nat
  BY DEF IsJob
<1>2. \E x \in lengths : \A y \in lengths : x >= y
  BY <1>1
<1>3. longest \in lengths /\ \A y \in lengths : longest >= y
  <2>1. longest = CHOOSE x \in lengths : \A y \in lengths : x >= y
    BY DEF Max
  <2> HIDE DEF lengths, longest
  <2> QED
    BY <1>2, <2>1
<1>4. actual_max_seq_len = longest
  BY DEF actual_max_seq_len
<1> HIDE DEF longest
<1>5. longest >= 64 * job.seq /\ longest \in Nat
  BY <1>1, <1>3
<1> QED
  BY <1>1, <1>4, <1>5

LEMMA WeightsAreShared == ASSUME CompileInv, ReadingInv PROVE FunctionsShareWeights
<1> DEFINE prompt == package[1]
           decode == package[2]
           norms == QkNormsOf(prompt.weights)
<1> SUFFICES ASSUME Len(package) = 2, SeenWhole, job.model.gated, graph.config.uses_rms_norm
             PROVE  /\ \E lost \in StepLosses(prompt.weights) :
                           decode.weights = prompt.weights \ (lost \cup {<<"model", "embed_tokens", "weight">>})
                    /\ \A ref \in rope_tables_refs :
                           LET ours == prompt.tables[<<"sin_tab", ref>>]
                               theirs == decode.tables[<<"sin_tab", ref>>]
                           IN  /\ theirs[4] = ours[4]
                               /\ job.max_seq_len = 0 => theirs[3] >= ours[3]
  BY Zenon DEF FunctionsShareWeights
<1>1. package = <<Embedding, decode_step>>
  <2>1. Len(<<>>) # 2 /\ Len(<<Embedding>>) # 2
    OBVIOUS
  <2> QED
    BY <2>1 DEF CompileInv
<1>2. package # <<>> /\ AllReady /\ IsJob(job)
  BY <1>1 DEF CompileInv
<1>3. /\ prompt.weights = embedding_weights /\ prompt.tables = prepared.tables
      /\ decode.weights = decode_weights(graph) /\ decode.tables = prepared.decode_tables
  BY <1>1 DEF Embedding, decode_step
<1>4. graph.config.layers \in Nat /\ embedding_weights = PromptReads(graph.config.layers, job.model.qk_norm)
  BY <1>2 DEF ReadingInv, PromptWhole, Whole, AllReadsOf
<1> HIDE DEF prompt, decode
<1>5. \E lost \in StepLosses(prompt.weights) :
          decode.weights = prompt.weights \ (lost \cup {<<"model", "embed_tokens", "weight">>})
  <2> DEFINE step(lost) == prompt.weights \ (lost \cup {EmbeddingParam})
  <2>1. norms = {w \in prompt.weights : OfQkNorm(w)}
    BY DEF OfQkNorm, QkNormsOf
  <2>2. /\ decode.weights = {w \in prompt.weights : ~OfQkNorm(w) /\ w # EmbeddingParam}
        /\ ~job.model.qk_norm => \A w \in prompt.weights : ~OfQkNorm(w)
    <3> DEFINE reads == PromptReads(graph.config.layers, job.model.qk_norm)
    <3>1. /\ decode_weights(graph) = {w \in reads : ~OfQkNorm(w) /\ w # EmbeddingParam}
          /\ ~job.model.qk_norm => \A w \in reads : ~OfQkNorm(w)
      BY <1>4, DecodeReads
    <3>2. prompt.weights = reads
      BY <1>3, <1>4
    <3> HIDE DEF reads
    <3> QED
      BY <1>3, <3>1, <3>2
  <2> HIDE DEF norms
  <2>3. decode.weights = step(norms)
    BY <2>1, <2>2
  <2>4. ~job.model.qk_norm => decode.weights = step({})
    BY <2>2
  <2> HIDE DEF step
  <2>5. StepLosses(prompt.weights) = IF job.model.qk_norm THEN {{}, norms} ELSE {{}}
    BY DEF StepLosses, norms
  <2>6. \E lost \in StepLosses(prompt.weights) : decode.weights = step(lost)
    BY <2>3, <2>4, <2>5
  <2> QED
    BY <2>6 DEF step, EmbeddingParam
<1>6. ASSUME NEW ref \in rope_tables_refs
      PROVE  LET ours == prompt.tables[<<"sin_tab", ref>>]
                 theirs == decode.tables[<<"sin_tab", ref>>]
             IN  /\ theirs[4] = ours[4]
                 /\ job.max_seq_len = 0 => theirs[3] >= ours[3]
  <2> DEFINE dim == head_dim(graph)
             ours == prompt.tables[<<"sin_tab", ref>>]
             theirs == decode.tables[<<"sin_tab", ref>>]
  <2>1. ours = <<1, 1, job.seq, dim>> /\ theirs = <<1, 1, actual_max_seq_len, dim>>
    <3>1. /\ prompt.tables = ensure_tables_computed(job.seq, dim)
          /\ decode.tables = ensure_tables_computed(actual_max_seq_len, dim)
      BY <1>2, <1>3 DEF AllReady
    <3> HIDE DEF dim
    <3>2. /\ ensure_tables_computed(job.seq, dim)[<<"sin_tab", ref>>] = <<1, 1, job.seq, dim>>
          /\ ensure_tables_computed(actual_max_seq_len, dim)[<<"sin_tab", ref>>] = <<1, 1, actual_max_seq_len, dim>>
      BY Computations
    <3> QED
      BY <3>1, <3>2
  <2> HIDE DEF dim
  <2>2. theirs[4] = ours[4] /\ theirs[3] = actual_max_seq_len /\ ours[3] = job.seq
    <3> HIDE DEF ours, theirs
    <3> QED
      BY <2>1
  <2> QED
    BY <1>2, <2>2, CacheIsLongEnough
<1> QED
  BY <1>5, <1>6

(* The functions of a package fit each other and their tables, for every job:
   the rotation and mask tables are of the shape the heads are laid out in
   (sir_build.rs, static_table_resolver.rs), every table a function reads is
   computed for it (main.rs), and the decode step (build_decode_step_sir of
   main.rs) reads the parameters that the prompt's function does, all but the
   embedding and, if the model has them, the norms of queries and keys.       *)
THEOREM FunctionsAlwaysFit == Spec => []FunctionsFit
<1>1. CompileInv /\ ReadingInv => FunctionsFit
  BY TablesFit, TablesThere, WeightsAreShared DEF FunctionsFit
<1> QED
  BY <1>1, CompileAlways, ReadingAlways, PTL
=============================================================================
