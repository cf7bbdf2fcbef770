------------------------------ MODULE WorldSave ------------------------------
(***************************************************************************)
(* World saves and restarts: full saves (write_data, uimport.cpp),         *)
(* incremental saves (savedata.cpp), the files they leave in               *)
(* world_data_path, and the start that reads them back (read_data,         *)
(* uimport.cpp; loaddata.cpp).                                             *)
(*                                                                         *)
(* Two threads work on the files: `main' is the thread that holds the lock *)
(* of the world (while it saves, nothing else changes the world), `saver'  *)
(* the asynchronous part of a full save, which goes on after write_data()  *)
(* has returned.  What an object or the guilds contain is abstracted to a  *)
(* number: the change that produced it.  0 is "not there".                 *)
(***************************************************************************)
EXTENDS Naturals, Sequences, FiniteSets

CONSTANTS
    Serials,      \* the serials of the objects that may exist
    SaveFiles,    \* the data files, in the order in which write_data() commits them
    Home,         \* Home[s]: the data file that holds the object with serial s
    NoFile,       \* a file that does not exist
    CrashAt,      \* where the server may stop without saving (see Phase)
    Failures,     \* whether writing an incremental save may throw
    MaxChanges,   \* bound: changes of the world
    MaxFull,      \* bound: full saves
    MaxIncr,      \* bound: incremental saves between two full saves
    MaxStarts     \* bound: restarts

\* The files of a SaveContext.  An instance may leave out those that would hold
\* nothing that it models.
SaveContext == << "pol", "objects", "pcs", "pcequip", "npcs", "npcequip", "items",
                  "multis", "storage", "resource", "guilds", "datastore", "parties" >>

ContextFiles == { SaveContext[i] : i \in 1..Len(SaveContext) }
ObjectFiles == { SaveContext[i] : i \in 3..9 }      \* "pcs" to "storage"
FileNames == { SaveFiles[i] : i \in 1..Len(SaveFiles) }

Guilds == "guild data"        \* all that guilds.txt holds: written by full saves only
Keys == Serials \cup {Guilds}
Versions == 0..(MaxChanges + 1)
Snapshots == [Keys -> Versions]
HomeOf(k) == IF k = Guilds THEN "guilds" ELSE Home[k]

DataFiles == UNION { [S -> Versions] : S \in SUBSET Serials }    \* an incr-data-<i>
IndexFiles == [modified : SUBSET Serials, deleted : SUBSET Serials]   \* an incr-index-<i>

ASSUME SaveFilesAssumption ==
    /\ SaveFiles \in Seq(ContextFiles)
    /\ {"objects", "storage", "guilds"} \subseteq FileNames
    /\ \E place \in [1..Len(SaveFiles) -> 1..Len(SaveContext)] :
          /\ \A i, j \in 1..Len(SaveFiles) : i < j => place[i] < place[j]
          /\ \A i \in 1..Len(SaveFiles) : SaveFiles[i] = SaveContext[place[i]]
ASSUME HomeAssumption == Home \in [Serials -> ObjectFiles \cap FileNames]
ASSUME BoundsAssumption == {MaxChanges, MaxFull, MaxIncr, MaxStarts} \subseteq Nat
ASSUME FailuresAssumption == Failures \in BOOLEAN
ASSUME GuildsAssumption == Guilds \notin Serials
ASSUME NoFileAssumption == NoFile \notin DataFiles \cup IndexFiles

Kinds == {"data", "index"}    \* incr-data-<i> and incr-index-<i>
Suffixes == {"txt", "ndt"}
FilesOf(kind) == IF kind = "data" THEN DataFiles ELSE IndexFiles

VARIABLES
    obj,            \* objStorageManager.objecthash and the flags of the objects in it
    guilds,         \* gamestate.guilds
    changes,        \* how many changes the world has seen (ghost)
    dirty_deleted, clean_deleted,                     \* ObjectHash
    incremental_save_count, incremental_saves_disabled,  \* ObjectStorageManager
    main,           \* what the thread that holds the lock is doing
    saver,          \* the asynchronous thread of the last full save
    pending,        \* what the SaveContext wrote or is writing to the .ndt files
    txt,            \* txt[k]: what k's <file>.txt says of k
    ndt,            \* the <file>.ndt that exist
    incr,           \* incr[kind][suffix][i]: the contents of incr-<kind>-<i>.<suffix>
    bak,            \* the incr-<kind>-<i>.bak that exist
    saves,          \* the last completed save and all later ones (ghost)
    fulls, starts   \* how many full saves and starts there were

world  == << obj, guilds, changes, dirty_deleted, clean_deleted >>
counts == << incremental_save_count, incremental_saves_disabled >>
full   == << saver, pending, txt, ndt >>
incrs  == << incr, bak >>
vars   == << world, counts, full, incrs, main, saves, fulls, starts >>

-----------------------------------------------------------------------------
(* The world.                                                              *)

Absent == [at |-> "none", ver |-> 0, dirty |-> FALSE, apart |-> FALSE]
Stored(v) == IF v = 0 THEN Absent ELSE [Absent EXCEPT !.at = "live", !.ver = v]

\* The objects that printOn() reaches in a full save: all but those that lie,
\* at whatever depth, in an owner that is not saved.
Written(s) == obj[s].at = "live" /\ ~obj[s].apart

\* What the data files have to say of the world.
Snapshot == [k \in Keys |-> IF k = Guilds THEN guilds
                            ELSE IF Written(k) THEN obj[k].ver ELSE 0]

Changing == /\ main.stage = "play"
            /\ changes < MaxChanges
            /\ changes' = changes + 1

\* Bug: serials of objects whose deletion is not saved yet count as unused.
UnusedUnlessSaved(s) == obj[s].at = "none" /\ s \notin clean_deleted

\* What GetNextUnusedItemSerial() and GetNextUnusedCharSerial() return.
Unused(s) == obj[s].at = "none" /\ s \notin dirty_deleted \cup clean_deleted

Create(s) ==
    /\ Changing
    /\ Unused(s)
    /\ obj' = [obj EXCEPT ![s] = [Stored(changes' + 1) EXCEPT !.dirty = TRUE]]
    /\ UNCHANGED << guilds, dirty_deleted, clean_deleted >>

\* The object's own moves, into and out of an owner that is not saved, are
\* changes as well.
Change(s) ==
    /\ Changing
    /\ obj[s].at = "live"
    /\ \E apart \in BOOLEAN :
           obj' = [obj EXCEPT ![s] = [@ EXCEPT !.ver = changes' + 1, !.dirty = TRUE, !.apart = apart]]
    /\ UNCHANGED << guilds, dirty_deleted, clean_deleted >>

ChangeGuilds ==
    /\ Changing
    /\ guilds' = changes' + 1
    /\ UNCHANGED << obj, dirty_deleted, clean_deleted >>

\* A container around the object moves into or out of an owner that is not
\* saved, or has its saveonexit assigned: nothing marks what it contains.
Carry(s) ==
    /\ Changing
    /\ obj[s].at = "live"
    /\ obj' = [obj EXCEPT ![s] = [@ EXCEPT !.apart = ~obj[s].apart]]
    /\ UNCHANGED << guilds, dirty_deleted, clean_deleted >>

\* "we will have to write a 'object deleted' directive once"
destroy(s) ==
    /\ Changing
    /\ obj[s].at = "live"
    /\ obj' = [obj EXCEPT ![s] = [@ EXCEPT !.at = "orphan", !.dirty = TRUE, !.apart = FALSE]]
    /\ UNCHANGED << guilds, dirty_deleted, clean_deleted >>

\* The sweep reaches an orphan to which nothing else refers any more.
Reap(s) ==
    /\ main.stage = "play"
    /\ obj[s].at = "orphan"
    /\ obj' = [obj EXCEPT ![s] = Absent]
    /\ dirty_deleted' = dirty_deleted \cup {s}
    /\ UNCHANGED << guilds, changes, clean_deleted >>

World ==
    /\ \/ \E s \in Serials : Create(s) \/ Change(s) \/ Carry(s) \/ destroy(s) \/ Reap(s)
       \/ ChangeGuilds
    /\ UNCHANGED << counts, full, incrs, main, saves, fulls, starts >>

-----------------------------------------------------------------------------
(* What a start reads from the files.                                      *)

\* read_data() starts only if no save was interrupted, which it sees by these.
Refused == {"objects", "storage"} \cap ndt # {}

Existing(kind, suffix, i) == i \in 1..MaxIncr /\ incr[kind][suffix][i] # NoFile

\* load_incremental_indexes() reads indexes 1, 2, ... up to the first gap.
IncrementalCount == CHOOSE n \in 0..MaxIncr :
                       /\ \A i \in 1..n : Existing("index", "txt", i)
                       /\ ~Existing("index", "txt", n + 1)

Index(i) == incr["index"]["txt"][i]
Deleted == MaxIncr + 1        \* UINT_MAX

\* Bug: the first index that names the serial decides.
get_save_indexFirst(s) ==
    LET naming == { i \in 1..IncrementalCount : s \in Index(i).modified \cup Index(i).deleted }
    IN  IF naming = {} THEN 0
        ELSE LET first == CHOOSE i \in naming : \A j \in naming : i <= j
             IN  IF s \in Index(first).deleted THEN Deleted ELSE first

\* The last index that names the serial decides.
get_save_index(s) ==
    LET naming == { i \in 1..IncrementalCount : s \in Index(i).modified \cup Index(i).deleted }
    IN  IF naming = {} THEN 0
        ELSE LET last == CHOOSE i \in naming : \A j \in naming : j <= i
             IN  IF s \in Index(last).deleted THEN Deleted ELSE last

\* The places an object is read from: 0 is its full save's file.
Copies(s) == { i \in 0..IncrementalCount :
                 /\ get_save_index(s) <= i
                 /\ IF i = 0 THEN txt[s] # 0
                             ELSE Existing("data", "txt", i) /\ s \in DOMAIN incr["data"]["txt"][i] }

\* Reading an object twice ends the start with "Data integrity error".
Duplicated == { s \in Serials : Cardinality(Copies(s)) > 1 }

Read(s) == IF Copies(s) = {} THEN 0
           ELSE LET i == CHOOSE i \in Copies(s) : TRUE
                IN  IF i = 0 THEN txt[s] ELSE incr["data"]["txt"][i][s]

Loaded == [k \in Keys |-> IF k = Guilds THEN txt[Guilds] ELSE Read(k)]

-----------------------------------------------------------------------------
(* The two threads.                                                        *)

Idle == [at |-> "idle", file |-> 0]
Playing == [stage |-> "play", i |-> 0, kind |-> "data", half |-> "old",
            todo |-> {}, deleted |-> {}]

\* The objects that a save with this snapshot leaves out of the files.
Missing(snap) == { s \in Serials : obj[s].at = "live" /\ snap[s] = 0 }

\* The ghost records of the saves: a restart must give the snapshot of one.
Begin(type, snap) ==
    Append(saves, [type |-> type, snap |-> snap, done |-> FALSE, missing |-> Missing(snap)])

Complete(i) == [SubSeq(saves, i, Len(saves)) EXCEPT ![1].done = TRUE]

\* An incremental save does not replace the record of a full save that is
\* still being committed.
CompleteIncremental ==
    LET n == Len(saves)
    IN  IF \E i \in 1..n : saves[i].type = "full" /\ ~saves[i].done
        THEN [saves EXCEPT ![n].done = TRUE]
        ELSE Complete(n)

CompleteFull == Complete(CHOOSE i \in 1..Len(saves) : saves[i].type = "full" /\ ~saves[i].done)

\* What printing an object in a full save does to its flag.
Cleaned(s) == IF Written(s) THEN [obj[s] EXCEPT !.dirty = FALSE] ELSE obj[s]

\* write_data() up to the end of its critical part: the SaveContext opens the
\* .ndt files, and every object is formatted into them, before the world goes on.
write_data ==
    /\ main.stage = "play"
    /\ saver = Idle                 \* SaveContext::ready()
    /\ fulls < MaxFull
    /\ fulls' = fulls + 1
    /\ ndt' = FileNames
    /\ pending' = Snapshot
    /\ obj' = [s \in Serials |-> Cleaned(s)]
    /\ saver' = [at |-> "flush", file |-> 1]
    /\ main' = [Playing EXCEPT !.stage = "retire", !.i = 1]
    /\ saves' = Begin("full", Snapshot)
    /\ UNCHANGED << guilds, changes, dirty_deleted, clean_deleted, counts, txt, incrs, starts >>

\* ~SaveContext(): until then the .ndt files are incomplete.
Flush ==
    /\ saver.at = "flush"
    /\ saver' = [saver EXCEPT !.at = "old"]
    /\ UNCHANGED << world, counts, pending, txt, ndt, incrs, main, saves, fulls, starts >>

In(file) == { k \in Keys : HomeOf(k) = file }

\* commit( file ), first half: what was <file>.txt becomes <file>.bak.
CommitOld ==
    /\ saver.at = "old"
    /\ txt' = [k \in Keys |-> IF k \in In(SaveFiles[saver.file]) THEN 0 ELSE txt[k]]
    /\ saver' = [saver EXCEPT !.at = "new"]
    /\ UNCHANGED << world, counts, pending, ndt, incrs, main, saves, fulls, starts >>

\* Bug: one file too many.
CommitsPastEnd == saver.file <= Len(SaveFiles)

CommitsGoOn == saver.file < Len(SaveFiles)

\* commit( file ), second half: <file>.ndt becomes <file>.txt.
CommitNew ==
    LET file == SaveFiles[saver.file] IN
    /\ saver.at = "new"
    /\ txt' = [k \in Keys |-> IF k \in In(file) THEN pending[k] ELSE txt[k]]
    /\ ndt' = ndt \ {file}
    /\ IF CommitsGoOn
       THEN /\ saver' = [at |-> "old", file |-> saver.file + 1]
            /\ UNCHANGED saves
       ELSE /\ saver' = Idle
            /\ saves' = IF main.stage = "retire" THEN saves ELSE CompleteFull
    /\ UNCHANGED << world, counts, pending, incrs, main, fulls, starts >>

Saver == Flush \/ CommitOld \/ CommitNew

\* The next of the four renames that an incremental save's two files need.
Following(m) == IF m.half = "old" THEN [m EXCEPT !.half = "new"]
                ELSE [m EXCEPT !.half = "old", !.kind = "index"]

LastHalf == main.kind = "index" /\ main.half = "new"

\* incr-<kind>-<i>.<suffix> gets this content.
Put(files, kind, suffix, i, content) == [files EXCEPT ![kind][suffix][i] = content]

\* rename( ndtfile, datfile )
Moved(kind, i) ==
    Put(Put(incr, kind, "txt", i, incr[kind]["ndt"][i]), kind, "ndt", i, NoFile)

\* Bug: counts the files by incremental_save_count, one short.
AnyFileCounted(i) == i < incremental_save_count

\* commit( "incr-data-i" ) and commit( "incr-index-i" ) find something to do.
AnyFile(i) == \E kind \in Kinds :
    \/ Existing(kind, "txt", i)
    \/ Existing(kind, "ndt", i)
    \/ << kind, i >> \in bak

AtStartOf(m) == m.kind = "data" /\ m.half = "old"

\* commit_incremental_saves(): the same renames, for i = 1, 2, ... until none
\* of i's files exists.  What is left as .ndt becomes .txt here as well.
commit_incremental_saves ==
    /\ main.stage = "retire"
    /\ ~AtStartOf(main) \/ AnyFile(main.i)
    /\ IF main.half = "old"
       THEN /\ bak' = IF Existing(main.kind, "txt", main.i)
                      THEN bak \cup {<< main.kind, main.i >>}
                      ELSE bak \ {<< main.kind, main.i >>}
            /\ incr' = Put(incr, main.kind, "txt", main.i, NoFile)
       ELSE /\ incr' = Moved(main.kind, main.i)
            /\ UNCHANGED bak
    /\ main' = IF LastHalf THEN [main EXCEPT !.i = @ + 1, !.kind = "data", !.half = "old"]
                           ELSE Following(main)
    /\ UNCHANGED << world, counts, full, saves, fulls, starts >>

\* The rest of write_data().
write_data_returns ==
    /\ main.stage = "retire"
    /\ AtStartOf(main)
    /\ ~AnyFile(main.i)
    /\ main' = Playing
    /\ incremental_save_count' = 0
    /\ incremental_saves_disabled' = FALSE
    /\ dirty_deleted' = {}
    /\ clean_deleted' = {}
    /\ saves' = IF saver = Idle THEN CompleteFull ELSE saves
    /\ UNCHANGED << obj, guilds, changes, full, incrs, fulls, starts >>

-----------------------------------------------------------------------------
(* Incremental saves.                                                      *)

save_index == incremental_save_count + 1
NoObjects == [s \in {} |-> 0]
NoIndex == [modified |-> {}, deleted |-> {}]
data_ndt == incr["data"]["ndt"][save_index]

NewFiles(data, index) ==
    Put(Put(incr, "data", "ndt", save_index, data), "index", "ndt", save_index, index)

\* The objects of which the files go on to hold what they held.
Left(s) == obj[s].at = "live" /\ (obj[s].apart \/ ~obj[s].dirty)

\* What an incremental save promises.
IncrementalSnapshot ==
    [k \in Keys |-> IF k = Guilds \/ Left(k) THEN saves[Len(saves)].snap[k] ELSE Snapshot[k]]

save_incremental ==
    /\ main.stage = "play"
    /\ ~incremental_saves_disabled
    /\ incremental_save_count < MaxIncr
    /\ incr' = NewFiles(NoObjects, NoIndex)
    /\ main' = [Playing EXCEPT !.stage = "write", !.i = save_index,
                               !.todo = { s \in Serials : obj[s].at # "none" }]
    /\ saves' = Begin("incremental", IncrementalSnapshot)
    /\ UNCHANGED << world, counts, full, bak, fulls, starts >>

\* One object of the hash in write_dirty_data().  An object in an owner that is
\* not saved stays dirty.
WriteObject(s) ==
    /\ main.stage = "write"
    /\ s \in main.todo
    /\ IF obj[s].dirty /\ ~obj[s].apart
       THEN /\ obj' = [obj EXCEPT ![s] = [@ EXCEPT !.dirty = FALSE]]
            /\ IF obj[s].at = "live"
               THEN /\ incr' = Put(incr, "data", "ndt", save_index,
                                   [t \in DOMAIN data_ndt \cup {s} |-> IF t = s THEN obj[s].ver
                                                                               ELSE data_ndt[t]])
                    /\ main' = [main EXCEPT !.todo = @ \ {s}]
               ELSE /\ main' = [main EXCEPT !.todo = @ \ {s}, !.deleted = @ \cup {s}]
                    /\ UNCHANGED incr
       ELSE /\ main' = [main EXCEPT !.todo = @ \ {s}]
            /\ UNCHANGED << obj, incr >>
    /\ UNCHANGED << guilds, changes, dirty_deleted, clean_deleted, counts, full, bak,
                    saves, fulls, starts >>

CleanDeleted ==
    /\ clean_deleted' = clean_deleted \cup dirty_deleted
    /\ dirty_deleted' = {}

write_index == [modified |-> DOMAIN data_ndt, deleted |-> main.deleted \cup dirty_deleted]

FinishWriting ==
    /\ main.stage = "write"
    /\ main.todo = {}
    /\ CleanDeleted
    /\ incr' = Put(incr, "index", "ndt", save_index, write_index)
    /\ main' = [main EXCEPT !.stage = "commit"]
    /\ UNCHANGED << obj, guilds, changes, counts, full, bak, saves, fulls, starts >>

\* Bug: incremental saves stay enabled.
Tolerate == UNCHANGED incremental_saves_disabled

DisableIncremental == incremental_saves_disabled' = TRUE

\* An exception: only part of what was written may have reached the disk, and
\* the objects that were written are not dirty any more.
FailWriting ==
    /\ Failures
    /\ main.stage = "write"
    /\ \E reached \in SUBSET DOMAIN data_ndt, index \in {NoIndex, write_index} :
          /\ main.todo # {} => index = NoIndex
          /\ incr' = NewFiles([s \in reached |-> data_ndt[s]], index)
    /\ IF main.todo = {} THEN CleanDeleted ELSE UNCHANGED << dirty_deleted, clean_deleted >>
    /\ DisableIncremental
    /\ main' = Playing
    /\ saves' = SubSeq(saves, 1, Len(saves) - 1)
    /\ UNCHANGED << obj, guilds, changes, incremental_save_count, full, bak, fulls, starts >>

DataFirst == main.kind

\* commit_incremental(): the data before the index; no .bak is kept.
commit_incremental ==
    /\ main.stage = "commit"
    /\ incr' = IF main.half = "old"
               THEN Put(incr, DataFirst, "txt", save_index, NoFile)
               ELSE Moved(DataFirst, save_index)
    /\ IF LastHalf
       THEN /\ main' = Playing
            /\ incremental_save_count' = save_index
            /\ saves' = CompleteIncremental
       ELSE /\ main' = Following(main)
            /\ UNCHANGED << incremental_save_count, saves >>
    /\ UNCHANGED << world, incremental_saves_disabled, full, bak, fulls, starts >>

Main == \/ write_data \/ commit_incremental_saves \/ write_data_returns
        \/ save_incremental \/ (\E s \in Serials : WriteObject(s))
        \/ FinishWriting \/ FailWriting \/ commit_incremental

-----------------------------------------------------------------------------
(* Stops and starts.                                                       *)

\* A full save is under way, and either the next start would notice ("refused")
\* or it would not ("unnoticed").
Phase == CASE Refused -> "refused"
           [] ~Refused /\ (saver # Idle \/ main.stage = "retire") -> "unnoticed"
           [] ~Refused /\ saver = Idle /\ main.stage \in {"write", "commit"} -> "incremental"
           [] OTHER -> "play"

\* The server stops without a save, and read_data() starts it again.
Restart ==
    /\ main.stage # "stopped"
    /\ Phase \in CrashAt
    /\ starts < MaxStarts
    /\ starts' = starts + 1
    /\ IF Refused \/ Duplicated # {}
       THEN /\ main' = [Playing EXCEPT !.stage = "stopped"]
            /\ saver' = Idle
            /\ UNCHANGED << world, counts, pending, saves >>
       ELSE /\ main' = Playing
            /\ saver' = Idle
            /\ obj' = [s \in Serials |-> Stored(Read(s))]
            /\ guilds' = txt[Guilds]
            /\ dirty_deleted' = {}
            /\ clean_deleted' = { s \in Serials : get_save_index(s) = Deleted }
            /\ incremental_save_count' = IncrementalCount
            /\ incremental_saves_disabled' = FALSE
            /\ pending' = Loaded
            /\ saves' = << [type |-> "start", snap |-> Loaded, done |-> TRUE, missing |-> {}] >>
            /\ UNCHANGED changes
    /\ UNCHANGED << txt, ndt, incrs, fulls >>

\* The server starts from the files of a full save of any world.
Init ==
    /\ \E live \in SUBSET Serials :
          obj = [s \in Serials |-> IF s \in live THEN Stored(1) ELSE Absent]
    /\ guilds = 1
    /\ changes = 0
    /\ dirty_deleted = {} /\ clean_deleted = {}
    /\ incremental_save_count = 0 /\ incremental_saves_disabled = FALSE
    /\ main = Playing /\ saver = Idle
    /\ txt = Snapshot /\ pending = txt
    /\ ndt = {} /\ bak = {}
    /\ incr = [kind \in Kinds |-> [suffix \in Suffixes |-> [i \in 1..MaxIncr |-> NoFile]]]
    /\ saves = << [type |-> "start", snap |-> Snapshot, done |-> TRUE, missing |-> {}] >>
    /\ fulls = 0 /\ starts = 0

Next == World \/ Saver \/ Main \/ Restart

Spec == Init /\ [][Next]_vars

-----------------------------------------------------------------------------
(* Properties.                                                             *)

SaveRecords == [type : {"start", "full", "incremental"}, snap : Snapshots,
                done : BOOLEAN, missing : SUBSET Serials]

(* The variables keep their types. *)
TypeOK ==
    /\ obj \in [Serials -> [at : {"none", "live", "orphan"}, ver : Versions,
                            dirty : BOOLEAN, apart : BOOLEAN]]
    /\ guilds \in Versions
    /\ changes \in 0..MaxChanges
    /\ dirty_deleted \subseteq Serials /\ clean_deleted \subseteq Serials
    /\ incremental_save_count \in 0..MaxIncr
    /\ incremental_saves_disabled \in BOOLEAN
    /\ main \in [stage : {"play", "write", "commit", "retire", "stopped"}, i : 0..(MaxIncr + 1),
                 kind : Kinds, half : {"old", "new"},
                 todo : SUBSET Serials, deleted : SUBSET Serials]
    /\ saver \in [at : {"idle", "flush", "old", "new"}, file : 0..Len(SaveFiles)]
    /\ pending \in Snapshots /\ txt \in Snapshots
    /\ ndt \subseteq FileNames
    /\ bak \subseteq Kinds \X (1..MaxIncr)
    /\ fulls \in 0..MaxFull /\ starts \in 0..MaxStarts
    /\ incr \in [Kinds -> [Suffixes -> [1..MaxIncr -> DataFiles \cup IndexFiles \cup {NoFile}]]]
    /\ \A kind \in Kinds, suffix \in Suffixes, i \in 1..MaxIncr :
          incr[kind][suffix][i] \in FilesOf(kind) \cup {NoFile}
    /\ saves \in Seq(SaveRecords) /\ saves # << >>

(* A start from the files gives what the last completed save or a later one
   promises, as a whole: every object, also the deleted ones, and the guilds;
   or read_data() asks for human intervention. *)
RestartsFromSave ==
    [][starts' # starts => \/ Refused
                           \/ /\ Duplicated = {}
                              /\ \E i \in 1..Len(saves) : Loaded = saves[i].snap]_vars

LastSave == saves[Len(saves)]

(* While incremental saves are enabled, what is not marked dirty (an object's
   flag, dirty_deleted) is what the last save holds: the next incremental save
   may leave it out.  The exception are objects that a save has left out, with
   the owner in which they were, and that nothing has marked since: of those
   the files hold nothing, and never something older. *)
CleanIsSaved ==
    main.stage = "play" /\ ~incremental_saves_disabled =>
        \A s \in Serials :
            /\ obj[s].at = "live" /\ ~obj[s].dirty =>
                   \/ LastSave.snap[s] = obj[s].ver
                   \/ s \in LastSave.missing /\ LastSave.snap[s] = 0
            /\ obj[s].at = "orphan" /\ ~obj[s].dirty => LastSave.snap[s] = 0
            /\ obj[s].at = "none" /\ s \notin dirty_deleted => LastSave.snap[s] = 0

(* No file of an incremental save that the current full save or the current
   count has left behind is on the disk when the world goes on: a later
   start would read it as if it belonged to the current full save. *)
NoStaleIncrementals ==
    main.stage = "play" =>
        \A i \in (incremental_save_count + 1)..MaxIncr, kind \in Kinds, suffix \in Suffixes :
            ~Existing(kind, suffix, i)

(* At every step of an incremental save, an index that a start would read has
   its data next to it, and names what is in there. *)
IndexNamesData ==
    main.stage # "retire" =>
        \A i \in 1..IncrementalCount :
            Existing("data", "txt", i) /\ DOMAIN incr["data"]["txt"][i] = Index(i).modified

(* While no save fails halfway: what is clean, which the next incremental save
   skips, is saved, and no file is left over, which the next start would read. *)
SavedAndCurrent == CleanIsSaved /\ NoStaleIncrementals

(* Also if saves fail halfway or are cut off: what is clean is saved, and a start
   finds what an index names. *)
SavedAndIndexed == CleanIsSaved /\ IndexNamesData

(* A new object never takes the serial of another one that the files still
   hold: a deleted serial is kept back until a save has recorded the deletion. *)
NewObjectsGetFreeSerials ==
    [][\A s \in Serials : starts' = starts /\ obj[s].at = "none" /\ obj'[s].at = "live"
                             => Refused \/ Read(s) = 0]_vars
=============================================================================
