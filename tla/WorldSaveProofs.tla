--------------------------- MODULE WorldSaveProofs ---------------------------
(***************************************************************************)
(* Proofs about WorldSave, for any number of objects, files, changes and   *)
(* saves.                                                                  *)
(***************************************************************************)
EXTENDS WorldSave, FiniteSetTheorems, SequenceTheorems, WellFoundedInduction, TLAPS

(* The assumptions, as the proofs use them. *)
LEMMA Bounds == /\ MaxChanges \in Nat /\ MaxFull \in Nat /\ MaxIncr \in Nat /\ MaxStarts \in Nat
                /\ Guilds \notin Serials
BY BoundsAssumption, GuildsAssumption

LEMMA FileCount == Len(SaveFiles) \in Nat \ {0}
<1>1. SaveFiles \in Seq(ContextFiles)
  BY SaveFilesAssumption
<1>2. Len(SaveFiles) \in Nat
  BY <1>1, LenProperties
<1>3. Len(SaveFiles) # 0
  <2>1. "guilds" \in FileNames
    BY SaveFilesAssumption
  <2> QED
    BY <1>2, <2>1 DEF FileNames
<1> QED
  BY <1>2, <1>3

(* Sets of naturals have a least member. *)
LEMMA Least ==
    ASSUME NEW S \in SUBSET Nat, S # {}
    PROVE  \E n \in S : \A m \in S : n <= m
<1>1. IsWellFoundedOn(OpToRel(<, Nat), Nat)
  BY NatLessThanWellFounded
<1>2. PICK n \in S : \A m \in S : ~(<< m, n >> \in OpToRel(<, Nat))
  BY <1>1, WFMin
<1>3. OpToRel(<, Nat) = { ss \in Nat \X Nat : ss[1] < ss[2] }
  BY DEF OpToRel
<1>4. ASSUME NEW m \in S PROVE n <= m
  <2>1. ~(m < n)
    BY <1>2, <1>3
  <2> QED
    BY <2>1
<1> QED
  BY <1>4

(* ... and finite intervals of them a greatest. *)
LEMMA Greatest ==
    ASSUME NEW n \in Nat, NEW S \in SUBSET (0..n), S # {}
    PROVE  \E m \in S : \A k \in S : k <= m
<1> DEFINE T == { n - k : k \in S }
<1>1. T \subseteq Nat /\ T # {}
  <2>1. \A k \in S : n - k \in Nat
    OBVIOUS
  <2> QED
    BY <2>1
<1>2. PICK t \in T : \A u \in T : t <= u
  BY <1>1, Least
<1>3. PICK m \in S : t = n - m
  OBVIOUS
<1>4. ASSUME NEW k \in S PROVE k <= m
  <2>1. n - k \in T /\ m \in 0..n /\ k \in 0..n
    OBVIOUS
  <2>2. n - m <= n - k
    BY <1>2, <1>3, <2>1
  <2> QED
    BY <2>1, <2>2
<1> QED
  BY <1>4

-----------------------------------------------------------------------------
(* The files of incremental saves.                                         *)

IncrTyped(f) ==
    /\ f \in [Kinds -> [Suffixes -> [1..MaxIncr -> DataFiles \cup IndexFiles \cup {NoFile}]]]
    /\ \A kind \in Kinds, suffix \in Suffixes, i \in 1..MaxIncr :
          f[kind][suffix][i] \in FilesOf(kind) \cup {NoFile}

(* What g has of kind, suffix and i is v, and all else is as in f. *)
Replaced(g, f, kind, suffix, i, v) ==
    \A k \in Kinds, x \in Suffixes, j \in 1..MaxIncr :
       g[k][x][j] = IF k = kind /\ x = suffix /\ j = i THEN v ELSE f[k][x][j]

(* A file that is written or removed leaves the others alone. *)
LEMMA Replace ==
    ASSUME NEW f, IncrTyped(f), NEW kind \in Kinds, NEW suffix \in Suffixes, NEW i \in 1..MaxIncr,
           NEW v \in FilesOf(kind) \cup {NoFile}
    PROVE  /\ IncrTyped(Put(f, kind, suffix, i, v))
           /\ Replaced(Put(f, kind, suffix, i, v), f, kind, suffix, i, v)
<1> DEFINE C == DataFiles \cup IndexFiles \cup {NoFile}
           F == [1..MaxIncr -> C]
           G == [Suffixes -> F]
           g == [f EXCEPT ![kind][suffix][i] = v]
<1>1. f \in [Kinds -> G] /\ v \in C
  BY DEF IncrTyped, FilesOf
<1>2. f[kind] \in G /\ f[kind][suffix] \in F
  BY <1>1
<1> HIDE DEF C
<1>3. [f[kind][suffix] EXCEPT ![i] = v] \in F
  BY <1>1, <1>2
<1>4. [f[kind] EXCEPT ![suffix] = [f[kind][suffix] EXCEPT ![i] = v]] \in G
  BY <1>2, <1>3
<1>5. g = [f EXCEPT ![kind] = [f[kind] EXCEPT ![suffix] = [f[kind][suffix] EXCEPT ![i] = v]]]
  OBVIOUS
<1>6. g \in [Kinds -> G]
  BY <1>1, <1>4, <1>5
<1>7. ASSUME NEW k \in Kinds, NEW x \in Suffixes, NEW j \in 1..MaxIncr
      PROVE  g[k][x][j] = IF k = kind /\ x = suffix /\ j = i THEN v ELSE f[k][x][j]
  BY <1>1, <1>2, <1>5
<1>8. Replaced(g, f, kind, suffix, i, v)
  BY <1>7 DEF Replaced
<1> HIDE DEF g
<1>9. ASSUME NEW k \in Kinds, NEW x \in Suffixes, NEW j \in 1..MaxIncr
      PROVE  g[k][x][j] \in FilesOf(k) \cup {NoFile}
  <2>1. f[k][x][j] \in FilesOf(k) \cup {NoFile}
    BY DEF IncrTyped
  <2> QED
    BY <1>8, <2>1 DEF Replaced
<1> QED
  BY <1>6, <1>8, <1>9 DEF IncrTyped, g, C, Put

(* A write of an incremental save's data and index. *)
LEMMA WriteBoth ==
    ASSUME IncrTyped(incr), save_index \in 1..MaxIncr, NEW d \in DataFiles, NEW x \in IndexFiles,
           NEW g, g = NewFiles(d, x)
    PROVE  /\ IncrTyped(g)
           /\ g["data"]["ndt"][save_index] = d /\ g["index"]["ndt"][save_index] = x
           /\ \A k \in Kinds, s \in Suffixes, j \in 1..MaxIncr :
                 j # save_index \/ s # "ndt" => g[k][s][j] = incr[k][s][j]
<1> DEFINE n == save_index
           h == Put(incr, "data", "ndt", n, d)
<1>0. /\ "data" \in Kinds /\ "index" \in Kinds /\ "ndt" \in Suffixes
      /\ d \in FilesOf("data") \cup {NoFile} /\ x \in FilesOf("index") \cup {NoFile}
  BY DEF Kinds, Suffixes, FilesOf
<1>1. IncrTyped(h) /\ Replaced(h, incr, "data", "ndt", n, d)
  BY <1>0, Replace
<1>2. g = Put(h, "index", "ndt", n, x)
  BY DEF NewFiles
<1> HIDE DEF h
<1>3. IncrTyped(g) /\ Replaced(g, h, "index", "ndt", n, x)
  BY <1>0, <1>1, <1>2, Replace
<1> QED
  BY <1>0, <1>1, <1>3 DEF Replaced, Kinds

(* A rename of a file that may not exist. *)
LEMMA MoveFile ==
    ASSUME IncrTyped(incr), NEW kind \in Kinds, NEW i \in 1..MaxIncr, NEW g, g = Moved(kind, i)
    PROVE  /\ IncrTyped(g)
           /\ g[kind]["ndt"][i] = NoFile /\ g[kind]["txt"][i] = incr[kind]["ndt"][i]
           /\ \A k \in Kinds, s \in Suffixes, j \in 1..MaxIncr :
                 j # i \/ k # kind => g[k][s][j] = incr[k][s][j]
<1> DEFINE v == incr[kind]["ndt"][i]
           h == Put(incr, kind, "txt", i, v)
<1>0. "txt" \in Suffixes /\ "ndt" \in Suffixes
  BY DEF Suffixes
<1>1. v \in FilesOf(kind) \cup {NoFile}
  BY <1>0 DEF IncrTyped
<1>2. IncrTyped(h) /\ Replaced(h, incr, kind, "txt", i, v)
  BY <1>0, <1>1, Replace
<1>3. g = Put(h, kind, "ndt", i, NoFile)
  BY DEF Moved
<1> HIDE DEF h, v
<1>4. IncrTyped(g) /\ Replaced(g, h, kind, "ndt", i, NoFile)
  BY <1>0, <1>2, <1>3, Replace
<1> QED
  BY <1>0, <1>2, <1>4 DEF Replaced, v

-----------------------------------------------------------------------------
(* The records of the saves.                                               *)

(* t is s without its first k records, but for their done flags. *)
Rest(t, s, k) ==
    /\ t \in Seq(SaveRecords) /\ Len(t) = Len(s) - k
    /\ \A j \in 1..Len(t) : /\ t[j].type = s[j + k].type /\ t[j].snap = s[j + k].snap
                            /\ t[j].missing = s[j + k].missing

HasFull(s) == \E i \in 1..Len(s) : s[i].type = "full" /\ ~s[i].done

LEMMA DoneRecord ==
    ASSUME NEW r \in SaveRecords
    PROVE  /\ [r EXCEPT !.done = TRUE] \in SaveRecords
           /\ [r EXCEPT !.done = TRUE].type = r.type /\ [r EXCEPT !.done = TRUE].snap = r.snap
           /\ [r EXCEPT !.done = TRUE].missing = r.missing
BY DEF SaveRecords

LEMMA DoneRest ==
    ASSUME NEW s \in Seq(SaveRecords), NEW i \in 1..Len(s)
    PROVE  Rest([s EXCEPT ![i].done = TRUE], s, 0)
<1> DEFINE t == [s EXCEPT ![i] = [s[i] EXCEPT !.done = TRUE]]
<1>1. s[i] \in SaveRecords /\ [s[i] EXCEPT !.done = TRUE] \in SaveRecords
  BY DoneRecord
<1>2. t \in Seq(SaveRecords) /\ Len(t) = Len(s) /\ Len(s) \in Nat
  BY <1>1, ExceptSeq
<1>3. \A j \in 1..Len(s) : t[j] = IF j = i THEN [s[i] EXCEPT !.done = TRUE] ELSE s[j]
  BY <1>1, ExceptSeq
<1>4. ASSUME NEW j \in 1..Len(s)
      PROVE  t[j].type = s[j + 0].type /\ t[j].snap = s[j + 0].snap /\ t[j].missing = s[j + 0].missing
  BY <1>1, <1>3, DoneRecord
<1>5. [s EXCEPT ![i].done = TRUE] = t
  OBVIOUS
<1> QED
  BY <1>2, <1>4, <1>5 DEF Rest

LEMMA CompleteRest ==
    ASSUME saves \in Seq(SaveRecords), NEW i \in 1..Len(saves)
    PROVE  Rest(Complete(i), saves, i - 1)
<1> DEFINE s == SubSeq(saves, i, Len(saves))
<1>1. Len(saves) \in Nat /\ i \in Nat
  BY LenProperties
<1>2. /\ s \in Seq(SaveRecords) /\ Len(s) = Len(saves) - (i - 1)
      /\ \A j \in 1..Len(s) : s[j] = saves[j + (i - 1)]
  <2>1. /\ s \in Seq(SaveRecords) /\ Len(s) = Len(saves) - i + 1
        /\ \A j \in 1..(Len(saves) - i + 1) : s[j] = saves[i + j - 1]
    BY <1>1, SubSeqProperties
  <2>2. \A j \in 1..(Len(saves) - i + 1) : i + j - 1 = j + (i - 1)
    BY <1>1
  <2> QED
    BY <1>1, <2>1, <2>2
<1>3. 1 \in 1..Len(s)
  BY <1>1, <1>2
<1> HIDE DEF s
<1>4. Rest([s EXCEPT ![1].done = TRUE], s, 0)
  BY <1>2, <1>3, DoneRest
<1>5. Complete(i) = [s EXCEPT ![1].done = TRUE]
  BY DEF Complete, s
<1> QED
  BY <1>1, <1>2, <1>4, <1>5 DEF Rest

(* A full save that is complete drops what came before it. *)
LEMMA FullRest ==
    ASSUME saves \in Seq(SaveRecords), HasFull(saves)
    PROVE  \E i \in 1..Len(saves) : saves[i].type = "full" /\ Rest(CompleteFull, saves, i - 1)
<1> DEFINE i == CHOOSE i \in 1..Len(saves) : saves[i].type = "full" /\ ~saves[i].done
<1>1. i \in 1..Len(saves) /\ saves[i].type = "full"
  BY DEF HasFull
<1>2. CompleteFull = Complete(i)
  BY DEF CompleteFull
<1> HIDE DEF i
<1> QED
  BY <1>1, <1>2, CompleteRest

(* An incremental save that is complete leaves a full save that is not. *)
LEMMA IncrementalRest ==
    ASSUME saves \in Seq(SaveRecords), saves # << >>
    PROVE  /\ \E k \in 0..(Len(saves) - 1) : Rest(CompleteIncremental, saves, k)
           /\ HasFull(saves) /\ LastSave.type = "incremental" => HasFull(CompleteIncremental)
<1> DEFINE n == Len(saves)
<1>1. n \in Nat \ {0} /\ n \in 1..n
  BY EmptySeq, LenProperties
<1> HIDE DEF n
<1>2. CASE HasFull(saves)
  <2>1. CompleteIncremental = [saves EXCEPT ![n].done = TRUE]
    BY <1>2 DEF CompleteIncremental, HasFull, n
  <2>2. Rest([saves EXCEPT ![n].done = TRUE], saves, 0)
    BY <1>1, DoneRest DEF n
  <2>3. ASSUME LastSave.type = "incremental" PROVE HasFull(CompleteIncremental)
    <3>1. PICK i \in 1..n : saves[i].type = "full" /\ ~saves[i].done
      BY <1>2 DEF HasFull, n
    <3>2. i # n
      BY <2>3, <3>1 DEF LastSave, n
    <3>3. CompleteIncremental[i] = saves[i] /\ Len(CompleteIncremental) = n
      BY <1>1, <2>1, <2>2, <3>1, <3>2 DEF Rest, n
    <3> QED
      BY <3>1, <3>3 DEF HasFull
  <2> QED
    BY <1>1, <2>1, <2>2, <2>3 DEF n
<1>3. CASE ~HasFull(saves)
  <2>1. CompleteIncremental = Complete(n)
    BY <1>3 DEF CompleteIncremental, HasFull, n
  <2>2. Rest(Complete(n), saves, n - 1)
    BY <1>1, CompleteRest DEF n
  <2> QED
    BY <1>1, <1>3, <2>1, <2>2 DEF n
<1> QED
  BY <1>2, <1>3

(* What is left of the records ends with the same one. *)
LEMMA RestLast ==
    ASSUME NEW s \in Seq(SaveRecords), NEW k \in 0..(Len(s) - 1), NEW t, Rest(t, s, k)
    PROVE  /\ t \in Seq(SaveRecords) /\ t # << >> /\ Len(t) \in Nat \ {0}
           /\ t[Len(t)].type = s[Len(s)].type /\ t[Len(t)].snap = s[Len(s)].snap
           /\ t[Len(t)].missing = s[Len(s)].missing
<1>1. Len(s) \in Nat
  BY LenProperties
<1>2. Len(t) \in Nat \ {0} /\ Len(t) + k = Len(s) /\ Len(t) \in 1..Len(t)
  BY <1>1 DEF Rest
<1>3. t # << >>
  BY <1>2
<1> QED
  BY <1>2, <1>3 DEF Rest

-----------------------------------------------------------------------------
(* Types.                                                                  *)

Objects == [at : {"none", "live", "orphan"}, ver : Versions, dirty : BOOLEAN,
            apart : BOOLEAN]
Mains == [stage : {"play", "write", "commit", "retire", "stopped"}, i : 0..(MaxIncr + 1),
          kind : Kinds, half : {"old", "new"}, todo : SUBSET Serials, deleted : SUBSET Serials]
Savers == [at : {"idle", "flush", "old", "new"}, file : 0..Len(SaveFiles)]

ObjTyped == obj \in [Serials -> Objects] /\ dirty_deleted \subseteq Serials
            /\ clean_deleted \subseteq Serials
GuildsTyped == guilds \in Versions /\ changes \in 0..MaxChanges
CountsTyped == incremental_save_count \in 0..MaxIncr /\ incremental_saves_disabled \in BOOLEAN
FullTyped == saver \in Savers /\ pending \in Snapshots /\ txt \in Snapshots /\ ndt \subseteq FileNames
FilesTyped == IncrTyped(incr) /\ bak \subseteq Kinds \X (1..MaxIncr)
SavesTyped == saves \in Seq(SaveRecords) /\ saves # << >>
RunsTyped == fulls \in 0..MaxFull /\ starts \in 0..MaxStarts

LEMMA TypeParts ==
    TypeOK <=> /\ ObjTyped /\ GuildsTyped /\ CountsTyped /\ FullTyped /\ FilesTyped
               /\ SavesTyped /\ RunsTyped /\ main \in Mains
BY DEF TypeOK, ObjTyped, GuildsTyped, CountsTyped, FullTyped, FilesTyped, SavesTyped, RunsTyped,
       Objects, Mains, Savers, IncrTyped

LEMMA TypePartsNext ==
    TypeOK' <=> /\ ObjTyped' /\ GuildsTyped' /\ CountsTyped' /\ FullTyped' /\ FilesTyped'
                /\ SavesTyped' /\ RunsTyped' /\ main' \in Mains
BY DEF TypeOK, ObjTyped, GuildsTyped, CountsTyped, FullTyped, FilesTyped, SavesTyped, RunsTyped,
       Objects, Mains, Savers, IncrTyped

(* What the two threads rely on: the asynchronous one has a file to commit, a full
   save that is not complete has its record, an incremental save has a number, its
   record and its file, and the files that are moved away are within the bound. *)
SaverAt == \/ saver = Idle
           \/ saver.at # "idle" /\ saver.file \in 1..Len(SaveFiles)
FullPending == saver # Idle \/ main.stage = "retire" => HasFull(saves)
IncrPending ==
    main.stage \in {"write", "commit"} =>
       /\ incremental_save_count < MaxIncr
       /\ Len(saves) >= 2 /\ LastSave.type = "incremental"
       /\ main.stage = "write" => data_ndt # NoFile /\ AtStartOf(main)
RetireAt == main.stage = "retire" => /\ main.i \in 1..(MaxIncr + 1)
                                     /\ ~AtStartOf(main) => main.i <= MaxIncr

TInv == TypeOK /\ SaverAt /\ FullPending /\ IncrPending /\ RetireAt

LEMMA RecordTypes ==
    /\ Absent \in Objects /\ Idle \in Savers /\ Playing \in Mains
    /\ \A v \in Versions : Stored(v) \in Objects
    /\ \A m \in Mains : Following(m) \in Mains
<1>1. Absent \in Objects
  BY Bounds DEF Absent, Objects, Versions
<1>2. Idle \in Savers
  BY FileCount DEF Idle, Savers
<1>3. Playing \in Mains
  BY Bounds DEF Playing, Mains, Kinds
<1>4. ASSUME NEW v \in Versions PROVE Stored(v) \in Objects
  BY <1>1, <1>4 DEF Stored, Objects
<1>5. ASSUME NEW m \in Mains PROVE Following(m) \in Mains
  BY <1>5 DEF Following, Mains, Kinds
<1> QED
  BY <1>1, <1>2, <1>3, <1>4, <1>5

LEMMA SnapshotType == TypeOK => Snapshot \in Snapshots
<1> SUFFICES ASSUME TypeOK PROVE Snapshot \in Snapshots
  OBVIOUS
<1>1. \A k \in Keys : (IF k = Guilds THEN guilds ELSE IF Written(k) THEN obj[k].ver ELSE 0) \in Versions
  BY TypeParts, Bounds DEF ObjTyped, GuildsTyped, Keys, Objects, Versions
<1> QED
  BY <1>1 DEF Snapshot, Snapshots

LEMMA BeginType ==
    ASSUME TypeOK, NEW type \in {"start", "full", "incremental"}, NEW snap \in Snapshots
    PROVE  /\ Begin(type, snap) \in Seq(SaveRecords) /\ Len(Begin(type, snap)) = Len(saves) + 1
           /\ Begin(type, snap)[Len(saves) + 1]
                = [type |-> type, snap |-> snap, done |-> FALSE, missing |-> Missing(snap)]
           /\ \A i \in 1..Len(saves) : Begin(type, snap)[i] = saves[i]
           /\ Begin(type, snap) # << >> /\ Len(saves) \in Nat \ {0}
<1> DEFINE r == [type |-> type, snap |-> snap, done |-> FALSE, missing |-> Missing(snap)]
<1>1. r \in SaveRecords
  BY DEF SaveRecords, Missing
<1>2. saves \in Seq(SaveRecords) /\ Len(saves) \in Nat \ {0}
  BY TypeParts, EmptySeq, LenProperties DEF SavesTyped
<1> HIDE DEF r
<1>3. Append(saves, r) \in Seq(SaveRecords) /\ Append(saves, r) # << >>
      /\ Len(Append(saves, r)) = Len(saves) + 1
      /\ Append(saves, r)[Len(saves) + 1] = r
      /\ \A i \in 1..Len(saves) : Append(saves, r)[i] = saves[i]
  BY <1>1, <1>2, AppendProperties
<1>4. Begin(type, snap) = Append(saves, r)
  BY DEF Begin, r
<1> QED
  BY <1>2, <1>3, <1>4 DEF r

(* Changes of the world leave the threads and the files alone. *)
LEMMA WorldTypes == ASSUME TInv, World PROVE TInv'
<1>0. TypeOK
  BY DEF TInv
<1>1. UNCHANGED << counts, full, incrs, main, saves, fulls, starts >> /\ changes \in 0..MaxChanges
  BY <1>0, TypeParts DEF World, GuildsTyped
<1>2. \/ Changing /\ (guilds' = guilds \/ guilds' = changes' + 1)
      \/ UNCHANGED << changes, guilds >>
  BY DEF World, Create, Change, Carry, destroy, Reap, ChangeGuilds
<1>3. ObjTyped'
  <2>0. obj \in [Serials -> Objects] /\ dirty_deleted \subseteq Serials /\ clean_deleted \subseteq Serials
    BY <1>0, TypeParts DEF ObjTyped
  <2>1. ASSUME NEW s \in Serials, Create(s) PROVE ObjTyped'
    <3>1. changes' + 1 \in Versions
      BY <1>1, <2>1, Bounds DEF Create, Changing, Versions
    <3>2. [Stored(changes' + 1) EXCEPT !.dirty = TRUE] \in Objects
      BY <3>1, RecordTypes DEF Objects
    <3> QED
      BY <2>0, <2>1, <3>2 DEF Create, ObjTyped
  <2>2. ASSUME NEW s \in Serials, Change(s) PROVE ObjTyped'
    <3>1. changes' + 1 \in Versions
      BY <1>1, <2>2, Bounds DEF Change, Changing, Versions
    <3>2. PICK apart \in BOOLEAN :
             obj' = [obj EXCEPT ![s] = [@ EXCEPT !.ver = changes' + 1, !.dirty = TRUE, !.apart = apart]]
      BY <2>2 DEF Change
    <3>3. [obj[s] EXCEPT !.ver = changes' + 1, !.dirty = TRUE, !.apart = apart] \in Objects
      BY <2>0, <3>1 DEF Objects
    <3> QED
      BY <2>0, <2>2, <3>2, <3>3 DEF Change, ObjTyped
  <2>3. ASSUME NEW s \in Serials, Carry(s) PROVE ObjTyped'
    <3>1. [obj[s] EXCEPT !.apart = ~obj[s].apart] \in Objects
      BY <2>0 DEF Objects
    <3> QED
      BY <2>0, <2>3, <3>1 DEF Carry, ObjTyped
  <2>4. ASSUME NEW s \in Serials, destroy(s) PROVE ObjTyped'
    <3>1. [obj[s] EXCEPT !.at = "orphan", !.dirty = TRUE, !.apart = FALSE] \in Objects
      BY <2>0 DEF Objects
    <3> QED
      BY <2>0, <2>4, <3>1 DEF destroy, ObjTyped
  <2>5. ASSUME NEW s \in Serials, Reap(s) PROVE ObjTyped'
    BY <2>0, <2>5, RecordTypes DEF Reap, ObjTyped
  <2>6. CASE ChangeGuilds
    BY <2>0, <2>6 DEF ChangeGuilds, ObjTyped
  <2> QED
    BY <2>1, <2>2, <2>3, <2>4, <2>5, <2>6 DEF World
<1>4. GuildsTyped'
  <2>0. guilds \in Versions /\ MaxChanges \in Nat
    BY <1>0, TypeParts, Bounds DEF GuildsTyped
  <2>1. CASE Changing /\ (guilds' = guilds \/ guilds' = changes' + 1)
    <3>1. changes' \in 0..MaxChanges /\ changes' + 1 \in Versions
      BY <1>1, <2>0, <2>1 DEF Changing, Versions
    <3> QED
      BY <2>0, <2>1, <3>1 DEF GuildsTyped
  <2>2. CASE UNCHANGED << changes, guilds >>
    BY <1>1, <2>0, <2>2 DEF GuildsTyped
  <2> QED
    BY <1>2, <2>1, <2>2
<1>5. TypeOK'
  BY <1>0, <1>1, <1>3, <1>4, RecordTypes, TypeParts, TypePartsNext
     DEF CountsTyped, FullTyped, FilesTyped, SavesTyped, RunsTyped, counts, full, incrs, IncrTyped
<1> QED
  BY <1>1, <1>5 DEF TInv, SaverAt, FullPending, IncrPending, RetireAt, LastSave, data_ndt, save_index,
                    counts, full, incrs

(* The asynchronous thread goes through the files one by one. *)
LEMMA SaverTypes == ASSUME TInv, Saver PROVE TInv'
<1>0. /\ TypeOK /\ SaverAt /\ saver \in Savers /\ txt \in Snapshots /\ pending \in Snapshots
      /\ ndt \subseteq FileNames /\ SavesTyped
  BY TypeParts DEF TInv, FullTyped
<1>1. UNCHANGED << world, counts, pending, incrs, main, fulls, starts >>
  BY DEF Saver, Flush, CommitOld, CommitNew
<1>2. saver # Idle /\ saver.file \in 1..Len(SaveFiles)
  BY <1>0 DEF Saver, Flush, CommitOld, CommitNew, SaverAt, Idle
<1>3. saver' \in Savers /\ SaverAt'
  <2>1. CASE Flush \/ CommitOld
    <3>1. /\ saver' \in Savers /\ saver'.at \in {"old", "new"} /\ saver'.file = saver.file
      BY <1>0, <2>1 DEF Flush, CommitOld, Savers
    <3> QED
      BY <1>2, <3>1 DEF SaverAt
  <2>2. CASE CommitNew /\ saver.file < Len(SaveFiles)
    <3>1. saver' = [at |-> "old", file |-> saver.file + 1] /\ saver.file + 1 \in 1..Len(SaveFiles)
      BY <1>2, <2>2, FileCount DEF CommitNew, CommitsGoOn
    <3> QED
      BY <3>1 DEF Savers, SaverAt
  <2>3. CASE CommitNew /\ ~(saver.file < Len(SaveFiles))
    BY <2>3, RecordTypes DEF CommitNew, CommitsGoOn, SaverAt
  <2> QED
    BY <2>1, <2>2, <2>3 DEF Saver
<1>4. txt' \in Snapshots /\ ndt' \subseteq FileNames
  <2>1. 0 \in Versions
    BY Bounds DEF Versions
  <2> QED
    BY <1>0, <2>1 DEF Saver, Flush, CommitOld, CommitNew, Snapshots
<1>5. \/ saves' = saves
      \/ saver' = Idle /\ main.stage # "retire" /\ saves' = CompleteFull
  BY DEF Saver, Flush, CommitOld, CommitNew
<1>6. /\ SavesTyped' /\ (main.stage = "retire" \/ saver' # Idle => saves' = saves)
      /\ main.stage \in {"write", "commit"}
            => Len(saves') >= 2 /\ saves'[Len(saves')].type = "incremental"
  <2>1. CASE saves' = saves
    BY <1>0, <2>1 DEF SavesTyped, TInv, IncrPending, LastSave
  <2>2. CASE saver' = Idle /\ main.stage # "retire" /\ saves' = CompleteFull
    <3>0. saves \in Seq(SaveRecords) /\ HasFull(saves) /\ Len(saves) \in Nat
      BY <1>0, <1>2, LenProperties DEF TInv, FullPending, SavesTyped
    <3>1. PICK i \in 1..Len(saves) : saves[i].type = "full" /\ Rest(CompleteFull, saves, i - 1)
      BY <3>0, FullRest
    <3>2. i - 1 \in 0..(Len(saves) - 1)
      BY <3>0
    <3>3. /\ saves' \in Seq(SaveRecords) /\ saves' # << >>
          /\ saves'[Len(saves')].type = saves[Len(saves)].type
          /\ Len(saves') = Len(saves) - (i - 1)
      BY <2>2, <3>0, <3>1, <3>2, RestLast DEF Rest
    <3>4. ASSUME main.stage \in {"write", "commit"}
          PROVE  Len(saves') >= 2 /\ saves'[Len(saves')].type = "incremental"
      <4>1. saves[Len(saves)].type = "incremental"
        BY <3>4 DEF TInv, IncrPending, LastSave
      <4>2. i # Len(saves)
        BY <3>1, <4>1
      <4> QED
        BY <3>0, <3>3, <4>1, <4>2
    <3> QED
      BY <2>2, <3>3, <3>4 DEF SavesTyped
  <2> QED
    BY <1>5, <2>1, <2>2
<1>7. TypeOK'
  BY <1>0, <1>1, <1>3, <1>4, <1>6, TypeParts, TypePartsNext
     DEF ObjTyped, GuildsTyped, CountsTyped, FullTyped, FilesTyped, RunsTyped,
         world, counts, incrs, IncrTyped
<1>8. FullPending' /\ IncrPending' /\ RetireAt'
  BY <1>1, <1>2, <1>6
     DEF TInv, FullPending, IncrPending, RetireAt, LastSave, data_ndt, save_index, counts, incrs
<1> QED
  BY <1>3, <1>7, <1>8 DEF TInv

(* A full save, its beginning and its end. *)
LEMMA FullTypes == ASSUME TInv, write_data \/ write_data_returns PROVE TInv'
<1>0. TypeOK /\ SaverAt
  BY DEF TInv
<1>1. CASE write_data
  <2>1. saves' = Begin("full", Snapshot) /\ Snapshot \in Snapshots /\ saver = Idle
    BY <1>0, <1>1, SnapshotType DEF write_data
  <2>2. saves' \in Seq(SaveRecords) /\ saves' # << >> /\ HasFull(saves')
    <3>1. /\ saves' \in Seq(SaveRecords) /\ saves' # << >> /\ Len(saves') = Len(saves) + 1
          /\ Len(saves) \in Nat \ {0}
          /\ saves'[Len(saves) + 1]
               = [type |-> "full", snap |-> Snapshot, done |-> FALSE,
                  missing |-> Missing(Snapshot)]
      BY <1>0, <2>1, BeginType
    <3> QED
      BY <3>1 DEF HasFull
  <2>3. main' = [Playing EXCEPT !.stage = "retire", !.i = 1] /\ main' \in Mains
    <3>1. Playing \in Mains /\ 1 \in 0..(MaxIncr + 1)
      BY RecordTypes, Bounds
    <3>2. [Playing EXCEPT !.stage = "retire", !.i = 1] \in Mains
      BY <3>1 DEF Mains
    <3> QED
      BY <1>1, <3>2 DEF write_data
  <2>4. main'.stage = "retire" /\ main'.i = 1 /\ main'.kind = "data" /\ main'.half = "old"
    BY <2>3 DEF Playing
  <2>5. saver' = [at |-> "flush", file |-> 1] /\ 1 \in 1..Len(SaveFiles)
    BY <1>1, FileCount DEF write_data
  <2>6. obj' \in [Serials -> Objects]
    <3>1. \A s \in Serials : obj[s] \in Objects
      BY <1>0, TypeParts DEF ObjTyped
    <3>2. \A s \in Serials : Cleaned(s) \in Objects
      BY <3>1 DEF Cleaned, Objects
    <3> QED
      BY <1>1, <3>2 DEF write_data
  <2>7. fulls' \in 0..MaxFull
    BY <1>0, <1>1, Bounds, TypeParts DEF write_data, RunsTyped
  <2>8. TypeOK'
    BY <1>0, <1>1, <2>1, <2>2, <2>3, <2>5, <2>6, <2>7, TypeParts, TypePartsNext
       DEF write_data, ObjTyped, GuildsTyped, CountsTyped, FullTyped, FilesTyped, SavesTyped,
           RunsTyped, counts, incrs, IncrTyped, Savers
  <2> QED
    BY <2>2, <2>4, <2>5, <2>8, Bounds
       DEF TInv, SaverAt, FullPending, IncrPending, RetireAt, AtStartOf
<1>2. CASE write_data_returns
  <2>1. main' = Playing /\ UNCHANGED << obj, guilds, changes, full, incrs, fulls, starts >>
        /\ saves' = (IF saver = Idle THEN CompleteFull ELSE saves)
    BY <1>2 DEF write_data_returns
  <2>2. saves \in Seq(SaveRecords) /\ HasFull(saves) /\ Len(saves) \in Nat
    BY <1>0, <1>2, TypeParts, LenProperties DEF TInv, FullPending, SavesTyped, write_data_returns
  <2>3. saves' \in Seq(SaveRecords) /\ saves' # << >> /\ (saver # Idle => HasFull(saves'))
    <3>1. CASE saver = Idle
      <4>1. PICK i \in 1..Len(saves) : Rest(CompleteFull, saves, i - 1)
        BY <2>2, FullRest
      <4>2. i - 1 \in 0..(Len(saves) - 1)
        BY <2>2
      <4> QED
        BY <2>1, <2>2, <3>1, <4>1, <4>2, RestLast
    <3>2. CASE saver # Idle
      BY <1>0, <2>1, <2>2, <3>2, TypeParts DEF SavesTyped
    <3> QED
      BY <3>1, <3>2
  <2>4. TypeOK'
    <3>0. /\ incremental_save_count' = 0 /\ incremental_saves_disabled' = FALSE
          /\ dirty_deleted' = {} /\ clean_deleted' = {} /\ obj' = obj /\ ObjTyped
          /\ 0 \in 0..MaxIncr
      BY <1>0, <1>2, <2>1, Bounds, TypeParts DEF write_data_returns
    <3>1. CountsTyped' /\ ObjTyped'
      BY <3>0 DEF CountsTyped, ObjTyped
    <3>2. main' \in Mains /\ SavesTyped'
      BY <2>1, <2>3, RecordTypes DEF SavesTyped
    <3> QED
      BY <1>0, <2>1, <3>1, <3>2, TypeParts, TypePartsNext
         DEF GuildsTyped, FullTyped, FilesTyped, RunsTyped, full, incrs, IncrTyped
  <2> QED
    BY <1>0, <2>1, <2>3, <2>4 DEF TInv, SaverAt, FullPending, IncrPending, RetireAt, full, Playing
<1> QED
  BY <1>1, <1>2

(* Files that are moved away are within the bound. *)
LEMMA RetireTypes == ASSUME TInv, commit_incremental_saves PROVE TInv'
<1>0. /\ TypeOK /\ RetireAt /\ main \in Mains /\ main.stage = "retire"
      /\ IncrTyped(incr) /\ bak \subseteq Kinds \X (1..MaxIncr) /\ MaxIncr \in Nat
      /\ UNCHANGED << world, counts, full, saves, fulls, starts >>
  BY TypeParts, Bounds DEF TInv, FilesTyped, commit_incremental_saves
<1>1. main.i \in 1..MaxIncr
  <2>1. CASE ~AtStartOf(main)
    BY <1>0, <2>1 DEF RetireAt
  <2>2. CASE AnyFile(main.i)
    BY <1>0, <2>2 DEF AnyFile, Existing
  <2> QED
    BY <2>1, <2>2 DEF commit_incremental_saves
<1>2. main.kind \in Kinds /\ "txt" \in Suffixes /\ "ndt" \in Suffixes
  BY <1>0 DEF Mains, Suffixes
<1>3. IncrTyped(incr')
  <2>1. CASE main.half = "old"
    BY <1>0, <1>1, <1>2, <2>1, Replace DEF commit_incremental_saves
  <2>2. CASE main.half # "old"
    BY <1>0, <1>1, <1>2, <2>2, MoveFile DEF commit_incremental_saves
  <2> QED
    BY <2>1, <2>2
<1>4. bak' \subseteq Kinds \X (1..MaxIncr)
  BY <1>0, <1>1, <1>2 DEF commit_incremental_saves
<1>5. main' \in Mains /\ main'.stage = "retire" /\ main'.i \in 1..(MaxIncr + 1)
      /\ (~AtStartOf(main') => main'.i <= MaxIncr)
  <2>1. CASE LastHalf
    <3>1. main' = [main EXCEPT !.i = main.i + 1, !.kind = "data", !.half = "old"]
      BY <2>1 DEF commit_incremental_saves
    <3>2. main.i + 1 \in 0..(MaxIncr + 1) /\ main.i + 1 \in 1..(MaxIncr + 1) /\ "data" \in Kinds
      BY <1>0, <1>1 DEF Kinds
    <3>3. main' \in Mains
      BY <1>0, <3>1, <3>2 DEF Mains
    <3>4. main'.stage = "retire" /\ main'.i = main.i + 1 /\ main'.kind = "data" /\ main'.half = "old"
      BY <1>0, <3>1 DEF Mains
    <3> QED
      BY <3>2, <3>3, <3>4 DEF AtStartOf
  <2>2. CASE ~LastHalf
    <3>1. main' = Following(main)
      BY <2>2 DEF commit_incremental_saves
    <3>2. main' \in Mains /\ main'.stage = "retire" /\ main'.i = main.i
      BY <1>0, <3>1, RecordTypes DEF Following, Mains
    <3> QED
      BY <1>0, <1>1, <3>2
  <2> QED
    BY <2>1, <2>2
<1>6. TypeOK'
  BY <1>0, <1>3, <1>4, <1>5, TypeParts, TypePartsNext
     DEF ObjTyped, GuildsTyped, CountsTyped, FullTyped, FilesTyped, SavesTyped, RunsTyped,
         world, counts, full, IncrTyped
<1> QED
  BY <1>0, <1>5, <1>6 DEF TInv, SaverAt, FullPending, IncrPending, RetireAt, full

(* A data file gains an object; a part of it is a data file, too. *)
LEMMA DataOps ==
    /\ NoObjects \in DataFiles /\ DOMAIN NoObjects = {} /\ NoIndex \in IndexFiles
    /\ \A d \in DataFiles : /\ DOMAIN d \subseteq Serials
                            /\ \A s \in DOMAIN d : d[s] \in Versions
                            /\ \A S \in SUBSET DOMAIN d : [s \in S |-> d[s]] \in DataFiles
    /\ \A d \in DataFiles, s \in Serials, v \in Versions :
          [t \in DOMAIN d \cup {s} |-> IF t = s THEN v ELSE d[t]] \in DataFiles
<1>1. \A S \in SUBSET Serials : [S -> Versions] \subseteq DataFiles
  BY DEF DataFiles
<1>2. ASSUME NEW d \in DataFiles
      PROVE  /\ DOMAIN d \in SUBSET Serials /\ \A s \in DOMAIN d : d[s] \in Versions
  BY DEF DataFiles
<1>3. NoObjects \in [{} -> Versions] /\ DOMAIN NoObjects = {}
  BY DEF NoObjects
<1>4. NoIndex \in IndexFiles
  BY DEF NoIndex, IndexFiles
<1>5. ASSUME NEW d \in DataFiles, NEW S \in SUBSET DOMAIN d PROVE [s \in S |-> d[s]] \in DataFiles
  <2>1. [s \in S |-> d[s]] \in [S -> Versions] /\ S \in SUBSET Serials
    BY <1>2
  <2> QED
    BY <1>1, <2>1
<1>6. ASSUME NEW d \in DataFiles, NEW s \in Serials, NEW v \in Versions
      PROVE  [t \in DOMAIN d \cup {s} |-> IF t = s THEN v ELSE d[t]] \in DataFiles
  <2>1. /\ [t \in DOMAIN d \cup {s} |-> IF t = s THEN v ELSE d[t]] \in [(DOMAIN d \cup {s}) -> Versions]
        /\ DOMAIN d \cup {s} \in SUBSET Serials
    BY <1>2
  <2> QED
    BY <1>1, <2>1
<1>7. {} \in SUBSET Serials
  OBVIOUS
<1>8. NoObjects \in DataFiles
  BY <1>1, <1>3, <1>7
<1> QED
  BY <1>2, <1>3, <1>4, <1>5, <1>6, <1>8

(* What is read and written while an incremental save is under way. *)
LEMMA WritingTypes ==
    ASSUME TInv, main.stage \in {"write", "commit"}
    PROVE  /\ save_index \in 1..MaxIncr /\ IncrTyped(incr)
           /\ main.stage = "write" => data_ndt \in DataFiles /\ write_index \in IndexFiles
<1>1. save_index \in 1..MaxIncr /\ IncrTyped(incr) /\ main \in Mains
  BY Bounds, TypeParts DEF TInv, IncrPending, CountsTyped, save_index, FilesTyped
<1>2. ASSUME main.stage = "write" PROVE data_ndt \in DataFiles
  <2>1. "data" \in Kinds /\ "ndt" \in Suffixes /\ data_ndt # NoFile
    BY <1>2 DEF Kinds, Suffixes, TInv, IncrPending
  <2> QED
    BY <1>1, <2>1 DEF IncrTyped, FilesOf, data_ndt
<1>3. ASSUME main.stage = "write" PROVE write_index \in IndexFiles
  <2>1. DOMAIN data_ndt \subseteq Serials
    BY <1>2, <1>3, DataOps
  <2>2. main.deleted \subseteq Serials /\ dirty_deleted \subseteq Serials
    BY <1>1, TypeParts DEF TInv, ObjTyped, Mains
  <2> QED
    BY <2>1, <2>2 DEF write_index, IndexFiles
<1> QED
  BY <1>1, <1>2, <1>3

LEMMA IncrementalType ==
    ASSUME TypeOK
    PROVE  /\ IncrementalSnapshot \in Snapshots
           /\ \A s \in Serials : IncrementalSnapshot[s] = IF Left(s) THEN LastSave.snap[s]
                                                        ELSE Snapshot[s]
           /\ IncrementalSnapshot[Guilds] = LastSave.snap[Guilds]
<1>1. Snapshot \in Snapshots /\ Guilds \in Keys /\ Guilds \notin Serials
  BY SnapshotType, Bounds DEF Keys
<1>2. saves[Len(saves)] \in SaveRecords
  BY TypeParts, EmptySeq, LenProperties, ElementOfSeq DEF SavesTyped
<1>3. saves[Len(saves)].snap \in Snapshots
  BY <1>2 DEF SaveRecords
<1>4. \A k \in Keys : /\ saves[Len(saves)].snap[k] \in Versions
                       /\ Snapshot[k] \in Versions
  BY <1>1, <1>3 DEF Snapshots
<1>5. IncrementalSnapshot \in Snapshots
  BY <1>4 DEF IncrementalSnapshot, Snapshots
<1> QED
  BY <1>1, <1>5 DEF IncrementalSnapshot, LastSave, Keys

(* The beginning of an incremental save. *)
LEMMA StartTypes == ASSUME TInv, save_incremental PROVE TInv'
<1>0. TypeOK /\ SaverAt /\ FullPending
  BY DEF TInv
<1>1. /\ incremental_save_count < MaxIncr /\ main.stage = "play"
      /\ saves' = Begin("incremental", IncrementalSnapshot)
      /\ UNCHANGED << world, counts, full, bak, fulls, starts >>
      /\ incr' = NewFiles(NoObjects, NoIndex)
  BY DEF save_incremental
<1>2. save_index \in 1..MaxIncr /\ save_index \in 0..(MaxIncr + 1) /\ IncrTyped(incr)
  BY <1>0, <1>1, Bounds, TypeParts DEF CountsTyped, save_index, FilesTyped
<1>3. main' \in Mains /\ main'.stage = "write" /\ AtStartOf(main')
  <2>1. { s \in Serials : obj[s].at # "none" } \in SUBSET Serials /\ Playing \in Mains
    BY RecordTypes
  <2>2. main' = [Playing EXCEPT !.stage = "write", !.i = save_index,
                                !.todo = { s \in Serials : obj[s].at # "none" }]
    BY DEF save_incremental
  <2> QED
    BY <1>2, <2>1, <2>2 DEF Mains, AtStartOf, Playing
<1>4. IncrementalSnapshot \in Snapshots
  BY <1>0, IncrementalType
<1>5. /\ saves' \in Seq(SaveRecords) /\ saves' # << >> /\ Len(saves') = Len(saves) + 1
      /\ Len(saves) \in Nat \ {0} /\ saves'[Len(saves')].type = "incremental"
      /\ \A i \in 1..Len(saves) : saves'[i] = saves[i]
  <2>1. "incremental" \in {"start", "full", "incremental"}
    OBVIOUS
  <2>2. /\ saves' \in Seq(SaveRecords) /\ saves' # << >> /\ Len(saves') = Len(saves) + 1
        /\ Len(saves) \in Nat \ {0}
        /\ saves'[Len(saves) + 1] = [type |-> "incremental", snap |-> IncrementalSnapshot,
                                     done |-> FALSE, missing |-> Missing(IncrementalSnapshot)]
        /\ \A i \in 1..Len(saves) : saves'[i] = saves[i]
    BY <1>0, <1>1, <1>4, <2>1, BeginType
  <2>3. saves'[Len(saves')].type = "incremental"
    BY <2>2
  <2> QED
    BY <2>2, <2>3
<1>6. HasFull(saves) => HasFull(saves')
  BY <1>5 DEF HasFull
<1>7. IncrTyped(incr') /\ incr'["data"]["ndt"][save_index] = NoObjects /\ NoObjects # NoFile
  BY <1>1, <1>2, DataOps, WriteBoth, NoFileAssumption
<1>8. TypeOK'
  BY <1>0, <1>1, <1>3, <1>5, <1>7, TypeParts, TypePartsNext
     DEF ObjTyped, GuildsTyped, CountsTyped, FullTyped, FilesTyped, SavesTyped, RunsTyped,
         world, counts, full
<1>9. IncrPending'
  BY <1>1, <1>3, <1>5, <1>7 DEF IncrPending, LastSave, data_ndt, save_index, counts
<1> QED
  BY <1>0, <1>1, <1>3, <1>6, <1>8, <1>9 DEF TInv, SaverAt, FullPending, RetireAt, full

(* An object after the other is written. *)
LEMMA WriteTypes == ASSUME TInv, NEW s \in Serials, WriteObject(s) PROVE TInv'
<1>0. /\ TypeOK /\ main \in Mains /\ main.stage = "write" /\ IncrTyped(incr)
      /\ obj \in [Serials -> Objects]
      /\ UNCHANGED << guilds, changes, dirty_deleted, clean_deleted, counts, full, bak,
                      saves, fulls, starts >>
  BY TypeParts DEF TInv, WriteObject, FilesTyped, ObjTyped
<1>1. save_index \in 1..MaxIncr /\ data_ndt \in DataFiles
  BY <1>0, WritingTypes
<1>2. main' \in Mains /\ main'.stage = "write" /\ AtStartOf(main')
  <2>1. /\ main.todo \ {s} \in SUBSET Serials /\ main.deleted \cup {s} \in SUBSET Serials
    BY <1>0 DEF Mains
  <2>2. \/ main' = [main EXCEPT !.todo = main.todo \ {s}]
        \/ main' = [main EXCEPT !.todo = main.todo \ {s}, !.deleted = main.deleted \cup {s}]
    BY DEF WriteObject
  <2>3. CASE main' = [main EXCEPT !.todo = main.todo \ {s}]
    BY <1>0, <2>1, <2>3 DEF Mains, AtStartOf, TInv, IncrPending
  <2>4. CASE main' = [main EXCEPT !.todo = main.todo \ {s}, !.deleted = main.deleted \cup {s}]
    BY <1>0, <2>1, <2>4 DEF Mains, AtStartOf, TInv, IncrPending
  <2> QED
    BY <2>2, <2>3, <2>4
<1>3. obj' \in [Serials -> Objects]
  <2>1. [obj[s] EXCEPT !.dirty = FALSE] \in Objects
    BY <1>0 DEF Objects
  <2> QED
    BY <1>0, <2>1 DEF WriteObject
<1>4. IncrTyped(incr') /\ incr'["data"]["ndt"][save_index] # NoFile
  <2>0. "data" \in Kinds /\ "ndt" \in Suffixes /\ obj[s].ver \in Versions
    BY <1>0 DEF Kinds, Suffixes, Objects
  <2> DEFINE d == [t \in DOMAIN data_ndt \cup {s} |-> IF t = s THEN obj[s].ver ELSE data_ndt[t]]
  <2>1. d \in DataFiles /\ d # NoFile
    <3>1. \A f \in DataFiles, t \in Serials, v \in Versions :
             [u \in DOMAIN f \cup {t} |-> IF u = t THEN v ELSE f[u]] \in DataFiles
      BY DataOps
    <3>2. d \in DataFiles
      BY <1>1, <2>0, <3>1
    <3> HIDE DEF d
    <3> QED
      BY <3>2, NoFileAssumption
  <2>2. incr' = incr \/ incr' = Put(incr, "data", "ndt", save_index, d)
    BY DEF WriteObject
  <2> HIDE DEF d
  <2>3. CASE incr' = incr
    BY <1>0, <2>3 DEF TInv, IncrPending, data_ndt
  <2>4. CASE incr' = Put(incr, "data", "ndt", save_index, d)
    <3>1. d \in FilesOf("data") \cup {NoFile}
      BY <2>1 DEF FilesOf
    <3>2. IncrTyped(incr') /\ Replaced(incr', incr, "data", "ndt", save_index, d)
      BY <1>0, <1>1, <2>0, <2>4, <3>1, Replace
    <3> QED
      BY <1>1, <2>0, <2>1, <3>2 DEF Replaced
  <2> QED
    BY <2>2, <2>3, <2>4
<1>5. TypeOK'
  BY <1>0, <1>2, <1>3, <1>4, TypeParts, TypePartsNext
     DEF ObjTyped, GuildsTyped, CountsTyped, FullTyped, FilesTyped, SavesTyped, RunsTyped,
         counts, full
<1> QED
  BY <1>0, <1>2, <1>4, <1>5
     DEF TInv, SaverAt, FullPending, IncrPending, RetireAt, LastSave, data_ndt, save_index, counts, full

(* What one object adds to the file, and what it leaves in `main'. *)
LEMMA WriteFile ==
    ASSUME TInv, NEW s \in Serials, WriteObject(s)
    PROVE  \/ incr' = incr
           \/ \E d \in DataFiles : incr' = Put(incr, "data", "ndt", save_index, d)
<1> DEFINE d == [t \in DOMAIN data_ndt \cup {s} |-> IF t = s THEN obj[s].ver ELSE data_ndt[t]]
<1>1. data_ndt \in DataFiles /\ obj[s].ver \in Versions
  BY WritingTypes, TypeParts DEF TInv, WriteObject, ObjTyped, Objects
<1>2. \A f \in DataFiles, t \in Serials, v \in Versions :
         [u \in DOMAIN f \cup {t} |-> IF u = t THEN v ELSE f[u]] \in DataFiles
  BY DataOps
<1>3. d \in DataFiles
  BY <1>1, <1>2
<1>4. incr' = incr \/ incr' = Put(incr, "data", "ndt", save_index, d)
  BY DEF WriteObject
<1> QED
  BY <1>3, <1>4

LEMMA WriteStage ==
    ASSUME TInv, NEW s \in Serials, WriteObject(s)
    PROVE  /\ main.stage = "write" /\ main'.stage = "write" /\ main'.todo = main.todo \ {s}
           /\ main'.deleted = main.deleted
              \/ (main'.deleted = main.deleted \cup {s} /\ obj[s].dirty /\ ~obj[s].apart /\ obj[s].at # "live")
<1>1. main \in Mains /\ main.stage = "write"
  BY TypeParts DEF TInv, WriteObject
<1>2. \/ main' = [main EXCEPT !.todo = main.todo \ {s}]
      \/ /\ main' = [main EXCEPT !.todo = main.todo \ {s}, !.deleted = main.deleted \cup {s}]
         /\ obj[s].dirty /\ ~obj[s].apart /\ obj[s].at # "live"
  BY DEF WriteObject
<1> QED
  BY <1>1, <1>2 DEF Mains

(* The end of writing, and its failure. *)
LEMMA FinishTypes == ASSUME TInv, FinishWriting \/ FailWriting PROVE TInv'
<1>0. /\ TypeOK /\ SaverAt /\ main \in Mains /\ main.stage = "write" /\ IncrTyped(incr)
      /\ ObjTyped
  BY TypeParts DEF TInv, FinishWriting, FailWriting, FilesTyped
<1>1. save_index \in 1..MaxIncr /\ data_ndt \in DataFiles /\ write_index \in IndexFiles
  BY <1>0, WritingTypes
<1>2. ObjTyped'
  BY <1>0 DEF FinishWriting, FailWriting, CleanDeleted, ObjTyped
<1>3. CASE FinishWriting
  <2>1. /\ main' \in Mains /\ main'.stage = "commit"
        /\ UNCHANGED << guilds, changes, counts, full, bak, saves, fulls, starts >>
    BY <1>0, <1>3 DEF FinishWriting, Mains
  <2>2. "index" \in Kinds /\ "ndt" \in Suffixes /\ write_index \in FilesOf("index") \cup {NoFile}
    BY <1>1 DEF Kinds, Suffixes, FilesOf
  <2>3. IncrTyped(incr')
    BY <1>0, <1>1, <1>3, <2>2, Replace DEF FinishWriting
  <2>4. TypeOK'
    BY <1>0, <1>2, <2>1, <2>3, TypeParts, TypePartsNext
       DEF GuildsTyped, CountsTyped, FullTyped, FilesTyped, SavesTyped, RunsTyped, counts, full
  <2> QED
    BY <1>0, <2>1, <2>4
       DEF TInv, SaverAt, FullPending, IncrPending, RetireAt, LastSave, counts, full
<1>4. CASE FailWriting
  <2>1. /\ main' = Playing /\ incremental_saves_disabled' = TRUE
        /\ saves' = SubSeq(saves, 1, Len(saves) - 1)
        /\ UNCHANGED << guilds, changes, incremental_save_count, full, bak, fulls, starts >>
    BY <1>4 DEF FailWriting, DisableIncremental
  <2>2. PICK reached \in SUBSET DOMAIN data_ndt, index \in {NoIndex, write_index} :
           incr' = NewFiles([s \in reached |-> data_ndt[s]], index)
    BY <1>4 DEF FailWriting
  <2>3. [s \in reached |-> data_ndt[s]] \in DataFiles /\ index \in IndexFiles
    BY <1>1, <2>2, DataOps
  <2>4. IncrTyped(incr')
    BY <1>0, <1>1, <2>2, <2>3, WriteBoth
  <2>5. /\ saves' \in Seq(SaveRecords) /\ saves' # << >> /\ (HasFull(saves) => HasFull(saves'))
    <3>1. saves \in Seq(SaveRecords) /\ Len(saves) \in Nat /\ Len(saves) >= 2
          /\ LastSave.type = "incremental"
      BY <1>0, TypeParts, LenProperties DEF TInv, IncrPending, SavesTyped
    <3>2. /\ saves' \in Seq(SaveRecords) /\ Len(saves') = Len(saves) - 1
          /\ \A i \in 1..(Len(saves) - 1) : saves'[i] = saves[i]
      BY <2>1, <3>1, SubSeqProperties
    <3> QED
      BY <3>1, <3>2 DEF HasFull, LastSave
  <2>6. TypeOK'
    BY <1>0, <1>2, <2>1, <2>4, <2>5, RecordTypes, TypeParts, TypePartsNext
       DEF GuildsTyped, CountsTyped, FullTyped, FilesTyped, SavesTyped, RunsTyped, full
  <2> QED
    BY <1>0, <2>1, <2>5, <2>6
       DEF TInv, SaverAt, FullPending, IncrPending, RetireAt, full, Playing
<1> QED
  BY <1>3, <1>4

(* The renames of an incremental save. *)
LEMMA CommitTypes == ASSUME TInv, commit_incremental PROVE TInv'
<1>0. /\ TypeOK /\ SaverAt /\ main \in Mains /\ main.stage = "commit" /\ IncrTyped(incr)
      /\ SavesTyped
      /\ UNCHANGED << world, incremental_saves_disabled, full, bak, fulls, starts >>
  BY TypeParts DEF TInv, commit_incremental, FilesTyped
<1>1. save_index \in 1..MaxIncr
  BY <1>0, WritingTypes
<1>2. IncrTyped(incr')
  <2>1. main.kind \in Kinds /\ "txt" \in Suffixes
    BY <1>0 DEF Mains, Suffixes
  <2>2. CASE main.half = "old"
    BY <1>0, <1>1, <2>1, <2>2, Replace DEF commit_incremental, DataFirst
  <2>3. CASE main.half # "old"
    BY <1>0, <1>1, <2>1, <2>3, MoveFile DEF commit_incremental, DataFirst
  <2> QED
    BY <2>2, <2>3
<1>3. CASE LastHalf
  <2>1. main' = Playing /\ incremental_save_count' = save_index /\ saves' = CompleteIncremental
    BY <1>3 DEF commit_incremental
  <2>2. /\ saves' \in Seq(SaveRecords) /\ saves' # << >>
        /\ (HasFull(saves) => HasFull(saves'))
    <3>1. PICK k \in 0..(Len(saves) - 1) : Rest(CompleteIncremental, saves, k)
      BY <1>0, IncrementalRest DEF SavesTyped
    <3>2. LastSave.type = "incremental"
      BY <1>0 DEF TInv, IncrPending
    <3> QED
      BY <1>0, <2>1, <3>1, <3>2, IncrementalRest, RestLast DEF SavesTyped
  <2>3. CountsTyped'
    BY <1>0, <1>1, <2>1, TypeParts DEF CountsTyped
  <2>4. TypeOK'
    BY <1>0, <1>2, <2>1, <2>2, <2>3, RecordTypes, TypeParts, TypePartsNext
       DEF ObjTyped, GuildsTyped, FullTyped, FilesTyped, SavesTyped, RunsTyped, world, full
  <2> QED
    BY <1>0, <2>1, <2>2, <2>4
       DEF TInv, SaverAt, FullPending, IncrPending, RetireAt, full, Playing
<1>4. CASE ~LastHalf
  <2>1. main' = Following(main) /\ UNCHANGED << incremental_save_count, saves >>
    BY <1>4 DEF commit_incremental
  <2>2. main' \in Mains /\ main'.stage = "commit"
    BY <1>0, <2>1, RecordTypes DEF Following, Mains
  <2>3. TypeOK'
    BY <1>0, <1>2, <2>1, <2>2, TypeParts, TypePartsNext
       DEF ObjTyped, GuildsTyped, CountsTyped, FullTyped, FilesTyped, SavesTyped, RunsTyped,
           world, full
  <2> QED
    BY <1>0, <2>1, <2>2, <2>3
       DEF TInv, SaverAt, FullPending, IncrPending, RetireAt, LastSave, full
<1> QED
  BY <1>3, <1>4

(* The number of incremental saves that a start finds. *)
LEMMA CountExists ==
    /\ IncrementalCount \in 0..MaxIncr
    /\ \A i \in 1..IncrementalCount : Existing("index", "txt", i)
    /\ ~Existing("index", "txt", IncrementalCount + 1)
<1> DEFINE S == { n \in 0..MaxIncr : ~Existing("index", "txt", n + 1) }
<1>0. MaxIncr \in Nat
  BY Bounds
<1>1. MaxIncr \in S
  BY <1>0 DEF Existing
<1>2. S \subseteq 0..MaxIncr /\ S # {}
  <2>1. S \subseteq 0..MaxIncr
    OBVIOUS
  <2> HIDE DEF S
  <2> QED
    BY <1>1, <2>1
<1>3. PICK n \in S : \A m \in S : n <= m
  <2>1. S \in SUBSET Nat
    BY <1>0, <1>2
  <2> HIDE DEF S
  <2> QED
    BY <1>2, <2>1, Least
<1>4. ASSUME NEW i \in 1..n PROVE Existing("index", "txt", i)
  <2>1. i - 1 \in 0..MaxIncr /\ ~(n <= i - 1) /\ (i - 1) + 1 = i
    BY <1>0, <1>3
  <2>2. i - 1 \notin S
    BY <1>3, <2>1
  <2> QED
    BY <2>1, <2>2
<1>5. \E m \in 0..MaxIncr : /\ \A i \in 1..m : Existing("index", "txt", i)
                            /\ ~Existing("index", "txt", m + 1)
  BY <1>3, <1>4
<1> QED
  BY <1>5 DEF IncrementalCount

(* What a start reads are versions of objects. *)
LEMMA ReadType == ASSUME TypeOK PROVE Loaded \in Snapshots /\ \A s \in Serials : Read(s) \in Versions
<1>0. txt \in Snapshots /\ IncrTyped(incr) /\ 0 \in Versions
  BY TypeParts, Bounds DEF FullTyped, FilesTyped, Versions
<1>1. ASSUME NEW s \in Serials PROVE Read(s) \in Versions
  <2>1. CASE Copies(s) = {}
    BY <1>0, <2>1 DEF Read
  <2>2. CASE Copies(s) # {}
    <3> DEFINE i == CHOOSE i \in Copies(s) : TRUE
    <3>1. i \in Copies(s)
      BY <2>2
    <3>2. Read(s) = IF i = 0 THEN txt[s] ELSE incr["data"]["txt"][i][s]
      BY <2>2 DEF Read
    <3> HIDE DEF i
    <3>3. CASE i = 0
      BY <1>0, <3>2, <3>3 DEF Snapshots, Keys
    <3>4. CASE i # 0
      <4>1. i \in 1..MaxIncr /\ incr["data"]["txt"][i] # NoFile /\ s \in DOMAIN incr["data"]["txt"][i]
        BY <3>1, <3>4 DEF Copies, Existing
      <4>2. "data" \in Kinds /\ "txt" \in Suffixes
        BY DEF Kinds, Suffixes
      <4>3. incr["data"]["txt"][i] \in DataFiles
        BY <1>0, <4>1, <4>2 DEF IncrTyped, FilesOf
      <4>4. incr["data"]["txt"][i][s] \in Versions
        BY <4>1, <4>3, DataOps
      <4> QED
        BY <3>2, <3>4, <4>4
    <3> QED
      BY <3>3, <3>4
  <2> QED
    BY <2>1, <2>2
<1>2. \A k \in Keys : (IF k = Guilds THEN txt[Guilds] ELSE Read(k)) \in Versions
  BY <1>0, <1>1 DEF Keys, Snapshots
<1> QED
  BY <1>1, <1>2 DEF Loaded, Snapshots

(* A start that reads the files leaves a world of objects. *)
LEMMA RestartTypes == ASSUME TInv, Restart PROVE TInv'
<1>0. /\ TypeOK /\ main.stage # "stopped" /\ starts < MaxStarts /\ starts' = starts + 1
      /\ UNCHANGED << txt, ndt, incrs, fulls >> /\ saver' = Idle
  BY DEF TInv, Restart
<1>1. RunsTyped' /\ FilesTyped'
  <2>1. starts' \in 0..MaxStarts
    BY <1>0, TypeParts, Bounds DEF RunsTyped
  <2> QED
    BY <1>0, <2>1, TypeParts DEF RunsTyped, FilesTyped, incrs, IncrTyped
<1>2. CASE Refused \/ Duplicated # {}
  <2>1. /\ main' = [Playing EXCEPT !.stage = "stopped"] /\ UNCHANGED << world, counts, pending, saves >>
    BY <1>2 DEF Restart
  <2>2. main' \in Mains /\ main'.stage = "stopped"
    BY <2>1, RecordTypes DEF Mains
  <2>3. TypeOK'
    BY <1>0, <1>1, <2>1, <2>2, TypeParts, TypePartsNext, RecordTypes
       DEF ObjTyped, GuildsTyped, CountsTyped, FullTyped, SavesTyped, world, counts
  <2> QED
    BY <1>0, <2>2, <2>3 DEF TInv, SaverAt, FullPending, IncrPending, RetireAt
<1>3. CASE ~(Refused \/ Duplicated # {})
  <2>1. /\ main' = Playing /\ guilds' = txt[Guilds] /\ dirty_deleted' = {}
        /\ obj' = [s \in Serials |-> Stored(Read(s))]
        /\ clean_deleted' = { s \in Serials : get_save_index(s) = Deleted }
        /\ incremental_save_count' = IncrementalCount /\ incremental_saves_disabled' = FALSE
        /\ pending' = Loaded /\ changes' = changes
        /\ saves' = << [type |-> "start", snap |-> Loaded, done |-> TRUE, missing |-> {}] >>
    BY <1>3 DEF Restart
  <2>2. obj' \in [Serials -> Objects]
    BY <1>0, <2>1, ReadType, RecordTypes
  <2>3. ObjTyped'
    BY <2>1, <2>2 DEF ObjTyped
  <2>4. GuildsTyped' /\ CountsTyped'
    <3>1. txt[Guilds] \in Versions /\ changes \in 0..MaxChanges
      BY <1>0, TypeParts DEF FullTyped, Snapshots, Keys, GuildsTyped
    <3> QED
      BY <2>1, <3>1, CountExists DEF GuildsTyped, CountsTyped
  <2>5. saves' \in Seq(SaveRecords) /\ saves' # << >>
    <3>1. [type |-> "start", snap |-> Loaded, done |-> TRUE, missing |-> {}] \in SaveRecords
      BY <1>0, ReadType DEF SaveRecords
    <3> QED
      BY <2>1, <3>1
  <2>6. FullTyped'
    BY <1>0, <2>1, ReadType, RecordTypes, TypeParts DEF FullTyped
  <2>7. TypeOK'
    BY <1>1, <2>1, <2>3, <2>4, <2>5, <2>6, RecordTypes, TypePartsNext DEF SavesTyped
  <2> QED
    BY <1>0, <2>1, <2>7 DEF TInv, SaverAt, FullPending, IncrPending, RetireAt, Playing
<1> QED
  BY <1>2, <1>3

LEMMA InitTypes == ASSUME Init PROVE TInv
<1>1. PICK live \in SUBSET Serials : obj = [s \in Serials |-> IF s \in live THEN Stored(1) ELSE Absent]
  BY DEF Init
<1>2. 1 \in Versions /\ 0 \in Versions
  BY Bounds DEF Versions
<1>3. obj \in [Serials -> Objects]
  BY <1>1, <1>2, RecordTypes
<1>4. guilds \in Versions /\ changes \in 0..MaxChanges
  BY <1>2, Bounds DEF Init
<1>5. Snapshot \in Snapshots
  <2>1. \A k \in Keys :
           (IF k = Guilds THEN guilds ELSE IF Written(k) THEN obj[k].ver ELSE 0) \in Versions
    BY <1>2, <1>3, <1>4 DEF Keys, Objects
  <2> QED
    BY <2>1 DEF Snapshot, Snapshots
<1>6. incr = [kind \in Kinds |-> [suffix \in Suffixes |-> [i \in 1..MaxIncr |-> NoFile]]]
  BY DEF Init
<1>7. IncrTyped(incr)
  <2> DEFINE C == DataFiles \cup IndexFiles \cup {NoFile}
  <2>1. NoFile \in C
    OBVIOUS
  <2> HIDE DEF C
  <2>2. incr \in [Kinds -> [Suffixes -> [1..MaxIncr -> C]]]
    BY <1>6, <2>1
  <2>3. \A kind \in Kinds, suffix \in Suffixes, i \in 1..MaxIncr : incr[kind][suffix][i] = NoFile
    BY <1>6
  <2> QED
    BY <2>2, <2>3 DEF IncrTyped, C
<1>8. saves \in Seq(SaveRecords) /\ saves # << >>
  <2>1. [type |-> "start", snap |-> Snapshot, done |-> TRUE, missing |-> {}] \in SaveRecords
    BY <1>5 DEF SaveRecords
  <2> QED
    BY <2>1 DEF Init
<1>9. /\ main = Playing /\ saver = Idle /\ dirty_deleted = {} /\ clean_deleted = {}
      /\ incremental_save_count \in 0..MaxIncr /\ incremental_saves_disabled \in BOOLEAN
      /\ txt = Snapshot /\ pending = Snapshot /\ ndt = {} /\ bak = {}
      /\ fulls \in 0..MaxFull /\ starts \in 0..MaxStarts
  <2>1. 0 \in 0..MaxIncr /\ 0 \in 0..MaxFull /\ 0 \in 0..MaxStarts
    BY Bounds
  <2>2. /\ main = Playing /\ saver = Idle /\ dirty_deleted = {} /\ clean_deleted = {}
        /\ txt = Snapshot /\ pending = txt /\ ndt = {} /\ bak = {}
    BY DEF Init
  <2>3. /\ incremental_save_count = 0 /\ incremental_saves_disabled = FALSE
        /\ fulls = 0 /\ starts = 0
    BY DEF Init
  <2> QED
    BY <2>1, <2>2, <2>3
<1>10. TypeOK
  BY <1>3, <1>4, <1>5, <1>7, <1>8, <1>9, RecordTypes, TypeParts
     DEF ObjTyped, GuildsTyped, CountsTyped, FullTyped, FilesTyped, SavesTyped, RunsTyped
<1> QED
  BY <1>9, <1>10 DEF TInv, SaverAt, FullPending, IncrPending, RetireAt, Playing

LEMMA StutterTypes == ASSUME TInv, UNCHANGED vars PROVE TInv'
<1>1. TypeOK'
  BY TypeParts, TypePartsNext
     DEF TInv, vars, world, counts, full, incrs, ObjTyped, GuildsTyped, CountsTyped, FullTyped,
         FilesTyped, SavesTyped, RunsTyped, IncrTyped
<1> QED
  BY <1>1 DEF TInv, vars, world, counts, full, incrs, SaverAt, FullPending, IncrPending, RetireAt,
              LastSave, data_ndt, save_index

LEMMA NextTypes == ASSUME TInv, [Next]_vars PROVE TInv'
<1>1. ASSUME NEW s \in Serials, WriteObject(s) PROVE TInv'
  BY <1>1, WriteTypes
<1> QED
  BY <1>1, WorldTypes, SaverTypes, FullTypes, RetireTypes, StartTypes, FinishTypes, CommitTypes,
     RestartTypes, StutterTypes DEF Next, Main

(* The variables keep their types, whatever fails and wherever the server stops:
   in particular no file beyond the ones there may be is written or moved. *)
THEOREM TypeCorrect == Spec => []TypeOK
<1>1. Init => TInv
  BY InitTypes
<1>2. TInv /\ [Next]_vars => TInv'
  BY NextTypes
<1>3. TInv => TypeOK
  BY DEF TInv
<1> QED
  BY <1>1, <1>2, <1>3, PTL DEF Spec

-----------------------------------------------------------------------------
(* What is clean is saved.                                                 *)

(* The next incremental save has something to write about s. *)
Marked(s) == IF obj[s].at = "none" THEN s \in dirty_deleted ELSE obj[s].dirty

ObjInv == \A s \in Serials :
    /\ obj[s].apart => obj[s].at = "live"
    /\ s \in dirty_deleted => obj[s].at = "none"

(* What there is to save of s, wherever it lies. *)
Content(s) == IF obj[s].at = "live" THEN obj[s].ver ELSE 0

Saved(s) == LastSave.snap[s] = Content(s)

(* The last save has left s out with its owner, and nothing has marked it since. *)
LeftBehind(s) == /\ obj[s].at = "live" /\ ~obj[s].dirty
                 /\ s \in LastSave.missing /\ LastSave.snap[s] = 0

(* While a save is under way, it records the world; what it will skip stays marked. *)
Recorded == main.stage \in {"write", "commit", "retire"} =>
    \A s \in Serials : (obj[s].dirty /\ obj[s].apart) \/ Saved(s) \/ LeftBehind(s)

CleanRecorded == main.stage = "play" /\ ~incremental_saves_disabled =>
    \A s \in Serials : Marked(s) \/ Saved(s) \/ LeftBehind(s)

CleanInv == ObjInv /\ Recorded /\ CleanRecorded

(* A step that changes nothing but dirty flags does not change what there is to save. *)
LEMMA SameSnapshot ==
    ASSUME \A s \in Serials : /\ obj'[s].at = obj[s].at /\ obj'[s].ver = obj[s].ver
                              /\ obj'[s].apart = obj[s].apart,
           guilds' = guilds
    PROVE  Snapshot' = Snapshot
<1>1. \A s \in Serials : Written(s)' <=> Written(s)
  BY DEF Written
<1>2. \A k \in Keys : (IF k = Guilds THEN guilds' ELSE IF Written(k)' THEN obj'[k].ver ELSE 0)
                        = (IF k = Guilds THEN guilds ELSE IF Written(k) THEN obj[k].ver ELSE 0)
  BY <1>1 DEF Keys
<1> QED
  BY <1>2 DEF Snapshot

LEMMA SnapshotOf == \A s \in Serials : Snapshot[s] = IF Written(s) THEN obj[s].ver ELSE 0
BY Bounds DEF Snapshot, Keys

(* Records that are completed or dropped do not change the last one. *)
LEMMA LastKept ==
    ASSUME TInv, \/ saves' = saves
                 \/ saves' = CompleteFull /\ HasFull(saves)
                 \/ saves' = CompleteIncremental
    PROVE  LastSave'.snap = LastSave.snap /\ LastSave'.missing = LastSave.missing
<1>0. saves \in Seq(SaveRecords) /\ saves # << >> /\ Len(saves) \in Nat
  BY TypeParts, LenProperties DEF TInv, SavesTyped
<1>1. CASE saves' = saves
  BY <1>1 DEF LastSave
<1>2. CASE saves' = CompleteFull /\ HasFull(saves)
  <2>1. PICK i \in 1..Len(saves) : Rest(CompleteFull, saves, i - 1)
    BY <1>0, <1>2, FullRest
  <2>2. i - 1 \in 0..(Len(saves) - 1)
    BY <1>0
  <2> QED
    BY <1>0, <1>2, <2>1, <2>2, RestLast DEF LastSave
<1>3. CASE saves' = CompleteIncremental
  <2>1. PICK k \in 0..(Len(saves) - 1) : Rest(CompleteIncremental, saves, k)
    BY <1>0, IncrementalRest
  <2> QED
    BY <1>0, <1>3, <2>1, RestLast DEF LastSave
<1> QED
  BY <1>1, <1>2, <1>3

(* The last record is a new one. *)
LEMMA LastBegun ==
    ASSUME TInv, NEW type \in {"start", "full", "incremental"}, NEW snap \in Snapshots,
           saves' = Begin(type, snap)
    PROVE  /\ LastSave'.snap = snap /\ saves'[Len(saves') - 1] = LastSave
           /\ \A s \in Serials : s \in LastSave'.missing <=> obj[s].at = "live" /\ snap[s] = 0
<1>1. /\ Len(saves') = Len(saves) + 1 /\ Len(saves) \in Nat \ {0}
      /\ saves'[Len(saves) + 1]
           = [type |-> type, snap |-> snap, done |-> FALSE, missing |-> Missing(snap)]
      /\ \A i \in 1..Len(saves) : saves'[i] = saves[i]
  BY BeginType DEF TInv
<1>2. Len(saves') - 1 = Len(saves) /\ Len(saves) \in 1..Len(saves)
  BY <1>1
<1>3. LastSave'.snap = snap /\ LastSave'.missing = Missing(snap)
  BY <1>1 DEF LastSave
<1> QED
  BY <1>1, <1>2, <1>3 DEF LastSave, Missing

(* Steps on the files alone. *)
LEMMA CleanKept ==
    ASSUME CleanInv, UNCHANGED << world, incremental_saves_disabled >>, main'.stage = main.stage,
           LastSave'.snap = LastSave.snap, LastSave'.missing = LastSave.missing
    PROVE  CleanInv'
<1>1. UNCHANGED << obj, dirty_deleted >>
  BY DEF world
<1>2. ObjInv'
  BY <1>1 DEF CleanInv, ObjInv
<1>3. \A s \in Serials : /\ Marked(s)' <=> Marked(s)
                         /\ Saved(s)' <=> Saved(s)
                         /\ LeftBehind(s)' <=> LeftBehind(s)
  BY <1>1 DEF Marked, Saved, Content, LeftBehind
<1>4. Recorded' /\ CleanRecorded'
  BY <1>1, <1>3 DEF CleanInv, Recorded, CleanRecorded
<1> QED
  BY <1>2, <1>4 DEF CleanInv

(* The end of a save: it records the world, but for what stays marked. *)
LEMMA CleanAtEnd ==
    ASSUME CleanInv, main.stage \in {"commit", "retire"}, main'.stage = "play",
           obj' = obj, dirty_deleted' \subseteq dirty_deleted,
           LastSave'.snap = LastSave.snap, LastSave'.missing = LastSave.missing
    PROVE  CleanInv'
<1>1. ObjInv' /\ Recorded'
  BY DEF CleanInv, ObjInv, Recorded
<1>2. ASSUME NEW s \in Serials PROVE Marked(s)' \/ Saved(s)' \/ LeftBehind(s)'
  <2>1. (obj[s].dirty /\ obj[s].apart) \/ Saved(s) \/ LeftBehind(s)
    BY DEF CleanInv, Recorded
  <2>2. obj[s].dirty /\ obj[s].apart => Marked(s)'
    BY DEF Marked, CleanInv, ObjInv
  <2>3. (Saved(s) => Saved(s)') /\ (LeftBehind(s) => LeftBehind(s)')
    BY DEF Saved, Content, LeftBehind
  <2> QED
    BY <2>1, <2>2, <2>3
<1> QED
  BY <1>1, <1>2 DEF CleanInv, CleanRecorded

(* Every change of an object marks it; where it lies is no matter of what there is to save. *)
LEMMA WorldClean == ASSUME TInv, CleanInv, World PROVE CleanInv'
<1>0. /\ obj \in [Serials -> Objects] /\ ObjInv
      /\ UNCHANGED << incremental_saves_disabled, main, saves >>
  BY TypeParts DEF TInv, ObjTyped, CleanInv, World, counts
<1>1. CASE ChangeGuilds
  <2>1. main.stage = "play" /\ UNCHANGED << obj, dirty_deleted >>
    BY <1>1 DEF ChangeGuilds, Changing
  <2>2. \A s \in Serials : /\ Marked(s)' <=> Marked(s)
                           /\ Saved(s)' <=> Saved(s)
                           /\ LeftBehind(s)' <=> LeftBehind(s)
    BY <1>0, <2>1 DEF Marked, Saved, Content, LeftBehind, LastSave
  <2> QED
    BY <1>0, <2>1, <2>2 DEF CleanInv, ObjInv, Recorded, CleanRecorded
<1>2. ASSUME NEW s \in Serials, Create(s) \/ Change(s) \/ Carry(s) \/ destroy(s) \/ Reap(s)
      PROVE  CleanInv'
  <2>1. main.stage = "play"
    BY <1>2 DEF Create, Change, Carry, destroy, Reap, Changing
  <2>2. /\ \A t \in Serials \ {s} : obj'[t] = obj[t] /\ (t \in dirty_deleted' <=> t \in dirty_deleted)
        /\ \/ Marked(s)'
           \/ /\ obj'[s].at = obj[s].at /\ obj'[s].ver = obj[s].ver /\ obj'[s].dirty = obj[s].dirty
              /\ dirty_deleted' = dirty_deleted
        /\ s \in dirty_deleted' => obj'[s].at = "none"
        /\ obj'[s].apart => obj'[s].at = "live"
    <3>1. CASE Create(s)
      <4>1. /\ obj' = [obj EXCEPT ![s] = [Stored(changes' + 1) EXCEPT !.dirty = TRUE]]
            /\ dirty_deleted' = dirty_deleted /\ s \notin dirty_deleted /\ changes' = changes + 1
        BY <3>1 DEF Create, Unused, Changing
      <4>2. changes \in Nat
        BY TypeParts, Bounds DEF TInv, GuildsTyped
      <4>3. changes' + 1 # 0
        BY <4>1, <4>2
      <4>4. Stored(changes' + 1) = [at |-> "live", ver |-> changes' + 1, dirty |-> FALSE,
                                    apart |-> FALSE]
        BY <4>3 DEF Stored, Absent
      <4>5. obj'[s] = [Stored(changes' + 1) EXCEPT !.dirty = TRUE]
        BY <1>0, <4>1
      <4>6. obj'[s].at = "live" /\ obj'[s].dirty
        BY <4>4, <4>5
      <4>7. \A t \in Serials \ {s} : obj'[t] = obj[t]
        BY <1>0, <4>1
      <4> QED
        BY <4>1, <4>6, <4>7 DEF Marked
    <3>2. CASE Change(s)
      <4>1. PICK apart \in BOOLEAN :
               obj' = [obj EXCEPT ![s] = [@ EXCEPT !.ver = changes' + 1, !.dirty = TRUE, !.apart = apart]]
        BY <3>2 DEF Change
      <4>2. obj[s].at = "live" /\ dirty_deleted' = dirty_deleted /\ s \notin dirty_deleted
        BY <1>0, <3>2 DEF Change, ObjInv
      <4>3. obj[s] \in Objects
        BY <1>0
      <4>4. obj'[s].dirty /\ obj'[s].at = "live"
        BY <1>0, <4>1, <4>2, <4>3 DEF Objects
      <4>5. \A t \in Serials \ {s} : obj'[t] = obj[t]
        BY <1>0, <4>1
      <4> QED
        BY <4>2, <4>4, <4>5 DEF Marked
    <3>3. CASE Carry(s)
      <4>1. /\ obj' = [obj EXCEPT ![s] = [@ EXCEPT !.apart = ~obj[s].apart]]
            /\ obj[s].at = "live" /\ dirty_deleted' = dirty_deleted /\ s \notin dirty_deleted
        BY <1>0, <3>3 DEF Carry, ObjInv
      <4>2. obj[s] \in Objects
        BY <1>0
      <4>3. obj'[s].at = obj[s].at /\ obj'[s].ver = obj[s].ver /\ obj'[s].dirty = obj[s].dirty
        BY <1>0, <4>1, <4>2 DEF Objects
      <4>4. \A t \in Serials \ {s} : obj'[t] = obj[t]
        BY <1>0, <4>1
      <4> QED
        BY <4>1, <4>3, <4>4
    <3>4. CASE destroy(s)
      <4>1. /\ obj' = [obj EXCEPT ![s] = [@ EXCEPT !.at = "orphan", !.dirty = TRUE, !.apart = FALSE]]
            /\ obj[s].at = "live" /\ dirty_deleted' = dirty_deleted /\ s \notin dirty_deleted
        BY <1>0, <3>4 DEF destroy, ObjInv
      <4>2. obj[s] \in Objects
        BY <1>0
      <4>3. obj'[s].dirty /\ obj'[s].at = "orphan" /\ ~obj'[s].apart
        BY <1>0, <4>1, <4>2 DEF Objects
      <4>4. \A t \in Serials \ {s} : obj'[t] = obj[t]
        BY <1>0, <4>1
      <4> QED
        BY <4>1, <4>3, <4>4 DEF Marked
    <3>5. CASE Reap(s)
      <4>1. obj' = [obj EXCEPT ![s] = Absent] /\ dirty_deleted' = dirty_deleted \cup {s}
        BY <3>5 DEF Reap
      <4>2. obj'[s] = Absent /\ \A t \in Serials \ {s} : obj'[t] = obj[t]
        BY <1>0, <4>1
      <4>3. obj'[s].at = "none" /\ ~obj'[s].apart
        BY <4>2 DEF Absent
      <4> QED
        BY <4>1, <4>2, <4>3 DEF Marked
    <3> QED
      BY <1>2, <3>1, <3>2, <3>3, <3>4, <3>5
  <2>3. ObjInv'
    BY <1>0, <2>2 DEF ObjInv
  <2>4. ASSUME NEW t \in Serials,
               /\ obj'[t].at = obj[t].at /\ obj'[t].ver = obj[t].ver /\ obj'[t].dirty = obj[t].dirty
               /\ t \in dirty_deleted' <=> t \in dirty_deleted
        PROVE  Marked(t) \/ Saved(t) \/ LeftBehind(t) => Marked(t)' \/ Saved(t)' \/ LeftBehind(t)'
    BY <1>0, <2>4 DEF Marked, Saved, Content, LeftBehind, LastSave
  <2>5. ASSUME NEW t \in Serials
        PROVE  Marked(t) \/ Saved(t) \/ LeftBehind(t) => Marked(t)' \/ Saved(t)' \/ LeftBehind(t)'
    BY <2>2, <2>4
  <2>6. CleanRecorded'
    BY <1>0, <2>1, <2>5 DEF CleanInv, CleanRecorded
  <2>7. Recorded'
    BY <1>0, <2>1 DEF Recorded
  <2> QED
    BY <2>3, <2>6, <2>7 DEF CleanInv
<1> QED
  BY <1>1, <1>2 DEF World

(* A save cleans only what it records. *)
LEMMA SavesClean ==
    ASSUME TInv, CleanInv, write_data \/ save_incremental \/ (\E s \in Serials : WriteObject(s))
    PROVE  CleanInv'
<1>0. obj \in [Serials -> Objects] /\ ObjInv /\ TypeOK
  BY TypeParts DEF TInv, ObjTyped, CleanInv
<1>1. CASE write_data
  <2>1. /\ obj' = [s \in Serials |-> Cleaned(s)] /\ UNCHANGED << guilds, dirty_deleted >>
        /\ saves' = Begin("full", Snapshot) /\ main'.stage = "retire" /\ Snapshot \in Snapshots
    BY <1>0, <1>1, SnapshotType DEF write_data, Playing
  <2>2. \A s \in Serials : /\ obj'[s].at = obj[s].at /\ obj'[s].ver = obj[s].ver
                           /\ obj'[s].apart = obj[s].apart
                           /\ (obj[s].apart => obj'[s].dirty = obj[s].dirty)
    <3>1. \A s \in Serials : obj'[s] = IF Written(s) THEN [obj[s] EXCEPT !.dirty = FALSE] ELSE obj[s]
      BY <2>1 DEF Cleaned
    <3> QED
      BY <1>0, <3>1 DEF Written, Objects
  <2>3. /\ LastSave'.snap = Snapshot
        /\ \A s \in Serials : s \in LastSave'.missing <=> obj[s].at = "live" /\ Snapshot[s] = 0
    BY <2>1, LastBegun
  <2>4. ObjInv'
    BY <1>0, <2>1, <2>2 DEF ObjInv
  <2>5. ASSUME NEW s \in Serials
        PROVE  (obj'[s].dirty /\ obj'[s].apart) \/ Saved(s)' \/ LeftBehind(s)'
    <3>1. LastSave'.snap[s] = IF Written(s) THEN obj[s].ver ELSE 0
      BY <2>3, SnapshotOf
    <3>2. CASE obj[s].at = "live" /\ obj[s].apart /\ ~obj[s].dirty
      <4>1. Snapshot[s] = 0 /\ s \in LastSave'.missing
        BY <2>3, <3>1, <3>2 DEF Written
      <4> QED
        BY <2>2, <2>3, <3>2, <4>1 DEF LeftBehind
    <3>3. CASE obj[s].at = "live" /\ obj[s].apart /\ obj[s].dirty
      BY <2>2, <3>3
    <3>4. CASE ~(obj[s].at = "live" /\ obj[s].apart)
      BY <2>2, <3>1, <3>4 DEF Written, Saved, Content
    <3> QED
      BY <3>2, <3>3, <3>4
  <2> QED
    BY <2>1, <2>4, <2>5 DEF CleanInv, Recorded, CleanRecorded
<1>2. CASE save_incremental
  <2>1. /\ UNCHANGED << obj, guilds, dirty_deleted >> /\ main'.stage = "write"
        /\ saves' = Begin("incremental", IncrementalSnapshot) /\ main.stage = "play"
        /\ ~incremental_saves_disabled
    BY <1>2 DEF save_incremental, world, Playing
  <2>2. /\ IncrementalSnapshot \in Snapshots
        /\ \A s \in Serials : IncrementalSnapshot[s] = IF Left(s) THEN LastSave.snap[s]
                                                     ELSE Snapshot[s]
    BY <1>0, IncrementalType
  <2>3. /\ LastSave'.snap = IncrementalSnapshot
        /\ \A s \in Serials :
              s \in LastSave'.missing <=> obj[s].at = "live" /\ IncrementalSnapshot[s] = 0
    BY <2>1, <2>2, LastBegun
  <2>4. ASSUME NEW s \in Serials
        PROVE  (obj'[s].dirty /\ obj'[s].apart) \/ Saved(s)' \/ LeftBehind(s)'
    <3>1. LastSave'.snap[s] = IF Left(s) THEN LastSave.snap[s] ELSE IF Written(s) THEN obj[s].ver ELSE 0
      BY <2>2, <2>3, SnapshotOf
    <3>2. CASE obj[s].at = "live" /\ ~obj[s].dirty
      <4>1. Saved(s) \/ LeftBehind(s)
        BY <2>1, <3>2 DEF CleanInv, CleanRecorded, Marked
      <4>2. LastSave'.snap[s] = LastSave.snap[s]
        BY <3>1, <3>2 DEF Left
      <4>3. CASE Saved(s)
        BY <2>1, <4>2, <4>3 DEF Saved, Content
      <4>4. CASE LeftBehind(s)
        <5>1. s \in LastSave'.missing
          BY <2>3, <4>2, <4>4 DEF LeftBehind
        <5> QED
          BY <2>1, <4>2, <4>4, <5>1 DEF LeftBehind
      <4> QED
        BY <4>1, <4>3, <4>4
    <3>3. CASE obj[s].at = "live" /\ obj[s].dirty
      BY <2>1, <3>1, <3>3 DEF Left, Written, Saved, Content
    <3>4. CASE obj[s].at # "live"
      BY <2>1, <3>1, <3>4 DEF Left, Written, Saved, Content
    <3> QED
      BY <3>2, <3>3, <3>4
  <2>5. ObjInv'
    BY <1>0, <2>1 DEF ObjInv
  <2> QED
    BY <2>1, <2>4, <2>5 DEF CleanInv, Recorded, CleanRecorded
<1>3. ASSUME NEW s \in Serials, WriteObject(s) PROVE CleanInv'
  <2>1. /\ main.stage = "write" /\ main'.stage = "write" /\ saves' = saves
        /\ UNCHANGED << guilds, dirty_deleted >>
        /\ (obj' = obj \/ (obj' = [obj EXCEPT ![s] = [@ EXCEPT !.dirty = FALSE]] /\ ~obj[s].apart))
    <3>1. main \in Mains /\ (\E m \in {{}, {s}} :
             main' = [main EXCEPT !.todo = main.todo \ {s}, !.deleted = main.deleted \cup m])
      <4>1. main \in Mains
        BY <1>0, TypeParts
      <4>2. \/ main' = [main EXCEPT !.todo = main.todo \ {s}]
            \/ main' = [main EXCEPT !.todo = main.todo \ {s}, !.deleted = main.deleted \cup {s}]
        BY <1>3 DEF WriteObject
      <4>3. [main EXCEPT !.todo = main.todo \ {s}]
              = [main EXCEPT !.todo = main.todo \ {s}, !.deleted = main.deleted \cup {}]
        BY <4>1 DEF Mains
      <4> QED
        BY <4>1, <4>2, <4>3
    <3>2. main'.stage = main.stage
      BY <3>1 DEF Mains
    <3> QED
      BY <1>3, <3>2 DEF WriteObject
  <2>2. \A t \in Serials : /\ obj'[t].at = obj[t].at /\ obj'[t].ver = obj[t].ver
                           /\ obj'[t].apart = obj[t].apart
                           /\ (obj[t].apart => obj'[t].dirty = obj[t].dirty)
                           /\ (~obj[t].dirty => ~obj'[t].dirty)
    BY <1>0, <2>1 DEF Objects
  <2>3. ObjInv'
    BY <1>0, <2>1, <2>2 DEF ObjInv
  <2>4. ASSUME NEW t \in Serials
        PROVE  (obj'[t].dirty /\ obj'[t].apart) \/ Saved(t)' \/ LeftBehind(t)'
    <3>1. (obj[t].dirty /\ obj[t].apart) \/ Saved(t) \/ LeftBehind(t)
      BY <2>1 DEF CleanInv, Recorded
    <3>2. (Saved(t) => Saved(t)') /\ (LeftBehind(t) => LeftBehind(t)')
      BY <2>1, <2>2 DEF Saved, Content, LeftBehind, LastSave
    <3> QED
      BY <2>2, <3>1, <3>2
  <2> QED
    BY <2>1, <2>3, <2>4 DEF CleanInv, Recorded, CleanRecorded
<1> QED
  BY <1>1, <1>2, <1>3

(* A start reads clean objects, which are its own record. *)
LEMMA StartClean ==
    ASSUME TInv, Restart \/ Init
    PROVE  (Restart /\ CleanInv => CleanInv') /\ (Init => CleanInv)
<1>1. ASSUME Restart, CleanInv PROVE CleanInv'
  <2>1. CASE Refused \/ Duplicated # {}
    <3>1. UNCHANGED << obj, dirty_deleted >> /\ main'.stage = "stopped"
      BY <1>1, <2>1 DEF Restart, world, Playing
    <3> QED
      BY <1>1, <3>1 DEF CleanInv, ObjInv, Recorded, CleanRecorded
  <2>2. CASE ~(Refused \/ Duplicated # {})
    <3>1. /\ obj' = [s \in Serials |-> Stored(Read(s))] /\ main'.stage = "play"
          /\ dirty_deleted' = {}
          /\ saves' = << [type |-> "start", snap |-> Loaded, done |-> TRUE, missing |-> {}] >>
      BY <1>1, <2>2 DEF Restart, Playing
    <3>2. LastSave'.snap = Loaded /\ LastSave'.missing = {}
      BY <3>1 DEF LastSave
    <3>3. \A s \in Serials : /\ obj'[s].at \in {"none", "live"} /\ ~obj'[s].apart
                             /\ obj'[s].ver = Read(s) /\ (obj'[s].at = "none" <=> Read(s) = 0)
      BY <3>1 DEF Stored, Absent
    <3>4. \A s \in Serials : Loaded[s] = Read(s)
      BY Bounds DEF Loaded, Keys
    <3>5. \A s \in Serials : Saved(s)'
      BY <3>2, <3>3, <3>4 DEF Saved, Content
    <3> QED
      BY <3>1, <3>3, <3>5 DEF CleanInv, ObjInv, Recorded, CleanRecorded
  <2> QED
    BY <2>1, <2>2
<1>2. ASSUME Init PROVE CleanInv
  <2>1. PICK live \in SUBSET Serials :
           obj = [s \in Serials |-> IF s \in live THEN Stored(1) ELSE Absent]
    BY <1>2 DEF Init
  <2>2. \A s \in Serials : ~obj[s].apart
    BY <2>1 DEF Stored, Absent
  <2>3. LastSave.snap = Snapshot /\ main.stage = "play" /\ dirty_deleted = {}
    BY <1>2 DEF Init, LastSave, Playing
  <2>4. \A s \in Serials : Saved(s)
    BY <2>2, <2>3, SnapshotOf DEF Saved, Content, Written
  <2> QED
    BY <2>2, <2>3, <2>4 DEF CleanInv, ObjInv, Recorded, CleanRecorded
<1> QED
  BY <1>1, <1>2

LEMMA NextClean == ASSUME TInv, CleanInv, [Next]_vars PROVE CleanInv'
<1>0. TypeOK
  BY DEF TInv
<1>1. CASE UNCHANGED vars
  BY <1>1, CleanKept DEF vars, world, counts, LastSave
<1>2. CASE Saver
  <2>1. /\ UNCHANGED << world, incremental_saves_disabled, main >>
        /\ saves' = saves \/ saves' = CompleteFull
        /\ HasFull(saves)
    BY <1>2 DEF Saver, Flush, CommitOld, CommitNew, counts, TInv, FullPending, Idle
  <2> QED
    BY <2>1, CleanKept, LastKept
<1>3. CASE commit_incremental_saves
  <2>1. main'.stage = main.stage /\ UNCHANGED << world, incremental_saves_disabled, saves >>
    BY <1>0, <1>3, TypeParts DEF commit_incremental_saves, Following, Mains, counts
  <2> QED
    BY <2>1, CleanKept, LastKept
<1>4. CASE write_data_returns
  <2>1. /\ main.stage = "retire" /\ main'.stage = "play" /\ UNCHANGED << obj, guilds >>
        /\ dirty_deleted' \subseteq dirty_deleted /\ (saves' = saves \/ saves' = CompleteFull)
    BY <1>4 DEF write_data_returns, Playing
  <2>2. HasFull(saves)
    BY <2>1 DEF TInv, FullPending
  <2> QED
    BY <2>1, <2>2, CleanAtEnd, LastKept
<1>5. CASE FinishWriting
  <2>1. /\ main.stage = "write" /\ main'.stage = "commit" /\ UNCHANGED << obj, guilds, saves >>
        /\ dirty_deleted' = {}
    BY <1>0, <1>5, TypeParts DEF FinishWriting, CleanDeleted, Mains
  <2>2. \A s \in Serials : (Saved(s) => Saved(s)') /\ (LeftBehind(s) => LeftBehind(s)')
    BY <2>1 DEF Saved, Content, LeftBehind, LastSave
  <2> QED
    BY <2>1, <2>2 DEF CleanInv, ObjInv, Recorded, CleanRecorded
<1>6. CASE FailWriting
  <2>1. /\ main'.stage = "play" /\ incremental_saves_disabled' = TRUE /\ obj' = obj
        /\ (dirty_deleted' = {} \/ dirty_deleted' = dirty_deleted)
    BY <1>6 DEF FailWriting, CleanDeleted, DisableIncremental, Playing
  <2> QED
    BY <2>1 DEF CleanInv, ObjInv, Recorded, CleanRecorded
<1>7. CASE commit_incremental
  <2>0. main \in Mains /\ main.stage = "commit" /\ UNCHANGED << world, incremental_saves_disabled >>
    BY <1>0, <1>7, TypeParts DEF commit_incremental
  <2>1. CASE LastHalf
    <3>1. main'.stage = "play" /\ saves' = CompleteIncremental
      BY <1>7, <2>1 DEF commit_incremental, Playing
    <3> QED
      BY <2>0, <3>1, CleanAtEnd, LastKept DEF world
  <2>2. CASE ~LastHalf
    <3>1. main'.stage = main.stage /\ saves' = saves
      BY <1>7, <2>0, <2>2 DEF commit_incremental, Following, Mains
    <3> QED
      BY <2>0, <3>1, CleanKept, LastKept
  <2> QED
    BY <2>1, <2>2
<1> QED
  BY <1>1, <1>2, <1>3, <1>4, <1>5, <1>6, <1>7, WorldClean, SavesClean, StartClean DEF Next, Main

LEMMA CleanMeans == CleanInv => CleanIsSaved
  <1>1. SUFFICES ASSUME CleanInv, main.stage = "play", ~incremental_saves_disabled, NEW s \in Serials
                 PROVE  /\ obj[s].at = "live" /\ ~obj[s].dirty =>
                              \/ LastSave.snap[s] = obj[s].ver
                              \/ s \in LastSave.missing /\ LastSave.snap[s] = 0
                        /\ obj[s].at = "orphan" /\ ~obj[s].dirty => LastSave.snap[s] = 0
                        /\ obj[s].at = "none" /\ s \notin dirty_deleted => LastSave.snap[s] = 0
    BY DEF CleanIsSaved
  <1>2. Marked(s) \/ Saved(s) \/ LeftBehind(s)
    BY <1>1 DEF CleanInv, CleanRecorded
  <1> QED
    BY <1>2 DEF Marked, Saved, Content, LeftBehind

(* The last save holds what is not marked dirty and what no serial in dirty_deleted
   stands for, but for objects that it left out and that nothing has marked since,
   whichever earlier saves failed halfway, wherever the server stopped and however
   containers are moved. *)
THEOREM CleanObjectsSaved == Spec => []CleanIsSaved
<1>1. Init => TInv /\ CleanInv
  BY InitTypes, StartClean
<1>2. TInv /\ CleanInv /\ [Next]_vars => (TInv /\ CleanInv)'
  BY NextTypes, NextClean
<1>3. TInv /\ CleanInv => CleanIsSaved
  BY CleanMeans
<1> QED
  BY <1>1, <1>2, <1>3, PTL DEF Spec

-----------------------------------------------------------------------------
(* No file is left over.                                                   *)

Tame == Failures = FALSE /\ CrashAt \subseteq {"play", "refused"}

Has(kind, suffix, i) == incr[kind][suffix][i] # NoFile

(* The full save has not yet moved this file away. *)
Remaining(kind, i) ==
    \/ i > main.i
    \/ i = main.i /\ kind = main.kind /\ main.half = "old"
    \/ i = main.i /\ kind = "index" /\ main.kind = "data"

(* Every file belongs to the count, to the incremental save that is under way or to
   the full save that has not yet moved it away. *)
SaveTidy == main.stage \in {"play", "write", "commit"} =>
    \A i \in 1..MaxIncr :
       /\ \A kind \in Kinds : Has(kind, "ndt", i) => main.stage # "play" /\ i = save_index
       /\ Has("index", "txt", i) <=> i <= incremental_save_count
       /\ Has("data", "txt", i) => \/ i <= incremental_save_count
                                   \/ main.stage = "commit" /\ main.kind = "index" /\ i = save_index
CommitTidy == main.stage = "commit" => /\ Has("index", "ndt", save_index)
                                       /\ main.kind = "index" => ~Has("data", "ndt", save_index)
RetireTidy == main.stage = "retire" =>
    \A i \in 1..MaxIncr :
       /\ \A kind \in Kinds :
             /\ ~Has(kind, "ndt", i)
             /\ Has(kind, "txt", i) => Remaining(kind, i) /\ i <= incremental_save_count
       /\ i <= incremental_save_count /\ i > main.i => Has("index", "txt", i)
       /\ i <= incremental_save_count /\ i = main.i /\ AtStartOf(main) => Has("index", "txt", i)

Tidy == SaveTidy /\ CommitTidy /\ RetireTidy

LEMMA Names == /\ "data" \in Kinds /\ "index" \in Kinds /\ "txt" \in Suffixes /\ "ndt" \in Suffixes
               /\ \A kind \in Kinds : kind = "data" \/ kind = "index"
BY DEF Kinds, Suffixes

(* The count that a start gets. *)
LEMMA CountIs ==
    ASSUME NEW n \in 0..MaxIncr, \A i \in 1..MaxIncr : Has("index", "txt", i) <=> i <= n
    PROVE  IncrementalCount = n
<1> DEFINE c == IncrementalCount
<1>0. MaxIncr \in Nat
  BY Bounds
<1>1. /\ c \in 0..MaxIncr /\ ~Existing("index", "txt", c + 1)
      /\ \A i \in 1..c : Existing("index", "txt", i)
  BY CountExists
<1> HIDE DEF c
<1>2. \A i \in 1..MaxIncr : Existing("index", "txt", i) <=> i <= n
  BY DEF Existing, Has
<1>3. CASE c < n
  BY <1>0, <1>1, <1>2, <1>3
<1>4. CASE n < c
  <2>1. n + 1 \in 1..c /\ n + 1 \in 1..MaxIncr /\ ~(n + 1 <= n)
    BY <1>0, <1>1, <1>4
  <2> QED
    BY <1>1, <1>2, <2>1
<1> QED
  BY <1>0, <1>1, <1>3, <1>4 DEF c

(* Steps that leave these files, and the stage, alone. *)
LEMMA TidyKept ==
    ASSUME Tidy, incr' = incr, incremental_save_count' = incremental_save_count,
           \/ main' = main
           \/ main'.stage = "stopped"
           \/ main.stage = "play" /\ main'.stage = "play"
    PROVE  Tidy'
<1>1. \A kind \in Kinds, suffix \in Suffixes, i \in 1..MaxIncr :
         Has(kind, suffix, i)' <=> Has(kind, suffix, i)
  BY DEF Has
<1>2. save_index' = save_index
  BY DEF save_index
<1>3. CASE main' = main
  BY <1>3 DEF Tidy, SaveTidy, CommitTidy, RetireTidy, Has, Remaining, save_index
<1>4. CASE main'.stage = "stopped"
  BY <1>4 DEF Tidy, SaveTidy, CommitTidy, RetireTidy
<1>5. CASE main.stage = "play" /\ main'.stage = "play"
  <2>1. SaveTidy'
    BY <1>1, <1>2, <1>5, Names DEF Tidy, SaveTidy
  <2> QED
    BY <1>5, <2>1 DEF Tidy, CommitTidy, RetireTidy
<1> QED
  BY <1>3, <1>4, <1>5

(* The files of an incremental save while it is written. *)
LEMMA WriteTidy ==
    ASSUME TInv, Tidy, save_incremental \/ (\E s \in Serials : WriteObject(s)) \/ FinishWriting
    PROVE  Tidy'
<1> DEFINE n == save_index
<1>0. /\ TypeOK /\ IncrTyped(incr) /\ main \in Mains
      /\ save_index \in 1..MaxIncr /\ save_index' = save_index
      /\ incremental_save_count' = incremental_save_count
  <2>1. TypeOK /\ IncrTyped(incr) /\ main \in Mains /\ incremental_save_count \in 0..MaxIncr
    BY TypeParts DEF TInv, FilesTyped, CountsTyped
  <2>2. incremental_save_count < MaxIncr /\ incremental_save_count' = incremental_save_count
    BY DEF TInv, IncrPending, save_incremental, WriteObject, FinishWriting, counts
  <2>3. save_index \in 1..MaxIncr /\ save_index' = save_index
    BY <2>1, <2>2, Bounds DEF save_index
  <2> QED
    BY <2>1, <2>2, <2>3
<1>1. \A kind \in Kinds, suffix \in Suffixes, i \in 1..MaxIncr :
         i # n \/ suffix # "ndt" => incr'[kind][suffix][i] = incr[kind][suffix][i]
  <2>1. CASE save_incremental
    <3>1. incr' = NewFiles(NoObjects, NoIndex)
      BY <2>1 DEF save_incremental
    <3> QED
      BY <1>0, <3>1, WriteBoth, DataOps
  <2>2. ASSUME NEW s \in Serials, WriteObject(s)
        PROVE  \A kind \in Kinds, suffix \in Suffixes, i \in 1..MaxIncr :
                  i # n \/ suffix # "ndt" => incr'[kind][suffix][i] = incr[kind][suffix][i]
    <3>1. \/ incr' = incr
          \/ \E d \in DataFiles : incr' = Put(incr, "data", "ndt", n, d)
      BY <1>0, <2>2, WriteFile
    <3>2. ASSUME NEW d \in DataFiles, incr' = Put(incr, "data", "ndt", n, d)
          PROVE  Replaced(incr', incr, "data", "ndt", n, d)
      <4>1. d \in FilesOf("data") \cup {NoFile}
        BY DEF FilesOf
      <4> QED
        BY <1>0, <3>2, <4>1, Names, Replace
    <3> QED
      BY <3>1, <3>2 DEF Replaced
  <2>3. CASE FinishWriting
    <3>1. incr' = Put(incr, "index", "ndt", n, write_index) /\ main.stage = "write"
      BY <2>3 DEF FinishWriting
    <3>2. write_index \in FilesOf("index") \cup {NoFile}
      BY <3>1, WritingTypes DEF FilesOf
    <3>3. Replaced(incr', incr, "index", "ndt", n, write_index)
      BY <1>0, <3>1, <3>2, Names, Replace
    <3> QED
      BY <3>3 DEF Replaced
  <2> QED
    BY <2>1, <2>2, <2>3
<1>2. /\ main.stage \in {"play", "write"} /\ main'.stage \in {"write", "commit"}
      /\ main'.stage = "commit" => FinishWriting
  BY <1>0, WriteStage DEF save_incremental, FinishWriting, Playing, Mains
<1>3. SaveTidy'
  <2>1. ASSUME NEW i \in 1..MaxIncr
        PROVE  /\ \A kind \in Kinds : Has(kind, "ndt", i)' => i = n
               /\ Has("index", "txt", i)' <=> i <= incremental_save_count
               /\ Has("data", "txt", i)' => i <= incremental_save_count
    BY <1>1, <1>2, Names DEF Has, Tidy, SaveTidy
  <2> QED
    BY <1>0, <1>2, <2>1 DEF SaveTidy
<1>4. CommitTidy'
  <2>1. CASE FinishWriting
    <3>1. incr' = Put(incr, "index", "ndt", n, write_index) /\ main.stage = "write"
          /\ main' = [main EXCEPT !.stage = "commit"]
      BY <2>1 DEF FinishWriting
    <3>2. write_index \in FilesOf("index") \cup {NoFile} /\ write_index # NoFile
      BY <3>1, WritingTypes, NoFileAssumption DEF FilesOf
    <3>3. Replaced(incr', incr, "index", "ndt", n, write_index)
      BY <1>0, <3>1, <3>2, Names, Replace
    <3>4. Has("index", "ndt", n)'
      BY <1>0, <3>2, <3>3, Names DEF Replaced, Has
    <3>5. main'.kind = "data"
      BY <1>0, <3>1 DEF TInv, IncrPending, AtStartOf, Mains
    <3> QED
      BY <1>0, <3>4, <3>5 DEF CommitTidy, Has
  <2>2. CASE ~FinishWriting
    BY <1>2, <2>2 DEF CommitTidy
  <2> QED
    BY <2>1, <2>2
<1> QED
  BY <1>2, <1>3, <1>4 DEF Tidy, RetireTidy

(* The renames of an incremental save. *)
LEMMA CommitFiles ==
    ASSUME TInv, commit_incremental
    PROVE  /\ save_index \in 1..MaxIncr /\ main.kind \in Kinds
           /\ \A kind \in Kinds, suffix \in Suffixes, i \in 1..MaxIncr :
                 kind # main.kind \/ i # save_index \/ (main.half = "old" /\ suffix = "ndt")
                    => incr'[kind][suffix][i] = incr[kind][suffix][i]
           /\ main.half = "old" => incr'[main.kind]["txt"][save_index] = NoFile
           /\ main.half # "old" =>
                 /\ incr'[main.kind]["ndt"][save_index] = NoFile
                 /\ incr'[main.kind]["txt"][save_index] = incr[main.kind]["ndt"][save_index]
<1>1. /\ main \in Mains /\ IncrTyped(incr) /\ save_index \in 1..MaxIncr
  BY TypeParts, WritingTypes DEF TInv, commit_incremental
<1>2. main.kind \in Kinds
  BY <1>1 DEF Mains
<1>3. CASE main.half = "old"
  <2>1. incr' = Put(incr, main.kind, "txt", save_index, NoFile)
    BY <1>3 DEF commit_incremental, DataFirst
  <2>2. Replaced(incr', incr, main.kind, "txt", save_index, NoFile)
    BY <1>1, <1>2, <2>1, Names, Replace
  <2> QED
    BY <1>1, <1>2, <1>3, <2>2, Names DEF Replaced
<1>4. CASE main.half # "old"
  <2>1. incr' = Moved(main.kind, save_index)
    BY <1>4 DEF commit_incremental, DataFirst
  <2> QED
    BY <1>1, <1>2, <1>4, <2>1, MoveFile
<1> QED
  BY <1>3, <1>4

(* What comes next. *)
LEMMA CommitStage ==
    ASSUME TInv, commit_incremental
    PROVE  /\ main.stage = "commit" /\ main.kind \in Kinds /\ main.half \in {"old", "new"}
           /\ LastHalf => main' = Playing /\ incremental_save_count' = save_index
           /\ ~LastHalf => /\ main'.stage = "commit"
                           /\ incremental_save_count' = incremental_save_count
                           /\ main'.todo = main.todo /\ main'.deleted = main.deleted
                           /\ main.half = "old" => main'.kind = main.kind /\ main'.half = "new"
                           /\ main.half = "new" => /\ main.kind = "data"
                                                   /\ main'.kind = "index" /\ main'.half = "old"
<1>1. main \in Mains /\ main.stage = "commit"
  BY TypeParts DEF TInv, commit_incremental
<1>2. main.kind \in Kinds /\ main.half \in {"old", "new"}
  BY <1>1 DEF Mains
<1>3. ASSUME ~LastHalf PROVE main' = Following(main) /\ incremental_save_count' = incremental_save_count
  BY <1>3 DEF commit_incremental
<1>4. ASSUME ~LastHalf, main.half = "old" PROVE main' = [main EXCEPT !.half = "new"]
  BY <1>3, <1>4 DEF Following
<1>5. ASSUME ~LastHalf, main.half = "new"
      PROVE  main.kind = "data" /\ main' = [main EXCEPT !.half = "old", !.kind = "index"]
  BY <1>2, <1>3, <1>5, Names DEF Following, LastHalf
<1> QED
  BY <1>1, <1>2, <1>3, <1>4, <1>5 DEF commit_incremental, Mains

LEMMA CommitsTidy == ASSUME TInv, Tidy, commit_incremental PROVE Tidy'
<1>0. PICK n \in 1..MaxIncr, k \in Kinds : n = save_index /\ k = main.kind
  BY CommitFiles
<1>1. /\ \A kind \in Kinds, suffix \in Suffixes, i \in 1..MaxIncr :
            kind # k \/ i # n \/ (main.half = "old" /\ suffix = "ndt")
               => (Has(kind, suffix, i)' <=> Has(kind, suffix, i))
      /\ main.half = "old" => ~Has(k, "txt", n)'
      /\ main.half # "old" => ~Has(k, "ndt", n)' /\ (Has(k, "txt", n)' <=> Has(k, "ndt", n))
  BY <1>0, CommitFiles DEF Has
<1>2. /\ main.stage = "commit" /\ main.half \in {"old", "new"}
      /\ LastHalf => main' = Playing /\ incremental_save_count' = n
      /\ ~LastHalf => /\ main'.stage = "commit"
                      /\ incremental_save_count' = incremental_save_count
                      /\ main.half = "old" => main'.kind = k
                      /\ main.half = "new" => k = "data" /\ main'.kind = "index"
  BY <1>0, CommitStage
<1>3. incremental_save_count \in Nat /\ n = incremental_save_count + 1
  BY <1>0, TypeParts, Bounds DEF TInv, CountsTyped, save_index
<1>4. \A i \in 1..MaxIncr :
         /\ \A kind \in Kinds : Has(kind, "ndt", i) => i = n
         /\ Has("index", "txt", i) <=> i <= incremental_save_count
         /\ Has("data", "txt", i) => i <= incremental_save_count \/ (k = "index" /\ i = n)
  BY <1>0, <1>2 DEF Tidy, SaveTidy
<1>5. Has("index", "ndt", n) /\ (k = "index" => ~Has("data", "ndt", n))
  BY <1>0, <1>2 DEF Tidy, CommitTidy
<1>6. CASE LastHalf
  <2>0. k = "index" /\ main.half = "new"
    BY <1>0, <1>2, <1>6 DEF LastHalf
  <2>1. /\ main'.stage = "play" /\ incremental_save_count' = n
    BY <1>2, <1>6 DEF Playing
  <2>2. ASSUME NEW i \in 1..MaxIncr
        PROVE  /\ \A kind \in Kinds : ~Has(kind, "ndt", i)'
               /\ Has("index", "txt", i)' <=> i <= n
               /\ Has("data", "txt", i)' => i <= n
    <3>1. CASE i = n
      BY <1>1, <1>3, <1>5, <2>0, <3>1, Names
    <3>2. CASE i # n
      <4>1. \A kind \in Kinds, suffix \in Suffixes : Has(kind, suffix, i)' <=> Has(kind, suffix, i)
        BY <1>1, <3>2
      <4>2. i <= incremental_save_count <=> i <= n
        BY <1>3, <3>2
      <4> QED
        BY <1>4, <3>2, <4>1, <4>2, Names
    <3> QED
      BY <3>1, <3>2
  <2>3. SaveTidy'
    BY <2>1, <2>2 DEF SaveTidy
  <2> QED
    BY <2>1, <2>3 DEF Tidy, CommitTidy, RetireTidy
<1>7. CASE ~LastHalf
  <2>0. save_index' = n
    BY <1>0, <1>2, <1>7 DEF save_index
  <2>1. ASSUME NEW i \in 1..MaxIncr
        PROVE  /\ \A kind \in Kinds : Has(kind, "ndt", i)' => i = n
               /\ Has("index", "txt", i)' <=> i <= incremental_save_count
               /\ Has("data", "txt", i)' => i <= incremental_save_count \/ (main'.kind = "index" /\ i = n)
    <3>1. CASE i = n
      <4>1. ~(i <= incremental_save_count)
        BY <1>3, <3>1
      <4>2. ~Has("index", "txt", i)'
        BY <1>1, <1>2, <1>4, <1>7, <3>1, <4>1, Names
      <4>3. Has("data", "txt", i)' => main'.kind = "index"
        BY <1>1, <1>2, <1>4, <1>7, <3>1, <4>1, Names
      <4> QED
        BY <3>1, <4>1, <4>2, <4>3
    <3>2. CASE i # n
      <4>1. \A kind \in Kinds, suffix \in Suffixes : Has(kind, suffix, i)' <=> Has(kind, suffix, i)
        BY <1>1, <3>2
      <4> QED
        BY <1>4, <3>2, <4>1, Names
    <3> QED
      BY <3>1, <3>2
  <2>2. SaveTidy'
    BY <1>2, <1>7, <2>0, <2>1 DEF SaveTidy
  <2>3. CommitTidy'
    <3>1. Has("index", "ndt", n)'
      BY <1>1, <1>2, <1>5, <1>7, Names
    <3>2. main'.kind = "index" => ~Has("data", "ndt", n)'
      BY <1>1, <1>2, <1>5, <1>7, Names
    <3>3. Has("index", "ndt", save_index)' <=> Has("index", "ndt", n)'
      BY <2>0 DEF Has
    <3>4. Has("data", "ndt", save_index)' <=> Has("data", "ndt", n)'
      BY <2>0 DEF Has
    <3> QED
      BY <3>1, <3>2, <3>3, <3>4 DEF CommitTidy
  <2> QED
    BY <1>2, <1>7, <2>2, <2>3 DEF Tidy, RetireTidy
<1> QED
  BY <1>6, <1>7

(* The renames of a full save. *)
LEMMA RetireFiles ==
    ASSUME TInv, commit_incremental_saves
    PROVE  /\ main.stage = "retire" /\ main.i \in 1..MaxIncr /\ main.kind \in Kinds
           /\ main.half \in {"old", "new"}
           /\ \A kind \in Kinds, suffix \in Suffixes, i \in 1..MaxIncr :
                 kind # main.kind \/ i # main.i \/ (main.half = "old" /\ suffix = "ndt")
                    => incr'[kind][suffix][i] = incr[kind][suffix][i]
           /\ main.half = "old" => incr'[main.kind]["txt"][main.i] = NoFile
           /\ main.half # "old" =>
                 /\ incr'[main.kind]["ndt"][main.i] = NoFile
                 /\ incr'[main.kind]["txt"][main.i] = incr[main.kind]["ndt"][main.i]
           /\ main'.stage = "retire" /\ incremental_save_count' = incremental_save_count
           /\ LastHalf => main'.i = main.i + 1 /\ main'.kind = "data" /\ main'.half = "old"
           /\ ~LastHalf => /\ main'.i = main.i
                           /\ main.half = "old" => main'.kind = main.kind /\ main'.half = "new"
                           /\ main.half = "new" => /\ main.kind = "data"
                                                   /\ main'.kind = "index" /\ main'.half = "old"
<1>1. main \in Mains /\ IncrTyped(incr) /\ main.stage = "retire"
  BY TypeParts DEF TInv, FilesTyped, commit_incremental_saves
<1>2. main.kind \in Kinds /\ main.half \in {"old", "new"}
  BY <1>1 DEF Mains
<1>3. main.i \in 1..MaxIncr
  <2>1. CASE ~AtStartOf(main)
    BY <1>1, <2>1, Bounds DEF TInv, RetireAt
  <2>2. CASE AnyFile(main.i)
    <3>1. bak \subseteq Kinds \X (1..MaxIncr)
      BY TypeParts DEF TInv, FilesTyped
    <3> QED
      BY <2>2, <3>1 DEF AnyFile, Existing
  <2> QED
    BY <2>1, <2>2 DEF commit_incremental_saves
<1>4. CASE main.half = "old"
  <2>1. incr' = Put(incr, main.kind, "txt", main.i, NoFile)
    BY <1>4 DEF commit_incremental_saves
  <2>2. Replaced(incr', incr, main.kind, "txt", main.i, NoFile)
    BY <1>1, <1>2, <1>3, <2>1, Names, Replace
  <2>3. ~LastHalf /\ main' = [main EXCEPT !.half = "new"]
    BY <1>4 DEF commit_incremental_saves, LastHalf, Following
  <2>4. /\ main'.i = main.i /\ main'.kind = main.kind /\ main'.half = "new"
        /\ main'.stage = "retire" /\ incremental_save_count' = incremental_save_count
    BY <1>1, <2>3 DEF Mains, commit_incremental_saves, counts
  <2> QED
    BY <1>1, <1>2, <1>3, <1>4, <2>2, <2>3, <2>4, Names DEF Replaced
<1>5. CASE main.half = "new"
  <2>1. incr' = Moved(main.kind, main.i)
    BY <1>5 DEF commit_incremental_saves
  <2>2. /\ incr'[main.kind]["ndt"][main.i] = NoFile
        /\ incr'[main.kind]["txt"][main.i] = incr[main.kind]["ndt"][main.i]
        /\ \A kind \in Kinds, suffix \in Suffixes, i \in 1..MaxIncr :
              i # main.i \/ kind # main.kind => incr'[kind][suffix][i] = incr[kind][suffix][i]
    BY <1>1, <1>2, <1>3, <2>1, MoveFile
  <2>3. \/ /\ LastHalf /\ main' = [main EXCEPT !.i = main.i + 1, !.kind = "data", !.half = "old"]
        \/ /\ ~LastHalf /\ main.kind = "data" /\ main' = [main EXCEPT !.half = "old", !.kind = "index"]
    BY <1>2, <1>5, Names DEF commit_incremental_saves, LastHalf, Following
  <2>4. /\ LastHalf => main'.i = main.i + 1 /\ main'.kind = "data" /\ main'.half = "old"
        /\ ~LastHalf => main'.i = main.i /\ main.kind = "data" /\ main'.kind = "index" /\ main'.half = "old"
        /\ main'.stage = "retire" /\ incremental_save_count' = incremental_save_count
    BY <1>1, <2>3 DEF Mains, commit_incremental_saves, counts
  <2> QED
    BY <1>1, <1>2, <1>3, <1>5, <2>2, <2>4
<1> QED
  BY <1>2, <1>4, <1>5

LEMMA RetiresTidy == ASSUME TInv, Tidy, commit_incremental_saves PROVE Tidy'
<1>0. PICK n \in 1..MaxIncr, k \in Kinds : n = main.i /\ k = main.kind
  BY RetireFiles
<1>1. /\ \A kind \in Kinds, suffix \in Suffixes, i \in 1..MaxIncr :
            kind # k \/ i # n \/ (main.half = "old" /\ suffix = "ndt")
               => (Has(kind, suffix, i)' <=> Has(kind, suffix, i))
      /\ main.half = "old" => ~Has(k, "txt", n)'
      /\ main.half # "old" => ~Has(k, "ndt", n)' /\ (Has(k, "txt", n)' <=> Has(k, "ndt", n))
  BY <1>0, RetireFiles DEF Has
<1>2. /\ main.stage = "retire" /\ main'.stage = "retire" /\ main.half \in {"old", "new"}
      /\ incremental_save_count' = incremental_save_count
      /\ LastHalf => main'.i = n + 1 /\ main'.kind = "data" /\ main'.half = "old"
      /\ ~LastHalf => /\ main'.i = n
                      /\ main.half = "old" => main'.kind = k /\ main'.half = "new"
                      /\ main.half = "new" => k = "data" /\ main'.kind = "index" /\ main'.half = "old"
  BY <1>0, RetireFiles
<1>3. \A i \in 1..MaxIncr :
         /\ \A kind \in Kinds :
               /\ ~Has(kind, "ndt", i)
               /\ Has(kind, "txt", i) =>
                     /\ i <= incremental_save_count
                     /\ \/ i > n
                        \/ i = n /\ kind = k /\ main.half = "old"
                        \/ i = n /\ kind = "index" /\ k = "data"
         /\ i <= incremental_save_count /\ i > n => Has("index", "txt", i)
  BY <1>0, <1>2 DEF Tidy, RetireTidy, Remaining
<1>4. ASSUME NEW i \in 1..MaxIncr
      PROVE  /\ \A kind \in Kinds : ~Has(kind, "ndt", i)'
             /\ \A kind \in Kinds : Has(kind, "txt", i)' => Remaining(kind, i)' /\ i <= incremental_save_count
             /\ i <= incremental_save_count /\ i > main'.i => Has("index", "txt", i)'
             /\ i <= incremental_save_count /\ i = main'.i /\ AtStartOf(main') => Has("index", "txt", i)'
  <2>1. CASE i = n
    <3>1. \A kind \in Kinds : ~Has(kind, "ndt", i)'
      BY <1>1, <1>2, <1>3, <2>1, Names
    <3>2. ~Has(k, "txt", i)'
      BY <1>1, <1>2, <1>3, <2>1, Names
    <3>3. CASE k = "index"
      <4>1. \A kind \in Kinds : ~Has(kind, "txt", i)'
        BY <1>1, <1>2, <1>3, <2>1, <3>2, <3>3, Names
      <4>2. ~(i > main'.i) /\ ~(i = main'.i /\ AtStartOf(main'))
        BY <1>0, <1>2, <2>1, <3>3 DEF AtStartOf
      <4> QED
        BY <3>1, <4>1, <4>2
    <3>4. CASE k = "data"
      <4>1. ~LastHalf
        BY <1>0, <3>4 DEF LastHalf
      <4>2. main'.i = n /\ ~AtStartOf(main')
        BY <1>2, <3>4, <4>1 DEF AtStartOf
      <4>3. Has("index", "txt", i)' => i <= incremental_save_count
        BY <1>1, <1>3, <2>1, <3>4, Names
      <4>4. Remaining("index", i)'
        BY <1>2, <2>1, <3>4, <4>1 DEF Remaining
      <4> QED
        BY <2>1, <3>1, <3>2, <3>4, <4>2, <4>3, <4>4, Names
    <3> QED
      BY <3>3, <3>4, Names
  <2>2. CASE i # n
    <3>1. \A kind \in Kinds, suffix \in Suffixes : Has(kind, suffix, i)' <=> Has(kind, suffix, i)
      BY <1>1, <2>2
    <3>2. \A kind \in Kinds : ~Has(kind, "ndt", i)' /\ (Has(kind, "txt", i)' => i > n /\ i <= incremental_save_count)
      BY <1>3, <2>2, <3>1, Names
    <3>3. i > main'.i \/ i = main'.i => i > n
      BY <1>2, <2>2
    <3>4. i <= incremental_save_count /\ i > n => Has("index", "txt", i)'
      BY <1>3, <3>1, Names
    <3>5. i > n => /\ i > main'.i \/ (i = main'.i /\ main'.kind = "data" /\ main'.half = "old")
      BY <1>2
    <3>6. i > n => \A kind \in Kinds : Remaining(kind, i)'
      BY <3>5, Names DEF Remaining
    <3> QED
      BY <3>2, <3>3, <3>4, <3>6
  <2> QED
    BY <2>1, <2>2
<1>5. RetireTidy'
  BY <1>2, <1>4 DEF RetireTidy
<1> QED
  BY <1>2, <1>5 DEF Tidy, SaveTidy, CommitTidy

(* The beginning and the end of a full save. *)
LEMMA FullTidy == ASSUME TInv, Tidy, write_data \/ write_data_returns PROVE Tidy'
<1>0. incremental_save_count \in 0..MaxIncr /\ MaxIncr \in Nat /\ main.i \in 0..(MaxIncr + 1)
  BY TypeParts, Bounds DEF TInv, CountsTyped, Mains
<1>1. CASE write_data
  <2>1. /\ main.stage = "play" /\ main'.stage = "retire" /\ main'.i = 1 /\ main'.kind = "data"
        /\ main'.half = "old" /\ UNCHANGED << incr, incremental_save_count >>
    BY <1>1 DEF write_data, Playing, counts, incrs
  <2>2. \A kind \in Kinds, suffix \in Suffixes, i \in 1..MaxIncr :
           Has(kind, suffix, i)' <=> Has(kind, suffix, i)
    BY <2>1 DEF Has
  <2>3. \A i \in 1..MaxIncr :
           /\ \A kind \in Kinds : ~Has(kind, "ndt", i)
           /\ Has("index", "txt", i) <=> i <= incremental_save_count
           /\ Has("data", "txt", i) => i <= incremental_save_count
    BY <2>1 DEF Tidy, SaveTidy
  <2>4. \A kind \in Kinds, i \in 1..MaxIncr : Remaining(kind, i)'
    BY <2>1, Names DEF Remaining
  <2>5. RetireTidy'
    BY <2>1, <2>2, <2>3, <2>4, Names DEF RetireTidy
  <2> QED
    BY <2>1, <2>5 DEF Tidy, SaveTidy, CommitTidy
<1>2. CASE write_data_returns
  <2>1. /\ main.stage = "retire" /\ main'.stage = "play" /\ incr' = incr
        /\ incremental_save_count' = 0 /\ AtStartOf(main) /\ ~AnyFile(main.i)
    BY <1>2 DEF write_data_returns, Playing, incrs
  <2>2. ASSUME NEW kind \in Kinds, NEW i \in 1..MaxIncr
        PROVE  ~Has(kind, "ndt", i) /\ ~Has(kind, "txt", i)
    <3>1. ~Has(kind, "ndt", i)
      BY <2>1 DEF Tidy, RetireTidy
    <3>2. ASSUME Has(kind, "txt", i) PROVE FALSE
      <4>1. i <= incremental_save_count /\ (i > main.i \/ i = main.i)
        BY <2>1, <3>2 DEF Tidy, RetireTidy, Remaining
      <4>2. i # main.i
        BY <2>1, <3>2, Names DEF AnyFile, Existing, Has
      <4>3. main.i \in 1..(MaxIncr + 1)
        BY <2>1 DEF TInv, RetireAt
      <4>4. main.i \in 1..MaxIncr /\ main.i <= incremental_save_count
        BY <1>0, <4>1, <4>2, <4>3
      <4>5. Has("index", "txt", main.i)
        BY <2>1, <4>4 DEF Tidy, RetireTidy
      <4> QED
        BY <2>1, <4>4, <4>5, Names DEF AnyFile, Existing, Has
    <3> QED
      BY <3>1, <3>2
  <2>3. \A kind \in Kinds, i \in 1..MaxIncr : ~Has(kind, "ndt", i)' /\ ~Has(kind, "txt", i)'
    BY <2>1, <2>2 DEF Has
  <2>4. SaveTidy'
    BY <2>1, <2>3, Names DEF SaveTidy
  <2> QED
    BY <2>1, <2>4 DEF Tidy, CommitTidy, RetireTidy
<1> QED
  BY <1>1, <1>2

(* Without failures, a start that reads the files finds the server playing. *)
LEMMA TameRestart ==
    ASSUME TInv, Tame, Restart, ~Refused
    PROVE  main.stage = "play" /\ saver = Idle
<1>1. main.stage # "stopped" /\ Phase \in {"play", "refused"}
  BY DEF Restart, Tame
<1>2. CASE saver # Idle \/ main.stage = "retire"
  BY <1>1, <1>2 DEF Phase
<1>3. CASE ~(saver # Idle \/ main.stage = "retire")
  <2>1. CASE main.stage \in {"write", "commit"}
    BY <1>1, <1>3, <2>1 DEF Phase
  <2>2. CASE main.stage \notin {"write", "commit"}
    BY <1>1, <1>3, <2>2, TypeParts DEF TInv, Mains
  <2> QED
    BY <2>1, <2>2
<1> QED
  BY <1>2, <1>3

LEMMA RestartTidy == ASSUME TInv, Tidy, Tame, Restart PROVE Tidy'
<1>0. incr' = incr
  BY DEF Restart, incrs
<1>1. CASE Refused \/ Duplicated # {}
  <2>1. main'.stage = "stopped" /\ incremental_save_count' = incremental_save_count
    BY <1>1 DEF Restart, counts, Playing
  <2> QED
    BY <1>0, <2>1, TidyKept
<1>2. CASE ~(Refused \/ Duplicated # {})
  <2>1. main'.stage = "play" /\ incremental_save_count' = IncrementalCount
    BY <1>2 DEF Restart, Playing
  <2>2. main.stage = "play"
    BY <1>2, TameRestart
  <2>3. IncrementalCount = incremental_save_count
    <3>1. incremental_save_count \in 0..MaxIncr
      BY TypeParts DEF TInv, CountsTyped
    <3>2. \A i \in 1..MaxIncr : Has("index", "txt", i) <=> i <= incremental_save_count
      BY <2>2 DEF Tidy, SaveTidy
    <3> QED
      BY <3>1, <3>2, CountIs
  <2> QED
    BY <1>0, <2>1, <2>2, <2>3, TidyKept
<1> QED
  BY <1>1, <1>2

LEMMA InitTidy == ASSUME Init PROVE Tidy
<1>1. main = Playing /\ incremental_save_count = 0
  BY DEF Init
<1>2. incr = [kind \in Kinds |-> [suffix \in Suffixes |-> [i \in 1..MaxIncr |-> NoFile]]]
  BY DEF Init
<1>3. \A kind \in Kinds, suffix \in Suffixes, i \in 1..MaxIncr : ~Has(kind, suffix, i)
  BY <1>2 DEF Has
<1>4. main.stage = "play"
  BY <1>1 DEF Playing
<1>5. SaveTidy
  BY <1>1, <1>3, <1>4, Names DEF SaveTidy
<1> QED
  BY <1>4, <1>5 DEF Tidy, CommitTidy, RetireTidy

LEMMA NextTidy == ASSUME TInv, Tidy, Tame, [Next]_vars PROVE Tidy'
<1>1. CASE World \/ Saver \/ UNCHANGED vars
  <2>1. UNCHANGED << incr, incremental_save_count, main >>
    BY <1>1 DEF World, Saver, Flush, CommitOld, CommitNew, vars, counts, incrs
  <2> QED
    BY <2>1, TidyKept
<1>2. CASE FailWriting
  BY <1>2 DEF FailWriting, Tame
<1> QED
  BY <1>1, <1>2, WriteTidy, CommitsTidy, RetiresTidy, FullTidy, RestartTidy DEF Next, Main

(* If no incremental save fails and the server stops only where the next start
   notices it or no save is under way: when the world goes on after a save, what is
   clean is saved, and no file is left that a later start would read as a part of
   the current full save; also if the full save's asynchronous part is still busy. *)
THEOREM SavesAreCurrent == ASSUME Tame PROVE Spec => []SavedAndCurrent
<1>1. Init => TInv /\ CleanInv /\ Tidy
  BY InitTypes, StartClean, InitTidy
<1>2. TInv /\ CleanInv /\ Tidy /\ [Next]_vars => (TInv /\ CleanInv /\ Tidy)'
  BY NextTypes, NextClean, NextTidy
<1>3. TInv /\ CleanInv /\ Tidy => SavedAndCurrent
  <2> SUFFICES ASSUME TInv, CleanInv, Tidy PROVE SavedAndCurrent
    OBVIOUS
  <2>1. CleanIsSaved
    BY CleanMeans
  <2>2. NoStaleIncrementals
    <3> SUFFICES ASSUME main.stage = "play", NEW i \in (incremental_save_count + 1)..MaxIncr,
                        NEW kind \in Kinds, NEW suffix \in Suffixes
                 PROVE  ~Existing(kind, suffix, i)
      BY DEF NoStaleIncrementals
    <3>1. i \in 1..MaxIncr /\ ~(i <= incremental_save_count)
      BY TypeParts, Bounds DEF TInv, CountsTyped
    <3>2. suffix = "txt" \/ suffix = "ndt"
      BY DEF Suffixes
    <3>3. ~Has(kind, suffix, i)
      BY <3>1, <3>2, Names DEF Tidy, SaveTidy
    <3> QED
      BY <3>3 DEF Has, Existing
  <2> QED
    BY <2>1, <2>2 DEF SavedAndCurrent
<1> QED
  BY <1>1, <1>2, <1>3, PTL DEF Spec

-----------------------------------------------------------------------------
(* What the files say.                                                     *)

(* With full saves, what a failed or interrupted incremental save leaves behind becomes
   a part of the next full save (commit_incremental_saves()); without, it is overwritten. *)
SavesTame == MaxFull = 0 \/ Tame

NamedIn(f, s, i) == s \in f["index"]["txt"][i].modified \cup f["index"]["txt"][i].deleted

(* The last index up to n that names s; 0 if there is none. *)
LastNaming(f, n, s, i) ==
    /\ i # 0 => NamedIn(f, s, i)
    /\ \A j \in 1..n : i < j => ~NamedIn(f, s, j)

(* The full save's b and the first n incremental saves give v for s. *)
Says(f, n, b, s, v) ==
    \E i \in 0..n :
       /\ LastNaming(f, n, s, i)
       /\ v = IF i = 0 THEN b ELSE IF s \in f["index"]["txt"][i].deleted THEN 0
                                   ELSE f["data"]["txt"][i][s]

LEMMA SaysNone == ASSUME NEW f, NEW b, NEW s PROVE Says(f, 0, b, s, b)
<1>1. 0 \in 0..0 /\ LastNaming(f, 0, s, 0)
  BY DEF LastNaming
<1> QED
  BY <1>1 DEF Says

LEMMA SaysSomething == ASSUME NEW f, NEW n \in Nat, NEW b, NEW s PROVE \E v : Says(f, n, b, s, v)
<1> DEFINE S == { i \in 0..n : i = 0 \/ NamedIn(f, s, i) }
<1>1. S \in SUBSET (0..n) /\ 0 \in S
  OBVIOUS
<1>2. PICK i \in S : \A k \in S : k <= i
  <2> HIDE DEF S
  <2> QED
    BY <1>1, Greatest
<1>3. i \in 0..n /\ (i # 0 => NamedIn(f, s, i))
  OBVIOUS
<1>4. ASSUME NEW j \in 1..n, i < j PROVE ~NamedIn(f, s, j)
  <2>1. j \in 0..n /\ ~(j <= i)
    BY <1>3, <1>4
  <2>2. j \notin S
    BY <1>2, <2>1
  <2> QED
    BY <2>1, <2>2
<1>5. LastNaming(f, n, s, i)
  BY <1>3, <1>4 DEF LastNaming
<1> DEFINE v == IF i = 0 THEN b ELSE IF s \in f["index"]["txt"][i].deleted THEN 0
                                     ELSE f["data"]["txt"][i][s]
<1>6. Says(f, n, b, s, v)
  BY <1>3, <1>5 DEF Says
<1> QED
  BY <1>6

(* Files beyond the count say nothing. *)
LEMMA SaysSame ==
    ASSUME NEW f, NEW g, NEW n \in Nat, NEW b, NEW s,
           \A i \in 1..n : /\ g["index"]["txt"][i] = f["index"]["txt"][i]
                           /\ g["data"]["txt"][i] = f["data"]["txt"][i]
    PROVE  \A v : Says(g, n, b, s, v) <=> Says(f, n, b, s, v)
<1>1. \A i \in 1..n : NamedIn(g, s, i) <=> NamedIn(f, s, i)
  BY DEF NamedIn
<1>2. \A i \in 0..n : LastNaming(g, n, s, i) <=> LastNaming(f, n, s, i)
  BY <1>1 DEF LastNaming
<1>3. ASSUME NEW i \in 0..n
      PROVE  (IF i = 0 THEN b ELSE IF s \in g["index"]["txt"][i].deleted THEN 0 ELSE g["data"]["txt"][i][s])
           = (IF i = 0 THEN b ELSE IF s \in f["index"]["txt"][i].deleted THEN 0 ELSE f["data"]["txt"][i][s])
  <2>1. CASE i = 0
    BY <2>1
  <2>2. CASE i # 0
    <3>1. i \in 1..n
      BY <2>2
    <3> QED
      BY <2>2, <3>1
  <2> QED
    BY <2>1, <2>2
<1> QED
  BY <1>2, <1>3 DEF Says

(* One more incremental save. *)
LEMMA SaysMore ==
    ASSUME NEW f, NEW g, NEW n \in Nat, NEW b, NEW s, NEW d, NEW x, NEW v,
           \A i \in 1..n : /\ g["index"]["txt"][i] = f["index"]["txt"][i]
                           /\ g["data"]["txt"][i] = f["data"]["txt"][i],
           g["index"]["txt"][n + 1] = x, g["data"]["txt"][n + 1] = d,
           \/ s \in x.deleted /\ v = 0
           \/ s \in x.modified /\ s \notin x.deleted /\ v = d[s]
           \/ s \notin x.modified \cup x.deleted /\ Says(f, n, b, s, v)
    PROVE  Says(g, n + 1, b, s, v)
<1>0. n + 1 \in 0..(n + 1) /\ n + 1 # 0
  OBVIOUS
<1>1. CASE s \in x.modified \cup x.deleted
  <2>1. NamedIn(g, s, n + 1)
    BY <1>1 DEF NamedIn
  <2>2. \A j \in 1..(n + 1) : ~(n + 1 < j)
    OBVIOUS
  <2>3. LastNaming(g, n + 1, s, n + 1)
    BY <2>1, <2>2 DEF LastNaming
  <2>4. v = IF s \in g["index"]["txt"][n + 1].deleted THEN 0 ELSE g["data"]["txt"][n + 1][s]
    BY <1>1
  <2> QED
    BY <1>0, <2>3, <2>4 DEF Says
<1>2. CASE s \notin x.modified \cup x.deleted
  <2>1. Says(f, n, b, s, v)
    BY <1>2
  <2>2. Says(g, n, b, s, v)
    BY <2>1, SaysSame
  <2>3. PICK i \in 0..n :
           /\ LastNaming(g, n, s, i)
           /\ v = IF i = 0 THEN b ELSE IF s \in g["index"]["txt"][i].deleted THEN 0
                                       ELSE g["data"]["txt"][i][s]
    BY <2>2 DEF Says
  <2>4. ~NamedIn(g, s, n + 1) /\ i \in 0..(n + 1)
    BY <1>2 DEF NamedIn
  <2>5. LastNaming(g, n + 1, s, i)
    <3>1. \A j \in 1..(n + 1) : j \in 1..n \/ j = n + 1
      OBVIOUS
    <3> QED
      BY <2>3, <2>4, <3>1 DEF LastNaming
  <2> QED
    BY <2>3, <2>4, <2>5 DEF Says
<1> QED
  BY <1>1, <1>2

Readable == main.stage \in {"play", "write", "commit"}

FilesInv == Readable =>
    \A i \in 1..MaxIncr :
       /\ Has("index", "txt", i) <=> i <= incremental_save_count
       /\ i <= incremental_save_count =>
             Has("data", "txt", i) /\ DOMAIN incr["data"]["txt"][i] = Index(i).modified

(* A start reads what the files say, and reads it once. *)
LEMMA ReadIs ==
    ASSUME TInv, FilesInv, Readable, NEW s \in Serials, NEW v,
           Says(incr, incremental_save_count, txt[s], s, v)
    PROVE  Read(s) = v /\ ~(Cardinality(Copies(s)) > 1)
<1> DEFINE c == incremental_save_count
<1>0. c \in 0..MaxIncr /\ MaxIncr \in Nat /\ c \in Nat
  BY TypeParts, Bounds DEF TInv, CountsTyped
<1>1. IncrementalCount = c
  <2>1. \A i \in 1..MaxIncr : Has("index", "txt", i) <=> i <= c
    BY DEF FilesInv
  <2> QED
    BY <1>0, <2>1, CountIs
<1>2. \A k \in 1..c : Existing("data", "txt", k) /\ DOMAIN incr["data"]["txt"][k] = Index(k).modified
  BY <1>0 DEF FilesInv, Existing, Has
<1>3. PICK i \in 0..c :
         /\ LastNaming(incr, c, s, i)
         /\ v = IF i = 0 THEN txt[s] ELSE IF s \in incr["index"]["txt"][i].deleted THEN 0
                                          ELSE incr["data"]["txt"][i][s]
  BY DEF Says
<1> DEFINE naming == { k \in 1..c : s \in Index(k).modified \cup Index(k).deleted }
<1>4. get_save_index(s) = IF naming = {} THEN 0
                          ELSE LET last == CHOOSE k \in naming : \A j \in naming : j <= k
                               IN  IF s \in Index(last).deleted THEN Deleted ELSE last
  BY <1>1 DEF get_save_index
<1>5. \A k \in 1..c : k \in naming <=> NamedIn(incr, s, k)
  BY DEF NamedIn, Index
<1>6. \A k \in naming : k \in 1..c
  OBVIOUS
<1>7. \A k \in 0..c : k \in Copies(s) <=>
         /\ get_save_index(s) <= k
         /\ IF k = 0 THEN txt[s] # 0 ELSE s \in Index(k).modified
  BY <1>0, <1>1, <1>2 DEF Copies
<1>8. \A k \in Copies(s) : k \in 0..c
  BY <1>1 DEF Copies
<1> HIDE DEF c, naming
<1>9. CASE i = 0
  <2>1. naming = {}
    BY <1>0, <1>3, <1>5, <1>6, <1>9 DEF LastNaming
  <2>2. get_save_index(s) = 0
    BY <1>4, <2>1
  <2>3. \A k \in 1..c : s \notin Index(k).modified
    BY <1>3, <1>9 DEF LastNaming, NamedIn, Index
  <2>4. Copies(s) = IF txt[s] = 0 THEN {} ELSE {0}
    BY <1>0, <1>7, <1>8, <2>2, <2>3
  <2>5. CASE txt[s] = 0
    <3>1. Copies(s) = {} /\ v = 0
      BY <1>3, <1>9, <2>4, <2>5
    <3> QED
      BY <3>1, FS_EmptySet DEF Read
  <2>6. CASE txt[s] # 0
    <3>1. Copies(s) = {0} /\ v = txt[s]
      BY <1>3, <1>9, <2>4, <2>6
    <3>2. Cardinality(Copies(s)) = 1
      BY <3>1, FS_Singleton
    <3> QED
      BY <3>1, <3>2 DEF Read
  <2> QED
    BY <2>5, <2>6
<1>10. CASE i # 0
  <2>1. i \in 1..c /\ i \in naming
    BY <1>0, <1>3, <1>5, <1>10 DEF LastNaming
  <2>2. \A k \in naming : k <= i
    BY <1>0, <1>3, <1>5, <1>6, <2>1 DEF LastNaming
  <2>3. (CHOOSE k \in naming : \A j \in naming : j <= k) = i
    <3>1. \A k \in naming : (\A j \in naming : j <= k) => k = i
      BY <1>0, <1>6, <2>1, <2>2
    <3> QED
      BY <2>1, <2>2, <3>1
  <2>4. get_save_index(s) = IF s \in Index(i).deleted THEN Deleted ELSE i
    BY <1>4, <2>1, <2>3
  <2>5. CASE s \in Index(i).deleted
    <3>1. \A k \in 0..c : ~(get_save_index(s) <= k)
      BY <1>0, <2>4, <2>5 DEF Deleted
    <3>2. Copies(s) = {} /\ v = 0
      BY <1>3, <1>7, <1>8, <1>10, <2>5, <3>1 DEF Index
    <3> QED
      BY <3>2, FS_EmptySet DEF Read
  <2>6. CASE s \notin Index(i).deleted
    <3>1. s \in Index(i).modified /\ v = incr["data"]["txt"][i][s] /\ get_save_index(s) = i
      BY <1>3, <1>10, <2>1, <2>4, <2>6 DEF LastNaming, NamedIn, Index
    <3>2. \A k \in 1..c : i < k => s \notin Index(k).modified
      BY <1>3 DEF LastNaming, NamedIn, Index
    <3>3. Copies(s) = {i}
      <4>1. i \in Copies(s)
        BY <1>0, <1>7, <1>10, <2>1, <3>1
      <4>2. ASSUME NEW k \in Copies(s) PROVE k = i
        <5>1. k \in 0..c /\ i <= k /\ (k # 0 => s \in Index(k).modified)
          BY <1>7, <1>8, <3>1
        <5>2. k \in 1..c
          BY <1>0, <2>1, <5>1
        <5> QED
          BY <1>0, <2>1, <3>2, <5>1, <5>2
      <4> QED
        BY <4>1, <4>2
    <3>4. Cardinality(Copies(s)) = 1
      BY <3>3, FS_Singleton
    <3>5. Read(s) = incr["data"]["txt"][i][s]
      BY <1>10, <3>3 DEF Read
    <3> QED
      BY <3>1, <3>4, <3>5
  <2> QED
    BY <2>5, <2>6
<1> QED
  BY <1>9, <1>10

(* What the last full save says, or will say when it is complete. *)
Base == IF saver = Idle THEN txt ELSE pending

OnDisk(s, v) == Says(incr, incremental_save_count, Base[s], s, v)

(* The last save that no incremental save under way is about to replace. *)
Standing == IF main.stage \in {"write", "commit"} THEN saves[Len(saves) - 1] ELSE LastSave

(* The files give the standing save ... *)
StandingInv == Readable =>
    /\ Base[Guilds] = Standing.snap[Guilds]
    /\ \A s \in Serials : OnDisk(s, Standing.snap[s])

(* ... and nothing for a serial that is free. *)
FreeInv == Readable =>
    \A s \in Serials : obj[s].at = "none" /\ s \notin dirty_deleted \cup clean_deleted => OnDisk(s, 0)

ReadInv == FilesInv /\ StandingInv /\ FreeInv

(* The data d and the index x say what the save that is under way records. *)
RightSave(d, x) ==
    /\ DOMAIN d = x.modified
    /\ \A s \in x.modified : s \notin x.deleted /\ obj[s].at = "live" /\ d[s] = LastSave.snap[s]
    /\ \A s \in x.deleted : s \in Serials => LastSave.snap[s] = 0
    /\ LastSave.snap[Guilds] = Standing.snap[Guilds]

(* What the save that is under way leaves out is in the files already. *)
LeftOut(s) == OnDisk(s, LastSave.snap[s])

WriteInv == main.stage = "write" =>
    /\ RightSave(data_ndt, write_index)
    /\ \A s \in main.todo : obj[s].at # "none"
    /\ \A s \in main.deleted : obj[s].at = "orphan"
    /\ \A s \in Serials :
          \/ s \in write_index.modified \cup write_index.deleted
          \/ s \in main.todo /\ obj[s].dirty /\ ~obj[s].apart
          \/ LeftOut(s)

CommitData == IF main.kind = "data" THEN incr["data"]["ndt"][save_index]
                                    ELSE incr["data"]["txt"][save_index]
CommitIndex == incr["index"]["ndt"][save_index]

CommitInv == main.stage = "commit" =>
    /\ CommitData # NoFile /\ CommitIndex # NoFile
    /\ RightSave(CommitData, CommitIndex)
    /\ \A s \in Serials : s \in CommitIndex.modified \cup CommitIndex.deleted \/ LeftOut(s)

RetireInv == main.stage = "retire" => Base = LastSave.snap /\ LastSave.snap = Snapshot

(* The asynchronous thread has committed the files before the current one. *)
SaverInv == main.stage # "stopped" /\ saver # Idle =>
    /\ ndt = { SaveFiles[j] : j \in saver.file..Len(SaveFiles) }
    /\ \A k \in Keys, j \in 1..Len(SaveFiles) :
          j < saver.file /\ HomeOf(k) = SaveFiles[j] => txt[k] = pending[k]

QuietInv == MaxFull = 0 => saver = Idle /\ ndt = {} /\ main.stage \notin {"retire", "stopped"}

DiskInv == ReadInv /\ WriteInv /\ CommitInv /\ RetireInv /\ SaverInv /\ QuietInv

(* Steps that leave alone what a start would read. *)
LEMMA ReadKept ==
    ASSUME TInv, ReadInv, Readable,
           incremental_save_count' = incremental_save_count,
           \A i \in 1..MaxIncr :
              /\ Has("index", "txt", i)' <=> Has("index", "txt", i)
              /\ i <= incremental_save_count =>
                    /\ incr'["index"]["txt"][i] = incr["index"]["txt"][i]
                    /\ incr'["data"]["txt"][i] = incr["data"]["txt"][i],
           Base' = Base, Standing'.snap = Standing.snap,
           \A s \in Serials : obj'[s].at = "none" /\ s \notin dirty_deleted' \cup clean_deleted'
                                => obj[s].at = "none" /\ s \notin dirty_deleted \cup clean_deleted
    PROVE  ReadInv' /\ \A s \in Serials : \A v : Says(incr', incremental_save_count', Base'[s], s, v) <=> OnDisk(s, v)
<1>0. incremental_save_count \in 0..MaxIncr /\ incremental_save_count \in Nat /\ MaxIncr \in Nat
  BY TypeParts, Bounds DEF TInv, CountsTyped
<1>1. \A i \in 1..incremental_save_count :
         /\ incr'["index"]["txt"][i] = incr["index"]["txt"][i]
         /\ incr'["data"]["txt"][i] = incr["data"]["txt"][i]
  BY <1>0
<1>2. ASSUME NEW s \in Serials
      PROVE  \A v : Says(incr', incremental_save_count', Base'[s], s, v) <=> OnDisk(s, v)
  BY <1>0, <1>1, SaysSame DEF OnDisk
<1>3. FilesInv'
  <2>1. ASSUME NEW i \in 1..MaxIncr, i <= incremental_save_count
        PROVE  Has("data", "txt", i)' /\ DOMAIN incr'["data"]["txt"][i] = incr'["index"]["txt"][i].modified
    BY <2>1 DEF ReadInv, FilesInv, Has, Index
  <2>2. ASSUME NEW i \in 1..MaxIncr
        PROVE  Has("index", "txt", i)' <=> i <= incremental_save_count
    BY DEF ReadInv, FilesInv
  <2> QED
    BY <2>1, <2>2 DEF FilesInv, Index
<1>4. StandingInv'
  <2>1. Base'[Guilds] = Standing'.snap[Guilds]
    BY DEF ReadInv, StandingInv
  <2>2. ASSUME NEW s \in Serials
        PROVE  Says(incr', incremental_save_count', Base'[s], s, Standing'.snap[s])
    BY <1>2 DEF ReadInv, StandingInv
  <2> QED
    BY <2>1, <2>2 DEF StandingInv, OnDisk
<1>5. FreeInv'
  BY <1>2 DEF ReadInv, FreeInv, OnDisk
<1> QED
  BY <1>2, <1>3, <1>4, <1>5 DEF ReadInv

(* Completing a full save keeps the last two records, if an incremental save has begun. *)
LEMMA StandingKept ==
    ASSUME TInv, main'.stage = main.stage,
           saves' = saves \/ (saves' = CompleteFull /\ HasFull(saves))
    PROVE  Standing'.snap = Standing.snap /\ LastSave'.snap = LastSave.snap
<1>0. saves \in Seq(SaveRecords) /\ saves # << >> /\ Len(saves) \in Nat
  BY TypeParts, LenProperties DEF TInv, SavesTyped
<1>1. LastSave'.snap = LastSave.snap
  BY LastKept
<1>2. CASE saves' = saves \/ main.stage \notin {"write", "commit"}
  BY <1>1, <1>2 DEF Standing, LastSave
<1>3. CASE saves' # saves /\ main.stage \in {"write", "commit"}
  <2>1. PICK i \in 1..Len(saves) : saves[i].type = "full" /\ Rest(CompleteFull, saves, i - 1)
    BY <1>0, <1>3, FullRest
  <2>2. i # Len(saves)
    BY <1>3, <2>1 DEF TInv, IncrPending, LastSave
  <2>3. /\ Len(saves') = Len(saves) - (i - 1) /\ Len(saves') - 1 \in 1..Len(saves')
        /\ (Len(saves') - 1) + (i - 1) = Len(saves) - 1
    <3>1. Len(saves') = Len(saves) - (i - 1)
      BY <1>3, <2>1 DEF Rest
    <3> QED
      BY <1>0, <2>2, <3>1
  <2>4. saves'[Len(saves') - 1].snap = saves[Len(saves) - 1].snap
    BY <1>3, <2>1, <2>3 DEF Rest
  <2> QED
    BY <1>1, <1>3, <2>4 DEF Standing
<1> QED
  BY <1>2, <1>3

(* The world does not touch the files, and takes free serials only. *)
LEMMA WorldDisk == ASSUME TInv, CleanInv, DiskInv, World PROVE DiskInv'
<1>1. /\ UNCHANGED << incr, incremental_save_count, saver, pending, txt, ndt, main, saves >>
      /\ main.stage = "play"
  BY DEF World, Create, Change, Carry, destroy, Reap, ChangeGuilds, Changing, counts, full, incrs
<1>2. obj \in [Serials -> Objects]
  BY TypeParts DEF TInv, ObjTyped
<1>3. \A s \in Serials : obj'[s].at = "none" /\ s \notin dirty_deleted' \cup clean_deleted'
                           => obj[s].at = "none" /\ s \notin dirty_deleted \cup clean_deleted
  <2>1. CASE ChangeGuilds
    BY <2>1 DEF ChangeGuilds
  <2>2. ASSUME NEW t \in Serials, NEW s \in Serials,
               Create(t) \/ Change(t) \/ Carry(t) \/ destroy(t) \/ Reap(t),
               obj'[s].at = "none", s \notin dirty_deleted' \cup clean_deleted'
        PROVE  obj[s].at = "none" /\ s \notin dirty_deleted \cup clean_deleted
    <3>1. dirty_deleted \subseteq dirty_deleted' /\ clean_deleted' = clean_deleted
      BY <2>2 DEF Create, Change, Carry, destroy, Reap
    <3>2. CASE s # t
      <4>1. obj'[s] = obj[s]
        BY <1>2, <2>2, <3>2 DEF Create, Change, Carry, destroy, Reap
      <4> QED
        BY <2>2, <3>1, <4>1
    <3>3. CASE s = t /\ Create(t)
      BY <3>1, <2>2, <3>3 DEF Create, Unused
    <3>4. CASE s = t /\ Reap(t)
      BY <2>2, <3>4 DEF Reap
    <3>5. CASE s = t /\ (Change(t) \/ Carry(t) \/ destroy(t))
      <4>1. obj[s] \in Objects /\ obj[s].at = "live"
        BY <1>2, <3>5 DEF Change, Carry, destroy
      <4>2. ASSUME Change(s) PROVE obj'[s].at = "live"
        <5>1. PICK apart \in BOOLEAN :
                 obj' = [obj EXCEPT ![s] = [@ EXCEPT !.ver = changes' + 1, !.dirty = TRUE, !.apart = apart]]
          BY <4>2 DEF Change
        <5> QED
          BY <1>2, <4>1, <5>1 DEF Objects
      <4>3. ASSUME Carry(s) PROVE obj'[s].at = "live"
        BY <1>2, <4>1, <4>3 DEF Carry, Objects
      <4>4. ASSUME destroy(s) PROVE obj'[s].at = "orphan"
        BY <1>2, <4>1, <4>4 DEF destroy, Objects
      <4> QED
        BY <2>2, <3>5, <4>2, <4>3, <4>4
    <3> QED
      BY <2>2, <3>2, <3>3, <3>4, <3>5
  <2> QED
    BY <2>1, <2>2 DEF World
<1>4. Base' = Base /\ Standing' = Standing /\ Readable
  BY <1>1 DEF Base, Standing, LastSave, Readable
<1>5. ReadInv'
  <2>1. \A i \in 1..MaxIncr : Has("index", "txt", i)' <=> Has("index", "txt", i)
    BY <1>1 DEF Has
  <2> QED
    BY <1>1, <1>3, <1>4, <2>1, ReadKept DEF DiskInv
<1> QED
  BY <1>1, <1>5 DEF DiskInv, WriteInv, CommitInv, RetireInv, SaverInv, QuietInv

(* The files of a SaveContext are different ones, and are committed in its order. *)
LEMMA ContextDistinct ==
    /\ Len(SaveContext) = 13 /\ SaveContext[9] = "storage"
    /\ \A a, b \in 1..13 : SaveContext[a] = SaveContext[b] => a = b
<1> DEFINE place(x) ==
             CASE x = "pol" -> 1 [] x = "objects" -> 2 [] x = "pcs" -> 3 [] x = "pcequip" -> 4
               [] x = "npcs" -> 5 [] x = "npcequip" -> 6 [] x = "items" -> 7 [] x = "multis" -> 8
               [] x = "storage" -> 9 [] x = "resource" -> 10 [] x = "guilds" -> 11
               [] x = "datastore" -> 12 [] x = "parties" -> 13
<1>1. Len(SaveContext) = 13 /\ SaveContext[9] = "storage"
  BY DEF SaveContext
<1>2. \A a \in 1..13 : a \in {1, 2, 3, 4, 5, 6, 7, 8, 9, 10, 11, 12, 13}
  OBVIOUS
<1>3. place(SaveContext[1]) = 1
  BY DEF SaveContext
<1>4. place(SaveContext[2]) = 2
  BY DEF SaveContext
<1>5. place(SaveContext[3]) = 3
  BY DEF SaveContext
<1>6. place(SaveContext[4]) = 4
  BY DEF SaveContext
<1>7. place(SaveContext[5]) = 5
  BY DEF SaveContext
<1>8. place(SaveContext[6]) = 6
  BY DEF SaveContext
<1>9. place(SaveContext[7]) = 7
  BY DEF SaveContext
<1>10. place(SaveContext[8]) = 8
  BY DEF SaveContext
<1>11. place(SaveContext[9]) = 9
  BY DEF SaveContext
<1>12. place(SaveContext[10]) = 10
  BY DEF SaveContext
<1>13. place(SaveContext[11]) = 11
  BY DEF SaveContext
<1>14. place(SaveContext[12]) = 12
  BY DEF SaveContext
<1>15. place(SaveContext[13]) = 13
  BY DEF SaveContext
<1> HIDE DEF place
<1>16. \A a \in 1..13 : place(SaveContext[a]) = a
  BY <1>2, <1>3, <1>4, <1>5, <1>6, <1>7, <1>8, <1>9, <1>10, <1>11,
     <1>12, <1>13, <1>14, <1>15
<1> QED
  BY <1>1, <1>16

LEMMA SaveOrder ==
    /\ \A i, j \in 1..Len(SaveFiles) : SaveFiles[i] = SaveFiles[j] => i = j
    /\ \A k \in Keys : \E j \in 1..Len(SaveFiles) : HomeOf(k) = SaveFiles[j]
    /\ \E m \in 1..Len(SaveFiles) :
          /\ SaveFiles[m] = "storage"
          /\ \A s \in Serials, j \in 1..Len(SaveFiles) : HomeOf(s) = SaveFiles[j] => j <= m
<1> DEFINE n == Len(SaveFiles)
<1>0. n \in Nat
  BY FileCount
<1>1. PICK place \in [1..n -> 1..13] :
         /\ \A i, j \in 1..n : i < j => place[i] < place[j]
         /\ \A i \in 1..n : SaveFiles[i] = SaveContext[place[i]]
  BY SaveFilesAssumption, ContextDistinct
<1>2. ASSUME NEW i \in 1..n, NEW j \in 1..n, SaveFiles[i] = SaveFiles[j] PROVE place[i] = place[j]
  <2>1. place[i] \in 1..13 /\ place[j] \in 1..13
    OBVIOUS
  <2>2. SaveContext[place[i]] = SaveContext[place[j]]
    BY <1>1, <1>2
  <2> QED
    BY <2>1, <2>2, ContextDistinct
<1>3. \A i, j \in 1..n : SaveFiles[i] = SaveFiles[j] => i = j
  <2>1. \A i, j \in 1..n : place[i] = place[j] => ~(i < j) /\ ~(j < i)
    BY <1>0, <1>1
  <2> QED
    BY <1>0, <1>2, <2>1
<1>4. \A s \in Serials : HomeOf(s) = Home[s] /\ Home[s] \in ObjectFiles \cap FileNames
  BY HomeAssumption, Bounds DEF HomeOf
<1>5. \A k \in Keys : HomeOf(k) \in FileNames
  BY <1>4, SaveFilesAssumption DEF Keys, HomeOf
<1>6. PICK m \in 1..n : SaveFiles[m] = "storage"
  BY SaveFilesAssumption DEF FileNames
<1>7. ASSUME NEW s \in Serials, NEW j \in 1..n, HomeOf(s) = SaveFiles[j] PROVE j <= m
  <2>1. PICK a \in 3..9 : Home[s] = SaveContext[a]
    BY <1>4 DEF ObjectFiles
  <2>2. place[j] = a /\ place[m] = 9 /\ a \in 1..13
    <3>0. a \in 1..13 /\ 9 \in 1..13
      OBVIOUS
    <3>1. place[j] \in 1..13 /\ place[m] \in 1..13
      OBVIOUS
    <3>2. SaveContext[place[j]] = SaveContext[a]
      BY <1>1, <1>4, <1>7, <2>1
    <3>3. SaveContext[place[m]] = SaveContext[9]
      BY <1>1, <1>6, ContextDistinct
    <3> QED
      BY <3>0, <3>1, <3>2, <3>3, ContextDistinct
  <2>3. ~(m < j)
    BY <1>1, <2>1, <2>2
  <2> QED
    BY <1>0, <2>3
<1> QED
  BY <1>3, <1>5, <1>6, <1>7 DEF FileNames

(* The asynchronous thread replaces the files by what the full save has written:
   what the full save says stays the same. *)
LEMMA SaverDisk == ASSUME TInv, CleanInv, DiskInv, Saver PROVE DiskInv'
<1> DEFINE n == Len(SaveFiles)
<1>0. /\ txt \in Snapshots /\ pending \in Snapshots /\ n \in Nat
      /\ saver \in Savers /\ saver # Idle /\ saver.file \in 1..n
  BY TypeParts, FileCount DEF TInv, FullTyped, SaverAt, Saver, Flush, CommitOld, CommitNew, Idle
<1>1. /\ UNCHANGED << obj, guilds, dirty_deleted, clean_deleted, incr, incremental_save_count, pending, main >>
      /\ saves' = saves \/ (saves' = CompleteFull /\ HasFull(saves))
  BY <1>0 DEF Saver, Flush, CommitOld, CommitNew, world, counts, incrs, TInv, FullPending
<1>2. CASE main.stage = "stopped"
  <2>1. main'.stage = "stopped" /\ MaxFull # 0
    BY <1>0, <1>1, <1>2 DEF DiskInv, QuietInv
  <2> QED
    BY <2>1 DEF DiskInv, ReadInv, Readable, FilesInv, StandingInv, FreeInv, WriteInv, CommitInv,
                RetireInv, SaverInv, QuietInv
<1>3. CASE main.stage # "stopped"
  <2>1. /\ ndt = { SaveFiles[j] : j \in saver.file..n }
        /\ \A k \in Keys, j \in 1..n : j < saver.file /\ HomeOf(k) = SaveFiles[j] => txt[k] = pending[k]
    BY <1>0, <1>3 DEF DiskInv, SaverInv
  <2>2. Base' = Base /\ SaverInv'
    <3>1. CASE Flush
      <4>1. saver' # Idle /\ saver'.file = saver.file /\ UNCHANGED << txt, ndt >>
        BY <1>0, <3>1 DEF Flush, Savers, Idle
      <4> QED
        BY <1>0, <1>1, <2>1, <4>1 DEF Base, SaverInv
    <3>2. CASE CommitOld
      <4>1. /\ saver' # Idle /\ saver'.file = saver.file /\ ndt' = ndt
            /\ txt' = [k \in Keys |-> IF HomeOf(k) = SaveFiles[saver.file] THEN 0 ELSE txt[k]]
        BY <1>0, <3>2 DEF CommitOld, Savers, Idle, In
      <4>2. ASSUME NEW k \in Keys, NEW j \in 1..n, j < saver.file, HomeOf(k) = SaveFiles[j]
            PROVE  txt'[k] = pending[k]
        <5>1. SaveFiles[j] # SaveFiles[saver.file]
          BY <1>0, <4>2, SaveOrder
        <5> QED
          BY <2>1, <4>1, <4>2, <5>1
      <4> QED
        BY <1>0, <1>1, <2>1, <4>1, <4>2 DEF Base, SaverInv
    <3>3. CASE CommitNew
      <4>1. /\ ndt' = ndt \ {SaveFiles[saver.file]}
            /\ txt' = [k \in Keys |-> IF HomeOf(k) = SaveFiles[saver.file] THEN pending[k] ELSE txt[k]]
        BY <3>3 DEF CommitNew, In
      <4>2. ASSUME NEW k \in Keys, NEW j \in 1..n, j <= saver.file, HomeOf(k) = SaveFiles[j]
            PROVE  txt'[k] = pending[k]
        <5>1. CASE j = saver.file
          BY <4>1, <4>2, <5>1
        <5>2. CASE j # saver.file
          <6>1. SaveFiles[j] # SaveFiles[saver.file] /\ j < saver.file
            BY <1>0, <4>2, <5>2, SaveOrder
          <6> QED
            BY <2>1, <4>1, <4>2, <6>1
        <5> QED
          BY <5>1, <5>2
      <4>3. CASE saver.file < n
        <5>1. saver' = [at |-> "old", file |-> saver.file + 1]
          BY <3>3, <4>3 DEF CommitNew, CommitsGoOn
        <5>2. saver' # Idle /\ saver'.file = saver.file + 1
          BY <5>1 DEF Idle
        <5>3. ndt' = { SaveFiles[j] : j \in (saver.file + 1)..n }
          <6>1. \A j \in saver.file..n : SaveFiles[j] # SaveFiles[saver.file] <=> j \in (saver.file + 1)..n
            <7>1. \A j \in saver.file..n : j \in 1..n /\ (j # saver.file <=> j \in (saver.file + 1)..n)
              BY <1>0
            <7> QED
              BY <1>0, <7>1, SaveOrder
          <6>2. \A j \in (saver.file + 1)..n : j \in saver.file..n
            BY <1>0
          <6> QED
            BY <2>1, <4>1, <6>1, <6>2
        <5>4. \A k \in Keys, j \in 1..n : j < saver.file + 1 /\ HomeOf(k) = SaveFiles[j] => txt'[k] = pending[k]
          BY <1>0, <4>2
        <5> QED
          BY <1>0, <1>1, <5>2, <5>3, <5>4 DEF Base, SaverInv
      <4>4. CASE ~(saver.file < n)
        <5>1. saver' = Idle
          BY <3>3, <4>4 DEF CommitNew, CommitsGoOn
        <5>2. \A k \in Keys : txt'[k] = pending[k]
          BY <1>0, <4>2, <4>4, SaveOrder
        <5>3. txt' = pending
          BY <1>0, <4>1, <5>2 DEF Snapshots
        <5> QED
          BY <1>0, <1>1, <5>1, <5>3 DEF Base, SaverInv
      <4> QED
        BY <4>3, <4>4
    <3> QED
      BY <3>1, <3>2, <3>3 DEF Saver
  <2>3. Standing'.snap = Standing.snap /\ LastSave'.snap = LastSave.snap
    BY <1>1, StandingKept
  <2>4. \A i \in 1..MaxIncr : Has("index", "txt", i)' <=> Has("index", "txt", i)
    BY <1>1 DEF Has
  <2>5. Readable => ReadInv'
    BY <1>1, <2>2, <2>3, <2>4, ReadKept DEF DiskInv
  <2>6. ReadInv'
    BY <1>1, <2>5 DEF ReadInv, FilesInv, StandingInv, FreeInv, Readable
  <2>7. /\ data_ndt' = data_ndt /\ write_index' = write_index
        /\ CommitData' = CommitData /\ CommitIndex' = CommitIndex
    BY <1>1 DEF data_ndt, write_index, CommitData, CommitIndex, save_index
  <2>8. \A s \in Serials : LeftOut(s)' <=> LeftOut(s)
    BY <1>1, <2>2, <2>3 DEF LeftOut, OnDisk
  <2>9. WriteInv'
    BY <1>1, <2>3, <2>7, <2>8 DEF DiskInv, WriteInv, RightSave
  <2>10. CommitInv'
    BY <1>1, <2>3, <2>7, <2>8 DEF DiskInv, CommitInv, RightSave
  <2>11. RetireInv'
    <3>1. Snapshot' = Snapshot
      BY <1>1, SameSnapshot
    <3> QED
      BY <1>1, <2>2, <2>3, <3>1 DEF DiskInv, RetireInv
  <2>12. QuietInv'
    BY <1>0 DEF DiskInv, QuietInv
  <2> QED
    BY <2>2, <2>6, <2>9, <2>10, <2>11, <2>12 DEF DiskInv
<1> QED
  BY <1>2, <1>3

(* The beginning, the renames and the end of a full save. *)
LEMMA FullDisk ==
    ASSUME TInv, CleanInv, DiskInv, SavesTame, Tame => Tidy',
           write_data \/ commit_incremental_saves \/ write_data_returns
    PROVE  DiskInv'
<1>0. TypeOK /\ MaxFull # 0
  <2>1. CASE write_data
    <3>1. fulls < MaxFull /\ fulls \in 0..MaxFull
      BY <2>1, TypeParts DEF TInv, write_data, RunsTyped
    <3> QED
      BY <3>1 DEF TInv
  <2>2. CASE ~write_data
    BY <2>2 DEF TInv, DiskInv, QuietInv, commit_incremental_saves, write_data_returns
  <2> QED
    BY <2>1, <2>2
<1>1. CASE write_data
  <2>1. /\ saver' # Idle /\ saver'.file = 1 /\ main'.stage = "retire"
        /\ pending' = Snapshot /\ ndt' = FileNames
        /\ saves' = Begin("full", Snapshot) /\ Snapshot \in Snapshots
        /\ obj' = [s \in Serials |-> Cleaned(s)] /\ guilds' = guilds
    BY <1>0, <1>1, SnapshotType DEF write_data, Playing, Idle
  <2>2. Snapshot' = Snapshot
    <3>1. obj \in [Serials -> Objects]
      BY <1>0, TypeParts DEF ObjTyped
    <3>2. \A s \in Serials : obj'[s] = IF Written(s) THEN [obj[s] EXCEPT !.dirty = FALSE] ELSE obj[s]
      BY <2>1 DEF Cleaned
    <3>3. \A s \in Serials : /\ obj'[s].at = obj[s].at /\ obj'[s].ver = obj[s].ver
                             /\ obj'[s].apart = obj[s].apart
      BY <3>1, <3>2 DEF Objects
    <3> QED
      BY <2>1, <3>3, SameSnapshot
  <2>3. LastSave'.snap = Snapshot
    BY <2>1, LastBegun
  <2>4. RetireInv'
    BY <2>1, <2>2, <2>3 DEF RetireInv, Base
  <2>5. SaverInv'
    <3>1. \A j \in 1..Len(SaveFiles) : ~(j < 1)
      OBVIOUS
    <3> QED
      BY <2>1, <3>1 DEF SaverInv, FileNames
  <2> QED
    BY <1>0, <2>1, <2>4, <2>5
       DEF DiskInv, ReadInv, Readable, FilesInv, StandingInv, FreeInv, WriteInv, CommitInv, QuietInv
<1>2. CASE commit_incremental_saves
  <2>1. /\ main.stage = "retire" /\ main'.stage = "retire"
        /\ UNCHANGED << obj, guilds, saver, pending, txt, ndt, saves >>
    BY <1>2, RetireFiles DEF commit_incremental_saves, world, full
  <2>2. Snapshot' = Snapshot /\ Base' = Base /\ LastSave' = LastSave
    BY <2>1, SameSnapshot DEF Base, LastSave
  <2> QED
    BY <1>0, <2>1, <2>2
       DEF DiskInv, ReadInv, Readable, FilesInv, StandingInv, FreeInv, WriteInv, CommitInv,
           RetireInv, SaverInv, QuietInv
<1>3. CASE write_data_returns
  <2>1. /\ main.stage = "retire" /\ main'.stage = "play" /\ incremental_save_count' = 0
        /\ UNCHANGED << obj, guilds, saver, pending, txt, ndt >>
        /\ saves' = saves \/ saves' = CompleteFull
    BY <1>3 DEF write_data_returns, Playing, full
  <2>2. HasFull(saves)
    BY <2>1 DEF TInv, FullPending
  <2>3. LastSave'.snap = LastSave.snap
    BY <2>1, <2>2, LastKept
  <2>4. Base' = Base /\ Base = LastSave.snap /\ Base = Snapshot /\ Standing' = LastSave'
    BY <2>1 DEF DiskInv, RetireInv, Base, Standing
  <2>5. \A s \in Serials : Says(incr', 0, Base[s], s, Base[s])
    BY SaysNone
  <2>6. FilesInv'
    <3>1. Tidy'
      BY <1>0 DEF SavesTame
    <3>2. \A i \in 1..MaxIncr : (Has("index", "txt", i)' <=> i <= 0) /\ ~(i <= 0)
      BY <2>1, <3>1 DEF Tidy, SaveTidy
    <3> QED
      BY <2>1, <3>2 DEF FilesInv
  <2>7. StandingInv'
    BY <2>1, <2>3, <2>4, <2>5 DEF StandingInv, OnDisk
  <2>8. FreeInv'
    <3>1. \A s \in Serials : obj'[s].at = "none" => Base[s] = 0
      BY <2>1, <2>4, SnapshotOf DEF Written
    <3> QED
      BY <2>1, <2>4, <2>5, <3>1 DEF FreeInv, OnDisk
  <2> QED
    BY <1>0, <2>1, <2>6, <2>7, <2>8
       DEF DiskInv, ReadInv, WriteInv, CommitInv, RetireInv, SaverInv, QuietInv
<1> QED
  BY <1>1, <1>2, <1>3

(* The beginning of an incremental save: what is not marked is in the files. *)
LEMMA StartDisk == ASSUME TInv, CleanInv, DiskInv, save_incremental PROVE DiskInv'
<1>0. /\ TypeOK /\ main.stage = "play" /\ ~incremental_saves_disabled
      /\ UNCHANGED << obj, guilds, dirty_deleted, clean_deleted, incremental_save_count, saver, pending, txt, ndt >>
      /\ incr' = NewFiles(NoObjects, NoIndex) /\ saves' = Begin("incremental", IncrementalSnapshot)
  BY DEF TInv, save_incremental, world, counts, full
<1>1. main'.stage = "write" /\ main'.todo = { s \in Serials : obj[s].at # "none" } /\ main'.deleted = {}
  BY DEF save_incremental, Playing
<1>2. save_index \in 1..MaxIncr /\ save_index' = save_index /\ IncrTyped(incr)
  <2>1. incremental_save_count < MaxIncr /\ incremental_save_count \in 0..MaxIncr /\ IncrTyped(incr)
    BY <1>0, TypeParts DEF CountsTyped, FilesTyped, save_incremental
  <2> QED
    BY <1>0, <2>1, Bounds DEF save_index
<1>3. /\ incr'["data"]["ndt"][save_index] = NoObjects
      /\ \A kind \in Kinds, i \in 1..MaxIncr : incr'[kind]["txt"][i] = incr[kind]["txt"][i]
  BY <1>0, <1>2, Names, DataOps, WriteBoth
<1>4. data_ndt' = NoObjects /\ write_index' = [modified |-> {}, deleted |-> dirty_deleted]
  <2>1. data_ndt' = NoObjects
    BY <1>2, <1>3 DEF data_ndt
  <2> QED
    BY <1>0, <1>1, <2>1, DataOps DEF write_index
<1>5. /\ LastSave'.snap = IncrementalSnapshot
      /\ Standing' = LastSave /\ Standing = LastSave /\ Base' = Base
  <2>1. IncrementalSnapshot \in Snapshots
    BY <1>0, IncrementalType
  <2> QED
    BY <1>0, <1>1, <2>1, LastBegun DEF Standing, Base
<1>6. /\ IncrementalSnapshot[Guilds] = LastSave.snap[Guilds]
      /\ \A s \in Serials : IncrementalSnapshot[s] = IF Left(s) THEN LastSave.snap[s]
                                                   ELSE Snapshot[s]
  BY <1>0, IncrementalType
<1>7. /\ ReadInv'
      /\ \A s \in Serials : \A v : Says(incr', incremental_save_count', Base'[s], s, v) <=> OnDisk(s, v)
  <2>1. \A i \in 1..MaxIncr :
           /\ Has("index", "txt", i)' <=> Has("index", "txt", i)
           /\ incr'["index"]["txt"][i] = incr["index"]["txt"][i]
           /\ incr'["data"]["txt"][i] = incr["data"]["txt"][i]
    BY <1>3, Names DEF Has
  <2>2. Readable
    BY <1>0 DEF Readable
  <2> QED
    BY <1>0, <1>5, <2>1, <2>2, ReadKept DEF DiskInv
<1>8. RightSave(data_ndt, write_index)'
  <2>1. \A s \in dirty_deleted : s \in Serials /\ IncrementalSnapshot[s] = 0
    <3>1. dirty_deleted \subseteq Serials
      BY <1>0, TypeParts DEF ObjTyped
    <3> QED
      BY <1>6, <3>1, SnapshotOf DEF CleanInv, ObjInv, Written, Left
  <2> QED
    BY <1>4, <1>5, <1>6, <2>1, DataOps DEF RightSave
<1>9. ASSUME NEW s \in Serials
      PROVE  \/ s \in dirty_deleted
             \/ s \in main'.todo /\ obj[s].dirty /\ ~obj[s].apart
             \/ LeftOut(s)'
  <2>0. OnDisk(s, LastSave.snap[s])
    BY <1>0, <1>5 DEF DiskInv, ReadInv, StandingInv, Readable
  <2>1. CASE Marked(s)
    <3>1. CASE obj[s].at = "none"
      BY <2>1, <3>1 DEF Marked
    <3>2. CASE obj[s].at # "none" /\ ~obj[s].apart
      BY <1>1, <2>1, <3>2 DEF Marked
    <3>3. CASE obj[s].at # "none" /\ obj[s].apart
      <4>1. Left(s)
        BY <3>3 DEF Left, CleanInv, ObjInv
      <4> QED
        BY <1>5, <1>6, <1>7, <2>0, <4>1 DEF LeftOut, OnDisk
    <3> QED
      BY <3>1, <3>2, <3>3
  <2>2. CASE ~Marked(s)
    <3>1. Saved(s) \/ LeftBehind(s)
      BY <1>0, <2>2 DEF CleanInv, CleanRecorded
    <3>2. CASE obj[s].at = "live"
      <4>1. Left(s)
        BY <2>2, <3>2 DEF Left, Marked
      <4> QED
        BY <1>5, <1>6, <1>7, <2>0, <4>1 DEF LeftOut, OnDisk
    <3>3. CASE obj[s].at # "live"
      <4>1. LastSave.snap[s] = 0
        BY <3>1, <3>3 DEF Saved, Content, LeftBehind
      <4>2. IncrementalSnapshot[s] = 0
        BY <1>6, <3>3, SnapshotOf DEF Left, Written
      <4> QED
        BY <1>5, <1>7, <2>0, <4>1, <4>2 DEF LeftOut, OnDisk
    <3> QED
      BY <3>2, <3>3
  <2> QED
    BY <2>1, <2>2
<1>10. WriteInv'
  BY <1>0, <1>1, <1>4, <1>8, <1>9 DEF WriteInv
<1> QED
  BY <1>0, <1>1, <1>7, <1>10 DEF DiskInv, CommitInv, RetireInv, SaverInv, QuietInv

(* An object goes from what is still to be written to what is written. *)
LEMMA ObjectDisk == ASSUME TInv, CleanInv, DiskInv, NEW t \in Serials, WriteObject(t) PROVE DiskInv'
<1>0. /\ TypeOK /\ main.stage = "write" /\ main'.stage = "write" /\ t \in main.todo
      /\ main'.todo = main.todo \ {t}
      /\ UNCHANGED << guilds, dirty_deleted, clean_deleted, incremental_save_count, saver, pending, txt, ndt, saves >>
  BY WriteStage DEF TInv, WriteObject, counts, full
<1>1. /\ IncrTyped(incr) /\ save_index \in 1..MaxIncr /\ save_index' = save_index
      /\ data_ndt \in DataFiles /\ obj \in [Serials -> Objects]
  BY <1>0, WritingTypes, TypeParts DEF save_index, ObjTyped
<1>2. /\ \A kind \in Kinds, i \in 1..MaxIncr : incr'[kind]["txt"][i] = incr[kind]["txt"][i]
      /\ \A d : incr' = Put(incr, "data", "ndt", save_index, d) /\ d \in DataFiles => data_ndt' = d
  <2>1. ASSUME NEW d \in DataFiles, incr' = Put(incr, "data", "ndt", save_index, d)
        PROVE  /\ \A kind \in Kinds, i \in 1..MaxIncr : incr'[kind]["txt"][i] = incr[kind]["txt"][i]
               /\ data_ndt' = d
    <3>1. d \in FilesOf("data") \cup {NoFile}
      BY DEF FilesOf
    <3>2. Replaced(incr', incr, "data", "ndt", save_index, d)
      BY <1>1, <2>1, <3>1, Names, Replace
    <3> QED
      BY <1>1, <3>2, Names DEF Replaced, data_ndt
  <2> QED
    BY <2>1, WriteFile
<1>3. /\ \A s \in Serials : obj'[s].at = obj[s].at /\ obj'[s].apart = obj[s].apart
      /\ \A s \in Serials \ {t} : obj'[s] = obj[s]
  BY <1>1 DEF WriteObject, Objects
<1>4. Standing' = Standing /\ LastSave' = LastSave /\ Base' = Base
  BY <1>0 DEF Standing, LastSave, Base
<1>5. /\ ReadInv'
      /\ \A s \in Serials : \A v : Says(incr', incremental_save_count', Base'[s], s, v) <=> OnDisk(s, v)
  <2>1. \A i \in 1..MaxIncr :
           /\ Has("index", "txt", i)' <=> Has("index", "txt", i)
           /\ incr'["index"]["txt"][i] = incr["index"]["txt"][i]
           /\ incr'["data"]["txt"][i] = incr["data"]["txt"][i]
    BY <1>2, Names DEF Has
  <2>2. Readable
    BY <1>0 DEF Readable
  <2> QED
    BY <1>0, <1>3, <1>4, <2>1, <2>2, ReadKept DEF DiskInv
<1>6. \A s \in Serials : LeftOut(s)' <=> LeftOut(s)
  BY <1>4, <1>5 DEF LeftOut, OnDisk
<1>7. /\ RightSave(data_ndt, write_index)
      /\ \A s \in main.todo : obj[s].at # "none"
      /\ \A s \in main.deleted : obj[s].at = "orphan"
      /\ \A s \in Serials :
            \/ s \in write_index.modified \cup write_index.deleted
            \/ s \in main.todo /\ obj[s].dirty /\ ~obj[s].apart
            \/ LeftOut(s)
  BY <1>0 DEF DiskInv, WriteInv
<1>8. /\ write_index.modified = DOMAIN data_ndt /\ write_index.deleted = main.deleted \cup dirty_deleted
      /\ write_index'.modified = DOMAIN data_ndt' /\ write_index'.deleted = main'.deleted \cup dirty_deleted
  BY <1>0 DEF write_index
<1>9. /\ obj[t].at # "none" /\ obj[t].at \in {"none", "live", "orphan"} /\ t \notin dirty_deleted
      /\ main.todo \subseteq Serials /\ main.deleted \subseteq Serials
  BY <1>0, <1>1, <1>7, TypeParts DEF CleanInv, ObjInv, Objects, Mains
<1>10. \A s \in main'.todo : obj'[s].at # "none"
  BY <1>0, <1>3, <1>7, <1>9
<1>11. CASE obj[t].dirty /\ ~obj[t].apart /\ obj[t].at = "live"
  <2> DEFINE d == [s \in DOMAIN data_ndt \cup {t} |-> IF s = t THEN obj[t].ver ELSE data_ndt[s]]
  <2>1. incr' = Put(incr, "data", "ndt", save_index, d) /\ main'.deleted = main.deleted
    <3>1. incr' = Put(incr, "data", "ndt", save_index, d)
      BY <1>11 DEF WriteObject
    <3>2. main'.deleted = main.deleted
      BY <1>11, WriteStage
    <3> QED
      BY <3>1, <3>2
  <2>2. d \in DataFiles
    <3>1. \A f \in DataFiles, s \in Serials, v \in Versions :
             [u \in DOMAIN f \cup {s} |-> IF u = s THEN v ELSE f[u]] \in DataFiles
      BY DataOps
    <3>2. obj[t].ver \in Versions
      BY <1>1 DEF Objects
    <3> QED
      BY <1>1, <3>1, <3>2
  <2>3. /\ DOMAIN d = DOMAIN data_ndt \cup {t} /\ d[t] = obj[t].ver
        /\ \A s \in DOMAIN data_ndt \ {t} : d[s] = data_ndt[s]
    OBVIOUS
  <2> HIDE DEF d
  <2>4. data_ndt' = d
    BY <1>2, <2>1, <2>2
  <2>5. LastSave.snap[t] = obj[t].ver
    BY <1>0, <1>11 DEF CleanInv, Recorded, Saved, Content, LeftBehind
  <2>6. t \notin main.deleted \cup dirty_deleted
    BY <1>7, <1>9, <1>11
  <2>7. RightSave(data_ndt, write_index)'
    <3>1. \A s \in DOMAIN d : s \in Serials
      BY <2>2, DataOps
    <3>2. \A s \in DOMAIN d : s \notin main'.deleted \cup dirty_deleted /\ obj'[s].at = "live" /\ d[s] = LastSave.snap[s]
      BY <1>3, <1>7, <1>8, <1>11, <2>1, <2>3, <2>5, <2>6, <3>1 DEF RightSave
    <3> QED
      BY <1>4, <1>7, <1>8, <2>1, <2>4, <3>2 DEF RightSave
  <2>8. \A s \in main'.deleted : obj'[s].at = "orphan"
    BY <1>3, <1>7, <1>9, <2>1
  <2>9. \A s \in Serials :
           \/ s \in write_index'.modified \cup write_index'.deleted
           \/ s \in main'.todo /\ obj'[s].dirty /\ ~obj'[s].apart
           \/ LeftOut(s)'
    BY <1>0, <1>3, <1>6, <1>7, <1>8, <2>1, <2>3, <2>4
  <2>10. WriteInv'
    BY <1>10, <2>7, <2>8, <2>9 DEF WriteInv
  <2> QED
    BY <1>0, <1>5, <2>10 DEF DiskInv, CommitInv, RetireInv, SaverInv, QuietInv
<1>12. CASE ~(obj[t].dirty /\ ~obj[t].apart /\ obj[t].at = "live")
  <2>1. /\ incr' = incr /\ data_ndt' = data_ndt
        /\ IF obj[t].dirty /\ ~obj[t].apart THEN main'.deleted = main.deleted \cup {t}
                                            ELSE main'.deleted = main.deleted /\ obj' = obj
    <3>1. CASE obj[t].dirty /\ ~obj[t].apart
      <4>1. incr' = incr /\ main' = [main EXCEPT !.todo = @ \ {t}, !.deleted = @ \cup {t}]
        BY <1>12, <3>1 DEF WriteObject
      <4>2. main \in Mains
        BY <1>0, TypeParts
      <4> QED
        BY <1>1, <3>1, <4>1, <4>2 DEF data_ndt, Mains
    <3>2. CASE ~(obj[t].dirty /\ ~obj[t].apart)
      <4>1. incr' = incr /\ obj' = obj
        BY <3>2 DEF WriteObject
      <4>2. main'.deleted = main.deleted
        BY <3>2, WriteStage
      <4> QED
        BY <1>1, <3>2, <4>1, <4>2 DEF data_ndt
    <3> QED
      BY <3>1, <3>2
  <2>2. /\ main.deleted \subseteq main'.deleted
        /\ \A s \in main'.deleted : s \in main.deleted \/ (s = t /\ obj[t].dirty /\ ~obj[t].apart)
    BY <2>1
  <2>3. \A s \in main'.deleted : s \in Serials /\ obj[s].at = "orphan"
    BY <1>7, <1>9, <1>12, <2>2
  <2>4. RightSave(data_ndt, write_index)'
    <3>1. \A s \in DOMAIN data_ndt : s \in Serials
      BY <1>1, DataOps
    <3>2. \A s \in DOMAIN data_ndt :
             s \notin main'.deleted \cup dirty_deleted /\ obj'[s].at = "live" /\ data_ndt[s] = LastSave.snap[s]
      BY <1>3, <1>7, <1>8, <2>3, <3>1 DEF RightSave
    <3>3. \A s \in main'.deleted : LastSave.snap[s] = 0
      BY <1>0, <2>3 DEF CleanInv, ObjInv, Recorded, Saved, Content, LeftBehind
    <3> QED
      BY <1>4, <1>7, <1>8, <2>1, <3>2, <3>3 DEF RightSave
  <2>5. \A s \in main'.deleted : obj'[s].at = "orphan"
    BY <1>3, <2>3
  <2>6. ASSUME NEW s \in Serials
        PROVE  \/ s \in write_index'.modified \cup write_index'.deleted
               \/ s \in main'.todo /\ obj'[s].dirty /\ ~obj'[s].apart
               \/ LeftOut(s)'
    <3>1. CASE s # t
      BY <1>0, <1>3, <1>6, <1>7, <1>8, <2>1, <2>2, <3>1
    <3>2. CASE s = t
      BY <1>6, <1>7, <1>8, <2>1, <2>2, <3>2
    <3> QED
      BY <3>1, <3>2
  <2>7. WriteInv'
    BY <1>10, <2>4, <2>5, <2>6 DEF WriteInv
  <2> QED
    BY <1>0, <1>5, <2>7 DEF DiskInv, CommitInv, RetireInv, SaverInv, QuietInv
<1> QED
  BY <1>11, <1>12

(* All objects are written: the index goes to its file. *)
LEMMA FinishDisk == ASSUME TInv, CleanInv, DiskInv, FinishWriting PROVE DiskInv'
<1>0. /\ TypeOK /\ main.stage = "write" /\ main.todo = {}
      /\ clean_deleted' = clean_deleted \cup dirty_deleted /\ dirty_deleted' = {}
      /\ incr' = Put(incr, "index", "ndt", save_index, write_index)
      /\ UNCHANGED << obj, guilds, incremental_save_count, saver, pending, txt, ndt, saves >>
  BY DEF TInv, FinishWriting, CleanDeleted, counts, full
<1>1. main'.stage = "commit" /\ main'.kind = "data"
  <2>1. main \in Mains /\ main.kind = "data" /\ main' = [main EXCEPT !.stage = "commit"]
    BY <1>0, TypeParts DEF TInv, IncrPending, AtStartOf, FinishWriting
  <2> QED
    BY <2>1 DEF Mains
<1>2. /\ IncrTyped(incr) /\ save_index \in 1..MaxIncr /\ save_index' = save_index
      /\ data_ndt # NoFile /\ write_index \in FilesOf("index") \cup {NoFile} /\ write_index # NoFile
  BY <1>0, WritingTypes, NoFileAssumption DEF FilesOf, TInv, IncrPending, save_index
<1>3. /\ \A kind \in Kinds, i \in 1..MaxIncr : incr'[kind]["txt"][i] = incr[kind]["txt"][i]
      /\ incr'["data"]["ndt"][save_index] = data_ndt
      /\ incr'["index"]["ndt"][save_index] = write_index
  <2>1. Replaced(incr', incr, "index", "ndt", save_index, write_index)
    BY <1>0, <1>2, Names, Replace
  <2> QED
    BY <1>2, <2>1, Names DEF Replaced, data_ndt
<1>4. CommitData' = data_ndt /\ CommitIndex' = write_index
  BY <1>1, <1>2, <1>3 DEF CommitData, CommitIndex
<1>5. Standing' = Standing /\ LastSave' = LastSave /\ Base' = Base
  BY <1>0, <1>1 DEF Standing, LastSave, Base
<1>6. /\ ReadInv'
      /\ \A s \in Serials : \A v : Says(incr', incremental_save_count', Base'[s], s, v) <=> OnDisk(s, v)
  <2>1. \A i \in 1..MaxIncr :
           /\ Has("index", "txt", i)' <=> Has("index", "txt", i)
           /\ incr'["index"]["txt"][i] = incr["index"]["txt"][i]
           /\ incr'["data"]["txt"][i] = incr["data"]["txt"][i]
    BY <1>3, Names DEF Has
  <2>2. Readable
    BY <1>0 DEF Readable
  <2> QED
    BY <1>0, <1>5, <2>1, <2>2, ReadKept DEF DiskInv
<1>7. \A s \in Serials : LeftOut(s)' <=> LeftOut(s)
  BY <1>5, <1>6 DEF LeftOut, OnDisk
<1>8. CommitInv'
  <2>1. RightSave(CommitData, CommitIndex)'
    BY <1>0, <1>4, <1>5 DEF DiskInv, WriteInv, RightSave
  <2>2. \A s \in Serials : s \in write_index.modified \cup write_index.deleted \/ LeftOut(s)'
    BY <1>0, <1>7 DEF DiskInv, WriteInv
  <2> QED
    BY <1>2, <1>4, <2>1, <2>2 DEF CommitInv
<1> QED
  BY <1>0, <1>1, <1>6, <1>8 DEF DiskInv, WriteInv, RetireInv, SaverInv, QuietInv

(* A save that fails leaves what the files say. *)
LEMMA FailDisk == ASSUME TInv, CleanInv, DiskInv, FailWriting PROVE DiskInv'
<1>0. /\ TypeOK /\ main.stage = "write" /\ main'.stage = "play"
      /\ saves' = SubSeq(saves, 1, Len(saves) - 1)
      /\ dirty_deleted' \cup clean_deleted' = dirty_deleted \cup clean_deleted
      /\ UNCHANGED << obj, guilds, incremental_save_count, saver, pending, txt, ndt >>
  BY DEF TInv, FailWriting, CleanDeleted, full, Playing
<1>1. \A kind \in Kinds, i \in 1..MaxIncr : incr'[kind]["txt"][i] = incr[kind]["txt"][i]
  <2>1. PICK reached \in SUBSET DOMAIN data_ndt, index \in {NoIndex, write_index} :
           incr' = NewFiles([s \in reached |-> data_ndt[s]], index)
    BY DEF FailWriting
  <2>2. [s \in reached |-> data_ndt[s]] \in DataFiles /\ index \in IndexFiles
    BY <1>0, <2>1, WritingTypes, DataOps
  <2>3. IncrTyped(incr) /\ save_index \in 1..MaxIncr
    BY <1>0, WritingTypes
  <2> QED
    BY <2>1, <2>2, <2>3, Names, WriteBoth
<1>2. Standing' = Standing /\ Base' = Base
  <2>1. saves \in Seq(SaveRecords) /\ Len(saves) \in Nat /\ Len(saves) >= 2
    BY <1>0, TypeParts, LenProperties DEF TInv, IncrPending, SavesTyped
  <2>2. Len(saves') = Len(saves) - 1 /\ saves'[Len(saves) - 1] = saves[Len(saves) - 1]
    BY <1>0, <2>1, SubSeqProperties
  <2> QED
    BY <1>0, <2>2 DEF Standing, LastSave, Base
<1>3. ReadInv'
  <2>1. \A i \in 1..MaxIncr :
           /\ Has("index", "txt", i)' <=> Has("index", "txt", i)
           /\ incr'["index"]["txt"][i] = incr["index"]["txt"][i]
           /\ incr'["data"]["txt"][i] = incr["data"]["txt"][i]
    BY <1>1, Names DEF Has
  <2>2. Readable
    BY <1>0 DEF Readable
  <2> QED
    BY <1>0, <1>2, <2>1, <2>2, ReadKept DEF DiskInv
<1> QED
  BY <1>0, <1>3 DEF DiskInv, WriteInv, CommitInv, RetireInv, SaverInv, QuietInv

(* The renames: the index comes last, and with it all that the save says. *)
LEMMA CommitDisk == ASSUME TInv, CleanInv, DiskInv, commit_incremental PROVE DiskInv'
<1>0. /\ TypeOK /\ main.stage = "commit"
      /\ UNCHANGED << obj, guilds, dirty_deleted, clean_deleted, saver, pending, txt, ndt >>
  BY DEF TInv, commit_incremental, world, full
<1>1. PICK n \in 1..MaxIncr : n = save_index
  BY <1>0, WritingTypes
<1>2. /\ n = incremental_save_count + 1 /\ incremental_save_count \in Nat
  BY <1>0, <1>1, Bounds, TypeParts DEF save_index, CountsTyped
<1>3. /\ main.kind \in Kinds /\ main.half \in {"old", "new"}
      /\ \A kind \in Kinds, suffix \in Suffixes, i \in 1..MaxIncr :
            kind # main.kind \/ i # n \/ (main.half = "old" /\ suffix = "ndt")
               => incr'[kind][suffix][i] = incr[kind][suffix][i]
      /\ main.half = "old" => incr'[main.kind]["txt"][n] = NoFile
      /\ main.half # "old" => incr'[main.kind]["txt"][n] = incr[main.kind]["ndt"][n]
  BY <1>1, CommitFiles, CommitStage
<1>4. Base' = Base
  BY <1>0 DEF Base
<1>5. /\ CommitData # NoFile /\ CommitIndex # NoFile /\ RightSave(CommitData, CommitIndex)
      /\ \A s \in Serials : s \in CommitIndex.modified \cup CommitIndex.deleted \/ LeftOut(s)
      /\ FilesInv /\ StandingInv /\ FreeInv
  BY <1>0 DEF DiskInv, ReadInv, CommitInv
<1>6. \A i \in 1..MaxIncr : i # n => incr'["index"]["txt"][i] = incr["index"]["txt"][i]
                                     /\ incr'["data"]["txt"][i] = incr["data"]["txt"][i]
  BY <1>3, Names
<1>7. ~Has("index", "txt", n) /\ ~(n <= incremental_save_count)
  BY <1>0, <1>2, <1>5 DEF FilesInv, Readable
<1>8. CASE LastHalf
  <2>1. /\ main.kind = "index" /\ main.half = "new" /\ main'.stage = "play"
        /\ incremental_save_count' = n /\ saves' = CompleteIncremental
    BY <1>1, <1>8, CommitStage DEF LastHalf, Playing, commit_incremental
  <2>2. LastSave'.snap = LastSave.snap /\ Standing' = LastSave'
    BY <2>1, LastKept DEF Standing
  <2>3. /\ incr'["index"]["txt"][n] = CommitIndex /\ incr'["data"]["txt"][n] = CommitData
    BY <1>1, <1>3, <2>1, Names DEF CommitIndex, CommitData
  <2>4. FilesInv'
    <3>1. ASSUME NEW i \in 1..MaxIncr
          PROVE  /\ incr'["index"]["txt"][i] # NoFile <=> i <= n
                 /\ i <= n => /\ incr'["data"]["txt"][i] # NoFile
                              /\ DOMAIN incr'["data"]["txt"][i] = incr'["index"]["txt"][i].modified
      <4>1. CASE i = n
        BY <1>5, <2>3, <4>1 DEF RightSave
      <4>2. CASE i # n
        <5>1. i <= n <=> i <= incremental_save_count
          BY <1>2, <4>2
        <5>2. /\ incr["index"]["txt"][i] # NoFile <=> i <= incremental_save_count
              /\ i <= incremental_save_count =>
                    /\ incr["data"]["txt"][i] # NoFile
                    /\ DOMAIN incr["data"]["txt"][i] = incr["index"]["txt"][i].modified
          BY <1>0, <1>5 DEF FilesInv, Readable, Has, Index
        <5> QED
          BY <1>6, <4>2, <5>1, <5>2
      <4> QED
        BY <4>1, <4>2
    <3> QED
      BY <2>1, <3>1 DEF FilesInv, Has, Index
  <2>5. \A i \in 1..incremental_save_count :
           /\ incr'["index"]["txt"][i] = incr["index"]["txt"][i]
           /\ incr'["data"]["txt"][i] = incr["data"]["txt"][i]
    <3>1. \A i \in 1..incremental_save_count : i \in 1..MaxIncr /\ i # n
      BY <1>2, Bounds
    <3> QED
      BY <1>6, <3>1
  <2>6. ASSUME NEW s \in Serials, NEW v,
               \/ s \in CommitIndex.deleted /\ v = 0
               \/ s \in CommitIndex.modified /\ s \notin CommitIndex.deleted /\ v = CommitData[s]
               \/ s \notin CommitIndex.modified \cup CommitIndex.deleted /\ OnDisk(s, v)
        PROVE  Says(incr', n, Base[s], s, v)
    <3> DEFINE x == CommitIndex
               d == CommitData
    <3>1. incr'["index"]["txt"][incremental_save_count + 1] = x
      BY <1>2, <2>3
    <3>2. incr'["data"]["txt"][incremental_save_count + 1] = d
      BY <1>2, <2>3
    <3>3. \/ s \in x.deleted /\ v = 0
          \/ s \in x.modified /\ s \notin x.deleted /\ v = d[s]
          \/ s \notin x.modified \cup x.deleted /\ Says(incr, incremental_save_count, Base[s], s, v)
      BY <2>6 DEF OnDisk
    <3> HIDE DEF x, d
    <3>4. Says(incr', incremental_save_count + 1, Base[s], s, v)
      BY <1>2, <2>5, <3>1, <3>2, <3>3, SaysMore
    <3> QED
      BY <1>2, <3>4
  <2>7. StandingInv'
    <3>1. Base[Guilds] = LastSave.snap[Guilds]
      BY <1>0, <1>5 DEF StandingInv, RightSave, Readable
    <3>2. ASSUME NEW s \in Serials
          PROVE  Says(incr', n, Base[s], s, LastSave.snap[s])
      <4>1. \/ s \in CommitIndex.deleted /\ LastSave.snap[s] = 0
            \/ s \in CommitIndex.modified /\ s \notin CommitIndex.deleted /\ LastSave.snap[s] = CommitData[s]
            \/ s \notin CommitIndex.modified \cup CommitIndex.deleted /\ OnDisk(s, LastSave.snap[s])
        BY <1>5 DEF RightSave, LeftOut
      <4> QED
        BY <2>6, <4>1
    <3> QED
      BY <1>4, <2>1, <2>2, <3>1, <3>2 DEF StandingInv, OnDisk
  <2>8. FreeInv'
    <3>1. ASSUME NEW s \in Serials, obj[s].at = "none", s \notin dirty_deleted \cup clean_deleted
          PROVE  Says(incr', n, Base[s], s, 0)
      <4>1. OnDisk(s, 0)
        BY <1>0, <1>5, <3>1 DEF FreeInv, Readable
      <4>2. s \notin CommitIndex.modified
        BY <1>5, <3>1 DEF RightSave
      <4> QED
        BY <2>6, <4>1, <4>2
    <3> QED
      BY <1>0, <1>4, <2>1, <3>1 DEF FreeInv, OnDisk
  <2> QED
    BY <1>0, <2>1, <2>4, <2>7, <2>8
       DEF DiskInv, ReadInv, WriteInv, CommitInv, RetireInv, SaverInv, QuietInv
<1>9. CASE ~LastHalf
  <2>1. /\ main'.stage = "commit" /\ incremental_save_count' = incremental_save_count /\ saves' = saves
        /\ main.half = "old" => main'.kind = main.kind
        /\ main.half = "new" => main.kind = "data" /\ main'.kind = "index"
    BY <1>9, CommitStage DEF commit_incremental
  <2>2. Standing' = Standing /\ LastSave' = LastSave /\ save_index' = n
    BY <1>0, <1>1, <2>1 DEF Standing, LastSave, save_index
  <2>3. /\ ReadInv'
        /\ \A s \in Serials : \A v : Says(incr', incremental_save_count', Base'[s], s, v) <=> OnDisk(s, v)
    <3>1. incr'["index"]["txt"][n] = NoFile
      BY <1>3, <1>7, <2>1, Names DEF Has
    <3>2. \A i \in 1..MaxIncr :
             /\ Has("index", "txt", i)' <=> Has("index", "txt", i)
             /\ i <= incremental_save_count =>
                   /\ incr'["index"]["txt"][i] = incr["index"]["txt"][i]
                   /\ incr'["data"]["txt"][i] = incr["data"]["txt"][i]
      BY <1>6, <1>7, <3>1 DEF Has
    <3>3. Readable
      BY <1>0 DEF Readable
    <3> QED
      BY <1>0, <1>4, <2>1, <2>2, <3>2, <3>3, ReadKept DEF DiskInv
  <2>4. \A s \in Serials : LeftOut(s)' <=> LeftOut(s)
    BY <2>2, <2>3 DEF LeftOut, OnDisk
  <2>5. CommitIndex' = CommitIndex /\ CommitData' = CommitData
    <3>1. incr'["index"]["ndt"][n] = incr["index"]["ndt"][n]
      BY <1>3, <2>1, Names
    <3>2. CASE main.half = "old"
      <4>1. /\ incr'["data"]["ndt"][n] = incr["data"]["ndt"][n]
            /\ main.kind # "data" => incr'["data"]["txt"][n] = incr["data"]["txt"][n]
        BY <1>3, <3>2, Names
      <4> QED
        BY <1>1, <2>1, <2>2, <3>1, <3>2, <4>1 DEF CommitIndex, CommitData
    <3>3. CASE main.half = "new"
      <4>1. main.kind = "data" /\ main'.kind = "index"
            /\ incr'["data"]["txt"][n] = incr["data"]["ndt"][n]
        BY <1>3, <2>1, <3>3
      <4> QED
        BY <1>1, <2>2, <3>1, <4>1 DEF CommitIndex, CommitData
    <3> QED
      BY <1>3, <3>2, <3>3
  <2>6. CommitInv'
    <3>1. RightSave(CommitData, CommitIndex)'
      BY <1>0, <1>5, <2>2, <2>5 DEF RightSave
    <3> QED
      BY <1>5, <2>4, <2>5, <3>1 DEF CommitInv
  <2> QED
    BY <1>0, <2>1, <2>3, <2>6 DEF DiskInv, WriteInv, RetireInv, SaverInv, QuietInv
<1> QED
  BY <1>8, <1>9

(* A start that does not ask for intervention finds files that can be read. *)
LEMMA LoadsReadable ==
    ASSUME TInv, DiskInv, SavesTame, Restart, ~Refused
    PROVE  Readable /\ saver = Idle
<1>1. CASE Tame
  BY <1>1, TameRestart DEF Readable
<1>2. CASE MaxFull = 0
  BY <1>2, TypeParts DEF TInv, DiskInv, QuietInv, Restart, Readable, Mains
<1> QED
  BY <1>1, <1>2 DEF SavesTame

LEMMA ReadsDisk ==
    ASSUME TInv, FilesInv, Readable, saver = Idle
    PROVE  /\ \A s \in Serials : OnDisk(s, Read(s))
           /\ \A s \in Serials : \A v : OnDisk(s, v) => Read(s) = v
           /\ Duplicated = {}
           /\ IncrementalCount = incremental_save_count
<1>0. incremental_save_count \in 0..MaxIncr /\ incremental_save_count \in Nat
  BY TypeParts, Bounds DEF TInv, CountsTyped
<1>1. \A s \in Serials : \A v : OnDisk(s, v) <=> Says(incr, incremental_save_count, txt[s], s, v)
  BY DEF OnDisk, Base
<1>2. ASSUME NEW s \in Serials, NEW v, OnDisk(s, v)
      PROVE  Read(s) = v /\ ~(Cardinality(Copies(s)) > 1)
  <2>1. Says(incr, incremental_save_count, txt[s], s, v)
    BY <1>1, <1>2
  <2> QED
    BY <2>1, ReadIs
<1>3. ASSUME NEW s \in Serials
      PROVE  OnDisk(s, Read(s)) /\ ~(Cardinality(Copies(s)) > 1)
  <2>1. PICK v : Says(incr, incremental_save_count, txt[s], s, v)
    BY <1>0, SaysSomething
  <2>2. OnDisk(s, v)
    BY <1>1, <2>1
  <2> QED
    BY <1>2, <2>2
<1>4. IncrementalCount = incremental_save_count
  <2>1. \A i \in 1..MaxIncr : Has("index", "txt", i) <=> i <= incremental_save_count
    BY DEF FilesInv
  <2> QED
    BY <1>0, <2>1, CountIs
<1> QED
  BY <1>2, <1>3, <1>4 DEF Duplicated

(* The world that a start gives is what the files say. *)
LEMMA RestartDisk == ASSUME TInv, DiskInv, SavesTame, Restart PROVE DiskInv'
<1>0. /\ TypeOK /\ main.stage # "stopped" /\ saver' = Idle
      /\ UNCHANGED << txt, ndt, incr, bak >>
  BY DEF TInv, Restart, incrs
<1>1. CASE ~Refused
  <2>1. Readable /\ saver = Idle /\ FilesInv
    BY <1>1, LoadsReadable DEF DiskInv, ReadInv
  <2>2. /\ \A s \in Serials : OnDisk(s, Read(s))
        /\ Duplicated = {} /\ IncrementalCount = incremental_save_count
    BY <2>1, ReadsDisk
  <2>3. /\ main' = Playing /\ obj' = [s \in Serials |-> Stored(Read(s))]
        /\ incremental_save_count' = incremental_save_count
        /\ saves' = << [type |-> "start", snap |-> Loaded, done |-> TRUE, missing |-> {}] >>
    BY <1>1, <2>2 DEF Restart
  <2>4. main'.stage = "play" /\ Standing' = LastSave' /\ LastSave'.snap = Loaded /\ Base' = txt /\ Base = txt
    <3>1. LastSave' = [type |-> "start", snap |-> Loaded, done |-> TRUE, missing |-> {}]
      BY <2>3 DEF LastSave
    <3> QED
      BY <1>0, <2>1, <2>3, <3>1 DEF Standing, Base, Playing
  <2>5. /\ Loaded[Guilds] = txt[Guilds]
        /\ \A s \in Serials : Loaded[s] = Read(s)
    BY GuildsAssumption DEF Loaded, Keys
  <2>6. \A s \in Serials : Says(incr', incremental_save_count', Base'[s], s, Read(s))
    BY <1>0, <2>2, <2>3, <2>4 DEF OnDisk
  <2>7. FilesInv'
    BY <1>0, <2>1, <2>3 DEF FilesInv, Has, Index
  <2>8. StandingInv'
    BY <2>4, <2>5, <2>6 DEF StandingInv, OnDisk
  <2>9. FreeInv'
    <3>1. \A s \in Serials : obj'[s].at = "none" => Read(s) = 0
      BY <2>3 DEF Stored, Absent
    <3> QED
      BY <2>6, <3>1 DEF FreeInv, OnDisk
  <2> QED
    BY <1>0, <2>4, <2>7, <2>8, <2>9
       DEF DiskInv, ReadInv, WriteInv, CommitInv, RetireInv, SaverInv, QuietInv
<1>2. CASE Refused
  <2>1. main'.stage = "stopped" /\ MaxFull # 0
    BY <1>2 DEF Restart, Playing, DiskInv, QuietInv, Refused
  <2> QED
    BY <1>0, <2>1
       DEF DiskInv, ReadInv, FilesInv, StandingInv, FreeInv, Readable, WriteInv, CommitInv, RetireInv,
           SaverInv, QuietInv
<1> QED
  BY <1>1, <1>2

LEMMA InitDisk == ASSUME Init PROVE DiskInv
<1>1. /\ main = Playing /\ saver = Idle /\ txt = Snapshot /\ ndt = {}
      /\ incremental_save_count = 0
      /\ saves = << [type |-> "start", snap |-> Snapshot, done |-> TRUE, missing |-> {}] >>
  BY DEF Init
<1>2. LastSave = [type |-> "start", snap |-> Snapshot, done |-> TRUE, missing |-> {}]
  BY <1>1 DEF LastSave
<1>3. main.stage = "play" /\ Standing = LastSave /\ LastSave.snap = Snapshot /\ Base = Snapshot
  BY <1>1, <1>2 DEF Playing, Standing, Base
<1>4. \A s \in Serials : OnDisk(s, Snapshot[s])
  BY <1>1, <1>3, SaysNone DEF OnDisk
<1>5. FilesInv
  <2>1. incr = [kind \in Kinds |-> [suffix \in Suffixes |-> [i \in 1..MaxIncr |-> NoFile]]]
    BY DEF Init
  <2>2. \A i \in 1..MaxIncr : ~Has("index", "txt", i) /\ ~(i <= incremental_save_count)
    BY <1>1, <2>1, Names, Bounds DEF Has
  <2> QED
    BY <2>2 DEF FilesInv
<1>6. StandingInv
  BY <1>3, <1>4 DEF StandingInv
<1>7. FreeInv
  <2>1. \A s \in Serials : obj[s].at = "none" => Snapshot[s] = 0
    BY SnapshotOf DEF Written
  <2> QED
    BY <1>4, <2>1 DEF FreeInv
<1> QED
  BY <1>1, <1>3, <1>5, <1>6, <1>7
     DEF DiskInv, ReadInv, WriteInv, CommitInv, RetireInv, SaverInv, QuietInv

LEMMA StutterDisk == ASSUME DiskInv, UNCHANGED vars PROVE DiskInv'
<1>1. UNCHANGED << obj, guilds, dirty_deleted, clean_deleted, incremental_save_count, main, saver,
                   pending, txt, ndt, incr, saves >>
  BY DEF vars, world, counts, full, incrs
<1>2. /\ Base' = Base /\ Standing' = Standing /\ LastSave' = LastSave /\ save_index' = save_index
      /\ (Readable' <=> Readable) /\ data_ndt' = data_ndt /\ write_index' = write_index
      /\ CommitData' = CommitData /\ CommitIndex' = CommitIndex /\ Snapshot' = Snapshot
  BY <1>1 DEF Base, Standing, LastSave, save_index, Readable, data_ndt, write_index, CommitData,
              CommitIndex, Snapshot, Written
<1>3. FilesInv'
  BY <1>1, <1>2 DEF DiskInv, ReadInv, FilesInv, Has, Index
<1>4. StandingInv' /\ FreeInv'
  BY <1>1, <1>2 DEF DiskInv, ReadInv, StandingInv, FreeInv, OnDisk
<1>5. WriteInv' /\ CommitInv'
  BY <1>1, <1>2 DEF DiskInv, WriteInv, CommitInv, RightSave, LeftOut, OnDisk
<1>6. RetireInv' /\ SaverInv' /\ QuietInv'
  BY <1>1, <1>2 DEF DiskInv, RetireInv, SaverInv, QuietInv
<1> QED
  BY <1>3, <1>4, <1>5, <1>6 DEF DiskInv, ReadInv

(* What the files say, under every step. *)
SavesInv == TInv /\ CleanInv /\ (Tame => Tidy) /\ DiskInv

LEMMA SavesStart == Init => SavesInv
BY InitTypes, StartClean, InitTidy, InitDisk DEF SavesInv

LEMMA SavesStep ==
    ASSUME SavesTame, SavesInv, [Next]_vars
    PROVE  SavesInv'
<1>0. TInv /\ CleanInv /\ DiskInv /\ (Tame => Tidy)
  BY DEF SavesInv
<1>1. TInv' /\ CleanInv'
  BY <1>0, NextTypes, NextClean
<1>2. Tame => Tidy'
  BY <1>0, NextTidy
<1>3. DiskInv'
  <2>1. CASE UNCHANGED vars
    BY <1>0, <2>1, StutterDisk
  <2>2. CASE World \/ Saver
    BY <1>0, <2>2, WorldDisk, SaverDisk
  <2>3. CASE write_data \/ commit_incremental_saves \/ write_data_returns
    BY <1>0, <1>2, <2>3, FullDisk
  <2>4. CASE save_incremental \/ FinishWriting \/ FailWriting \/ commit_incremental
    BY <1>0, <2>4, StartDisk, FinishDisk, FailDisk, CommitDisk
  <2>5. ASSUME NEW s \in Serials, WriteObject(s) PROVE DiskInv'
    BY <1>0, <2>5, ObjectDisk
  <2>6. CASE Restart
    BY <1>0, <2>6, RestartDisk
  <2> QED
    BY <2>1, <2>2, <2>3, <2>4, <2>5, <2>6 DEF Next, Main
<1>4. (Tame => Tidy)'
  BY <1>2 DEF Tame
<1> QED
  BY <1>1, <1>3, <1>4 DEF SavesInv

(* Neither an exception in an incremental save nor a stop in the middle of one makes
   the next start give a world that never was: unless read_data() asks for
   intervention, every object is read once at most, and the world and the guilds are
   those of the last completed save or of a later one.  This is so without full saves
   (MaxFull = 0), or with them if no incremental save fails halfway and the server
   stops only where the next start notices it or no save is under way. *)
THEOREM RestartGivesSave == ASSUME SavesTame PROVE Spec => RestartsFromSave
<1>1. SavesInv /\ [Next]_vars => [starts' # starts => \/ Refused
                                                      \/ /\ Duplicated = {}
                                                         /\ \E i \in 1..Len(saves) : Loaded = saves[i].snap]_vars
  <2> SUFFICES ASSUME SavesInv, Next, starts' # starts, ~Refused
               PROVE  Duplicated = {} /\ \E i \in 1..Len(saves) : Loaded = saves[i].snap
    OBVIOUS
  <2>0. TInv /\ DiskInv
    BY DEF SavesInv
  <2>1. Restart
    BY DEF Next, World, Saver, Flush, CommitOld, CommitNew, Main, write_data, commit_incremental_saves,
           write_data_returns, save_incremental, WriteObject, FinishWriting, FailWriting, commit_incremental
  <2>2. Readable /\ saver = Idle
    BY <2>0, <2>1, LoadsReadable
  <2>3. /\ Duplicated = {}
        /\ \A s \in Serials : \A v : OnDisk(s, v) => Read(s) = v
    BY <2>0, <2>2, ReadsDisk DEF DiskInv, ReadInv
  <2>4. /\ txt[Guilds] = Standing.snap[Guilds]
        /\ \A s \in Serials : OnDisk(s, Standing.snap[s])
    BY <2>0, <2>2 DEF DiskInv, ReadInv, StandingInv, Base
  <2>5. ASSUME NEW k \in Keys PROVE Loaded[k] = Standing.snap[k]
    <3>1. CASE k = Guilds
      BY <2>4, <3>1 DEF Loaded
    <3>2. CASE k # Guilds
      <4>1. k \in Serials /\ Loaded[k] = Read(k)
        BY <3>2 DEF Keys, Loaded
      <4> QED
        BY <2>3, <2>4, <4>1
    <3> QED
      BY <3>1, <3>2
  <2>6. \E i \in 1..Len(saves) : Standing = saves[i]
    <3>1. saves \in Seq(SaveRecords) /\ saves # << >> /\ Len(saves) \in Nat
      BY <2>0, TypeParts, LenProperties DEF TInv, SavesTyped
    <3>2. CASE main.stage \in {"write", "commit"}
      <4>1. Len(saves) >= 2
        BY <2>0, <3>2 DEF TInv, IncrPending
      <4>2. Len(saves) - 1 \in 1..Len(saves)
        BY <3>1, <4>1
      <4> QED
        BY <3>2, <4>2 DEF Standing
    <3>3. CASE main.stage \notin {"write", "commit"}
      <4>1. Len(saves) \in 1..Len(saves)
        BY <3>1
      <4> QED
        BY <3>3, <4>1 DEF Standing, LastSave
    <3> QED
      BY <3>2, <3>3
  <2>7. Standing.snap \in Snapshots /\ Loaded \in Snapshots
    <3>1. saves \in Seq(SaveRecords) /\ TypeOK
      BY <2>0, TypeParts DEF TInv, SavesTyped
    <3>2. Standing \in SaveRecords
      BY <2>6, <3>1, ElementOfSeq
    <3> QED
      BY <3>1, <3>2, ReadType DEF SaveRecords
  <2>8. Loaded = Standing.snap
    BY <2>5, <2>7 DEF Snapshots
  <2> QED
    BY <2>3, <2>6, <2>8
<1> QED
  BY <1>1, SavesStart, SavesStep, PTL DEF Spec, RestartsFromSave

(* A new object never takes a serial under which the files still hold another one:
   under the same hypotheses, at every moment of every save, also while the
   asynchronous part of a full save replaces the data files, unless the next start
   would ask for intervention. *)
THEOREM FreeSerialsAreFree == ASSUME SavesTame PROVE Spec => NewObjectsGetFreeSerials
<1>1. SavesInv /\ [Next]_vars =>
         [\A s \in Serials : starts' = starts /\ obj[s].at = "none" /\ obj'[s].at = "live"
                                => Refused \/ Read(s) = 0]_vars
  <2> SUFFICES ASSUME SavesInv, Next, NEW s \in Serials, starts' = starts,
                      obj[s].at = "none", obj'[s].at = "live", ~Refused
               PROVE  Read(s) = 0
    OBVIOUS
  <2>0. TInv /\ DiskInv /\ FilesInv
    BY DEF SavesInv, DiskInv, ReadInv
  <2>1. obj \in [Serials -> Objects] /\ starts \in Nat
    BY <2>0, TypeParts, Bounds DEF TInv, ObjTyped, RunsTyped
  <2>2. ~Restart
    BY <2>1 DEF Restart
  <2>3. World
    <3>1. CASE Saver \/ commit_incremental_saves \/ write_data_returns \/ save_incremental
               \/ FinishWriting \/ FailWriting \/ commit_incremental
      BY <3>1 DEF Saver, Flush, CommitOld, CommitNew, commit_incremental_saves, write_data_returns,
                  save_incremental, FinishWriting, FailWriting, commit_incremental, world
    <3>2. CASE write_data
      <4>1. obj'[s] = Cleaned(s)
        BY <3>2 DEF write_data
      <4> QED
        BY <2>1, <4>1 DEF Cleaned, Written
    <3>3. ASSUME NEW t \in Serials, WriteObject(t) PROVE FALSE
      <4>1. obj' = obj \/ obj' = [obj EXCEPT ![t] = [@ EXCEPT !.dirty = FALSE]]
        BY <3>3 DEF WriteObject
      <4>2. obj[s] \in Objects
        BY <2>1
      <4> QED
        BY <2>1, <4>1, <4>2 DEF Objects
    <3> QED
      BY <2>2, <3>1, <3>2, <3>3 DEF Next, Main
  <2>4. Create(s)
    <3>1. ASSUME NEW t \in Serials, Create(t) \/ Change(t) \/ Carry(t) \/ destroy(t) \/ Reap(t), t # s
          PROVE  FALSE
      <4>1. obj'[s] = obj[s]
        BY <2>1, <3>1 DEF Create, Change, Carry, destroy, Reap
      <4> QED
        BY <4>1
    <3>2. ~ChangeGuilds
      BY DEF ChangeGuilds
    <3>3. ~(Change(s) \/ Carry(s) \/ destroy(s) \/ Reap(s))
      BY DEF Change, Carry, destroy, Reap
    <3> QED
      BY <2>3, <3>1, <3>2, <3>3 DEF World
  <2>5. Readable /\ OnDisk(s, 0)
    <3>1. main.stage = "play" /\ Unused(s)
      BY <2>4 DEF Create, Changing
    <3> QED
      BY <2>0, <3>1 DEF DiskInv, ReadInv, FreeInv, Readable, Unused
  <2>6. txt[s] = Base[s]
    <3>1. CASE saver = Idle
      BY <3>1 DEF Base
    <3>2. CASE saver # Idle
      <4> DEFINE n == Len(SaveFiles)
      <4>0. n \in Nat /\ saver.file \in 1..n
        BY <2>0, <3>2, FileCount DEF TInv, SaverAt
      <4>1. /\ ndt = { SaveFiles[j] : j \in saver.file..n }
            /\ \A k \in Keys, j \in 1..n : j < saver.file /\ HomeOf(k) = SaveFiles[j] => txt[k] = pending[k]
        BY <2>0, <2>5, <3>2 DEF DiskInv, SaverInv, Readable
      <4>2. PICK m \in 1..n : /\ SaveFiles[m] = "storage"
                              /\ \A j \in 1..n : HomeOf(s) = SaveFiles[j] => j <= m
        BY SaveOrder
      <4>3. m < saver.file
        <5>1. SaveFiles[m] \notin ndt
          BY <4>2 DEF Refused
        <5>2. m \notin saver.file..n
          BY <4>1, <5>1
        <5> QED
          BY <4>0, <5>2
      <4>4. s \in Keys
        BY DEF Keys
      <4>5. PICK j \in 1..n : HomeOf(s) = SaveFiles[j]
        BY <4>4, SaveOrder
      <4>6. j < saver.file
        <5>1. j <= m
          BY <4>2, <4>5
        <5> QED
          BY <4>0, <4>3, <5>1
      <4> QED
        BY <3>2, <4>1, <4>4, <4>5, <4>6 DEF Base
    <3> QED
      BY <3>1, <3>2
  <2>7. Says(incr, incremental_save_count, txt[s], s, 0)
    BY <2>5, <2>6 DEF OnDisk
  <2> QED
    BY <2>0, <2>5, <2>7, ReadIs
<1> QED
  BY <1>1, SavesStart, SavesStep, PTL DEF Spec, NewObjectsGetFreeSerials

(* Without full saves, and wherever incremental saves fail or are cut off: what is
   clean is saved, and at every step an index that a start would read has its data
   next to it, with just the objects that it names. *)
THEOREM SavesAreIndexed == ASSUME MaxFull = 0 PROVE Spec => []SavedAndIndexed
<1>1. SavesInv => SavedAndIndexed
  <2> SUFFICES ASSUME SavesInv PROVE SavedAndIndexed
    OBVIOUS
  <2>0. TInv /\ CleanInv /\ DiskInv /\ FilesInv
    BY DEF SavesInv, DiskInv, ReadInv
  <2>1. CleanIsSaved
    BY <2>0, CleanMeans
  <2>2. IndexNamesData
    <3>1. Readable /\ saver = Idle
      BY <2>0, TypeParts DEF TInv, DiskInv, QuietInv, Readable, Mains
    <3>2. IncrementalCount = incremental_save_count /\ incremental_save_count \in 0..MaxIncr
      BY <2>0, <3>1, ReadsDisk, TypeParts DEF TInv, CountsTyped
    <3>3. \A i \in 1..incremental_save_count : i \in 1..MaxIncr /\ i <= incremental_save_count
      BY <3>2, Bounds
    <3> QED
      BY <2>0, <3>1, <3>2, <3>3 DEF IndexNamesData, FilesInv, Existing, Has
  <2> QED
    BY <2>1, <2>2 DEF SavedAndIndexed
<1>2. SavesTame
  BY DEF SavesTame
<1> QED
  BY <1>1, <1>2, SavesStart, SavesStep, PTL DEF Spec
=============================================================================
