---------------------------- MODULE TransferProofs ----------------------------
(***************************************************************************)
(* What a finished upload is worth, for any number of runs, archives and   *)
(* tracks.                                                                 *)
(***************************************************************************)
EXTENDS Transfer, Integers, FiniteSetTheorems, SequenceTheorems, TLAPS

Phases == {"idle", "m4b", "m4b body", "mp3", "mp3 body", "tag", "ready", "upload", "cleanup", "done"}
Stages == {"none", "fields", "files", "trailer", "close", "gone"}

Tags    == {Untagged, Absent.tag} \union {buildTags(n, total) : n \in Nat, total \in Nat}
FileSet == [track : Nat, whole : BOOLEAN, tag : Tags]
SentSet == [name : Names, file : FileSet]

Types ==
    /\ setup \in Setups
    /\ packaged \in BOOLEAN
    /\ lost \in BOOLEAN
    /\ phase \in [Procs -> Phases]
    /\ pos \in [Procs -> Nat]
    /\ files \in [Procs -> Seq(Names)]
    /\ made \subseteq (Homes \X {"m4b", "mp3"})
    /\ disk \in [Homes -> [Names -> FileSet]]
    /\ writer \in [Procs -> [at : Stages, i : Nat, firstErr : {"nil", "set"}]]
    /\ pipe \in [Procs -> {"open", "eof", "error"}]
    /\ conn \in [Procs -> {"off", "open", "closed"}]
    /\ sent \in [Procs -> Seq(SentSet)]
    /\ ended \in [Procs -> BOOLEAN]

(* The entry or the file a process is at is one of those there are.        *)
Cursor(p) ==
    /\ phase[p] \in {"mp3", "mp3 body"} => pos[p] # 0
    /\ phase[p] = "mp3 body" => pos[p] \in Tracked
    /\ phase[p] = "tag" => pos[p] \in DOMAIN files[p]
    /\ writer[p].at = "files" => writer[p].i # 0

(* How far the body has come, as long as the goroutine met no error.       *)
Body(p) ==
    /\ phase[p] \notin {"upload", "cleanup", "done"} => writer[p].at = "none"
    /\ writer[p].at \in {"none", "fields"} => sent[p] = <<>>
    /\ writer[p].at = "files" => writer[p].i <= Len(files[p]) + 1 /\ Len(sent[p]) = writer[p].i - 1
    /\ \A k \in 1 .. Len(sent[p]) : k <= Len(files[p]) /\ sent[p][k].name = files[p][k]
    /\ writer[p].at \in {"trailer", "close", "gone"} /\ writer[p].firstErr = "nil" => Len(sent[p]) = Len(files[p])
    /\ writer[p].at \in {"close", "gone"} /\ writer[p].firstErr = "nil" => ended[p] = TRUE
    /\ writer[p].at # "gone" => pipe[p] = "open"
    /\ pipe[p] = "eof" => writer[p].firstErr = "nil"

IInv == Types /\ \A p \in Procs : Cursor(p) /\ Body(p)

-------------------------------------------------------------------------------
(* Constants and helpers.                                                  *)

LEMMA TrackedEntries ==
    /\ IsFiniteSet(Names) /\ 0 \in Names
    /\ \A i \in Tracked : /\ i \in 1 .. Len(Entries)
                          /\ Entries[i].name \in Names \ {0}
                          /\ Entries[i].track \in Nat
<1>1. IsFiniteSet(DOMAIN Entries) /\ DOMAIN Entries = 1 .. Len(Entries) /\ Len(Entries) \in Nat
  BY EntriesAreEntries, LenProperties, FS_Interval
<1>2. IsFiniteSet(Tracked)
  BY <1>1, FS_Subset DEF Tracked
<1>3. IsFiniteSet({Entries[i].name : i \in Tracked})
  <2> DEFINE T == {Entries[i].name : i \in Tracked}
             f == [i \in Tracked |-> Entries[i].name]
  <2>1. f \in Surjection(Tracked, T)
    BY DEF Surjection
  <2> QED BY <2>1, <1>2, FS_Surjection
<1>4. IsFiniteSet(Names) /\ 0 \in Names
  BY <1>3, FS_Singleton, FS_Union DEF Names
<1>5. ASSUME NEW i \in Tracked
      PROVE  i \in 1 .. Len(Entries) /\ Entries[i].name \in Names \ {0} /\ Entries[i].track \in Nat
  <2>1. i \in 1 .. Len(Entries)
    BY <1>1 DEF Tracked
  <2>2. Entries[i] \in [name : Nat \ {0}, track : Nat \ {0}, mp3 : BOOLEAN]
    BY <2>1, EntriesAreEntries, ElementOfSeq
  <2> QED BY <2>1, <2>2 DEF Names
<1> QED BY <1>4, <1>5

LEMMA HomeIsHome == ASSUME NEW p \in Procs PROVE Home(p) \in Homes
BY DEF Home, Homes

LEMMA FilesAreFiles ==
    /\ Absent \in FileSet
    /\ Empty \in [Names -> FileSet]
    /\ \A track \in Nat, whole \in BOOLEAN : File(track, whole, Untagged) \in FileSet
    /\ \A f \in FileSet, n, total \in Nat : File(f.track, f.whole, buildTags(n, total)) \in FileSet
<1>1. Absent \in FileSet
  BY DEF Absent, File, FileSet, Tags
<1>2. \A track \in Nat, whole \in BOOLEAN : File(track, whole, Untagged) \in FileSet
  BY DEF File, FileSet, Tags
<1>3. ASSUME NEW f \in FileSet, NEW n \in Nat, NEW total \in Nat
      PROVE  File(f.track, f.whole, buildTags(n, total)) \in FileSet
  <2>1. buildTags(n, total) \in Tags
    BY DEF Tags
  <2> HIDE DEF buildTags, Tags
  <2> QED BY <2>1 DEF FileSet, File
<1> QED BY <1>1, <1>2, <1>3 DEF Empty

LEMMA ListedAreNames ==
    ASSUME Types, NEW h \in Homes, Mp3s(h) # {}, NEW s \in listMP3s(h)
    PROVE  /\ s \in Seq(Names) /\ 1 \in DOMAIN s
           /\ \A i \in DOMAIN s : s[i] \in Mp3s(h)
           /\ \A n \in Mp3s(h) : \E i \in DOMAIN s : s[i] = n
<1>1. IsFiniteSet(Mp3s(h)) /\ Mp3s(h) \subseteq Names
  BY TrackedEntries, FS_Subset DEF Mp3s
<1>2. Cardinality(Mp3s(h)) \in Nat /\ Cardinality(Mp3s(h)) # 0
  BY <1>1, FS_CardinalityType, FS_EmptySet
<1>3. s \in [1 .. Cardinality(Mp3s(h)) -> Mp3s(h)]
  BY DEF listMP3s
<1>4. s \in Seq(Names)
  BY <1>1, <1>2, <1>3, SeqDef
<1>5. 1 \in DOMAIN s
  BY <1>2, <1>3
<1> QED BY <1>3, <1>4, <1>5 DEF listMP3s

-------------------------------------------------------------------------------
(* A step is one of the runs' or the arrival of an M4B.                    *)

StepOf(q) ==
    \/ Begin(q) \/ Stage(q) \/ Fail(q) \/ UploadItem(q) \/ Writer(q)
    \/ Accept(q) \/ BodyFails(q) \/ Refuse(q) \/ RemoveAll(q) \/ Exit(q) \/ Kill(q)

(* A run's step moves no other run.                                        *)
OnlyMoves(q) ==
    \A p \in Procs \ {q} :
        /\ phase'[p] = phase[p] /\ pos'[p] = pos[p] /\ files'[p] = files[p]
        /\ writer'[p] = writer[p] /\ pipe'[p] = pipe[p] /\ conn'[p] = conn[p]
        /\ sent'[p] = sent[p] /\ ended'[p] = ended[p]

LEMMA Frame ==
    ASSUME Types, NEW p \in Procs, Cursor(p), Body(p),
           phase'[p] = phase[p], pos'[p] = pos[p], files'[p] = files[p], writer'[p] = writer[p],
           pipe'[p] = pipe[p], sent'[p] = sent[p], ended'[p] = ended[p]
    PROVE  Cursor(p)' /\ Body(p)'
<1>1. Cursor(p)'
  BY DEF Cursor
<1>2. Body(p)'
  BY DEF Body
<1> QED BY <1>1, <1>2

LEMMA StagingMoves ==
    ASSUME Types, NEW q \in Procs,
           Begin(q) \/ Stage(q) \/ Fail(q) \/ RemoveAll(q) \/ Exit(q) \/ Kill(q)
    PROVE  OnlyMoves(q)
<1>1. CASE Begin(q)
  BY <1>1 DEF Types, OnlyMoves, Begin, Goto, request
<1>2. CASE Fail(q)
  BY <1>2 DEF Types, OnlyMoves, Fail, Goto, request
<1>3. CASE RemoveAll(q)
  BY <1>3 DEF Types, OnlyMoves, RemoveAll, Goto, request
<1>4. CASE Exit(q) \/ Kill(q)
  BY <1>4 DEF Types, OnlyMoves, Exit, Kill, Ends, Goto
<1>5. CASE CreateM4B(q) \/ CreateEntry(q)
  BY <1>5 DEF Types, OnlyMoves, CreateM4B, CreateEntry, Create, Goto, request
<1>6. CASE FillM4B(q) \/ FillEntry(q)
  BY <1>6 DEF Types, OnlyMoves, FillM4B, FillEntry, Goto, request
<1>7. CASE List(q)
  BY <1>7 DEF Types, OnlyMoves, List, Goto, request
<1>8. CASE SkipEntry(q) \/ WriteTags(q)
  BY <1>8 DEF Types, OnlyMoves, SkipEntry, WriteTags, Goto, request
<1> QED BY <1>1, <1>2, <1>3, <1>4, <1>5, <1>6, <1>7, <1>8 DEF Stage

LEMMA UploadMoves ==
    ASSUME Types, NEW q \in Procs,
           UploadItem(q) \/ Writer(q) \/ Accept(q) \/ BodyFails(q) \/ Refuse(q)
    PROVE  OnlyMoves(q)
<1>1. CASE UploadItem(q)
  BY <1>1 DEF Types, OnlyMoves, UploadItem, Goto
<1>2. CASE WriteFields(q) \/ NoMoreFiles(q) \/ FileFails(q)
  BY <1>2 DEF Types, OnlyMoves, WriteFields, NoMoreFiles, FileFails, Write, StagedIs
<1>3. CASE WriteFile(q)
  BY <1>3 DEF Types, OnlyMoves, WriteFile, Write, StagedIs
<1>4. CASE WriteTrailer(q) \/ CloseWithError(q)
  BY <1>4 DEF Types, OnlyMoves, WriteTrailer, CloseWithError, Write, StagedIs
<1>5. CASE Accept(q) \/ BodyFails(q) \/ Refuse(q)
  BY <1>5 DEF Types, OnlyMoves, Accept, BodyFails, Refuse, Hangup, Goto
<1> QED BY <1>1, <1>2, <1>3, <1>4, <1>5 DEF Writer

-------------------------------------------------------------------------------
(* Types.                                                                  *)

LEMMA Advanced ==
    ASSUME Types, NEW q \in Procs, pos' = [pos EXCEPT ![q] = @ + 1]
    PROVE  pos' \in [Procs -> Nat]
<1>1. pos[q] + 1 \in Nat
  BY DEF Types
<1> QED BY <1>1 DEF Types

LEMMA Written ==
    ASSUME Types, NEW q \in Procs, NEW at \in Stages, NEW i \in Nat, NEW fails \in BOOLEAN, Write(q, at, i, fails)
    PROVE  /\ writer' \in [Procs -> [at : Stages, i : Nat, firstErr : {"nil", "set"}]]
           /\ writer'[q].at = at /\ writer'[q].i = i
           /\ fails => writer'[q].firstErr = "set"
           /\ ~ fails => writer'[q].firstErr = writer[q].firstErr
<1> DEFINE e == IF fails THEN "set" ELSE writer[q].firstErr
<1>1. e \in {"nil", "set"}
  BY DEF Types
<1>2. writer' = [writer EXCEPT ![q] = [at |-> at, i |-> i, firstErr |-> e]]
  BY DEF Write
<1>3. writer'[q] = [at |-> at, i |-> i, firstErr |-> e]
  BY <1>2 DEF Types
<1> HIDE DEF e
<1>4. writer' \in [Procs -> [at : Stages, i : Nat, firstErr : {"nil", "set"}]]
  BY <1>1, <1>2 DEF Types
<1> QED BY <1>3, <1>4 DEF e

LEMMA StagingTypes ==
    ASSUME IInv, NEW q \in Procs,
           Begin(q) \/ Stage(q) \/ Fail(q) \/ RemoveAll(q) \/ Exit(q) \/ Kill(q)
    PROVE  Types'
<1>0. Types /\ Cursor(q) /\ Home(q) \in Homes
  BY HomeIsHome DEF IInv
<1>a. <<>> \in Seq(Names) /\ <<>> \in Seq(SentSet) /\ <<0>> \in Seq(Names)
  BY TrackedEntries, SMT
<1>1. CASE Begin(q)
  <2>1. disk' \in [Homes -> [Names -> FileSet]]
    BY <1>0, <1>1, FilesAreFiles DEF Types, Begin, Homes
  <2>2. made' \subseteq (Homes \X {"m4b", "mp3"})
    <3> DEFINE format == IF packaged THEN "m4b" ELSE "mp3"
    <3>1. Dir(q, format) \in Homes \X {"m4b", "mp3"}
      BY <1>0 DEF Dir
    <3>2. made' \subseteq made \union {Dir(q, format)}
      BY <1>1 DEF Begin
    <3> QED BY <1>0, <3>1, <3>2 DEF Types
  <2> QED BY <1>0, <1>1, <2>1, <2>2 DEF Types, Begin, Goto, request, Phases
<1>2. CASE Fail(q)
  BY <1>0, <1>2 DEF Types, Fail, Goto, request, Phases
<1>3. CASE RemoveAll(q)
  BY <1>0, <1>3, FilesAreFiles DEF Types, RemoveAll, Goto, request, Phases
<1>4. CASE Exit(q) \/ Kill(q)
  <2>1. Ends(q)
    BY <1>4 DEF Exit, Kill
  <2>2. NoWriter \in [at : Stages, i : Nat, firstErr : {"nil", "set"}]
    BY DEF NoWriter, Stages
  <2> QED BY <1>0, <1>a, <2>1, <2>2 DEF Types, Ends, Goto, Phases
<1>5. CASE CreateM4B(q) \/ CreateEntry(q)
  <2>1. PICK format \in {"m4b", "mp3"}, n \in Names, track \in Nat : Create(q, format, n, track)
    <3>1. CASE CreateM4B(q)
      BY <3>1, TrackedEntries DEF CreateM4B
    <3>2. CASE CreateEntry(q)
      <4>1. pos[q] \in Tracked
        BY <3>2, <1>0, EntriesAreEntries, LenProperties DEF CreateEntry, AtEntry, At, Cursor, Entry, Types, Tracked
      <4> QED BY <4>1, <3>2, TrackedEntries DEF CreateEntry, Entry
    <3> QED BY <1>5, <3>1, <3>2
  <2>2. disk' \in [Homes -> [Names -> FileSet]]
    BY <1>0, <2>1, FilesAreFiles DEF Types, Create, Store
  <2> QED BY <1>0, <2>1, <2>2 DEF Types, Create, Goto, request, Phases
<1>6. CASE FillM4B(q) \/ FillEntry(q)
  <2>1. PICK n \in Names, track \in Nat : Fill(q, n, track)
    <3>1. CASE FillM4B(q)
      BY <3>1, TrackedEntries DEF FillM4B
    <3>2. CASE FillEntry(q)
      BY <3>2, <1>0, TrackedEntries DEF FillEntry, Entry, Cursor, At
    <3> QED BY <1>6, <3>1, <3>2
  <2>2. disk' \in [Homes -> [Names -> FileSet]]
    BY <1>0, <2>1, FilesAreFiles DEF Types, Fill
  <2>3. pos' \in [Procs -> Nat]
    BY <1>0, <1>6, Advanced DEF Types, FillM4B, FillEntry
  <2>4. files' \in [Procs -> Seq(Names)]
    BY <1>0, <1>6, <1>a DEF Types, FillM4B, FillEntry
  <2>5. phase' \in [Procs -> Phases]
    BY <1>0, <1>6 DEF Types, FillM4B, FillEntry, Goto, Phases
  <2> QED BY <1>0, <1>6, <2>2, <2>3, <2>4, <2>5 DEF Types, FillM4B, FillEntry, request
<1>7. CASE List(q)
  <2>1. PICK s \in listMP3s(Home(q)) : files' = [files EXCEPT ![q] = s]
    BY <1>7 DEF List
  <2>2. s \in Seq(Names)
    BY <1>0, <1>7, <2>1, ListedAreNames DEF List
  <2> QED BY <1>0, <1>7, <2>1, <2>2 DEF Types, List, Goto, request, Phases
<1>8. CASE SkipEntry(q)
  <2>1. pos' \in [Procs -> Nat]
    BY <1>0, <1>8, Advanced DEF SkipEntry
  <2> QED BY <1>0, <1>8, <2>1 DEF Types, SkipEntry, request
<1>9. CASE WriteTags(q)
  <2> DEFINE n == files[q][pos[q]]
  <2>1. n \in Names
    BY <1>0, <1>9, ElementOfSeq, LenProperties DEF WriteTags, At, Cursor, Types
  <2>2. Tagged(q) \in FileSet
    <3>1. disk[Home(q)][n] \in FileSet /\ pos[q] \in Nat /\ Len(files[q]) \in Nat
      BY <1>0, <2>1, LenProperties DEF Types
    <3> QED BY <3>1, FilesAreFiles DEF Tagged
  <2>3. disk' \in [Homes -> [Names -> FileSet]]
    BY <1>0, <1>9, <2>1, <2>2 DEF Types, WriteTags, Store
  <2>4. pos' \in [Procs -> Nat]
    BY <1>0, <1>9, Advanced DEF Types, WriteTags
  <2>5. phase' \in [Procs -> Phases]
    BY <1>0, <1>9 DEF Types, WriteTags, Goto, Phases
  <2> QED BY <1>0, <1>9, <2>3, <2>4, <2>5 DEF Types, WriteTags, request
<1> QED BY <1>1, <1>2, <1>3, <1>4, <1>5, <1>6, <1>7, <1>8, <1>9 DEF Stage

LEMMA UploadTypes ==
    ASSUME IInv, NEW q \in Procs,
           UploadItem(q) \/ Writer(q) \/ Accept(q) \/ BodyFails(q) \/ Refuse(q)
    PROVE  Types'
<1> HIDE DEF FileSet, Names
<1>0. Types /\ Cursor(q) /\ Home(q) \in Homes
  BY HomeIsHome DEF IInv
<1>1. CASE UploadItem(q)
  BY <1>0, <1>1 DEF Types, UploadItem, Goto, Phases, Stages
<1>w. writer[q].i \in Nat /\ Broken(q) \in BOOLEAN /\ Len(files[q]) \in Nat
  BY <1>0, LenProperties DEF Types, Broken
<1>2. CASE WriteFields(q) \/ NoMoreFiles(q) \/ FileFails(q)
  <2>1. \E at \in Stages, i \in Nat, fails \in BOOLEAN : Write(q, at, i, fails)
    BY <1>w, <1>2 DEF WriteFields, NoMoreFiles, FileFails, Stages
  <2>2. writer' \in [Procs -> [at : Stages, i : Nat, firstErr : {"nil", "set"}]]
    BY <1>0, <2>1, Written
  <2> QED BY <1>0, <1>2, <2>2 DEF Types, WriteFields, NoMoreFiles, FileFails, StagedIs
<1>3. CASE WriteFile(q)
  <2>1. files[q][writer[q].i] \in Names
    <3>1. writer[q].at = "files" /\ writer[q].i <= Len(files[q])
      BY <1>3, Zenon DEF WriteFile
    <3>2. writer[q].i \in 1 .. Len(files[q])
      <4>1. writer[q].i # 0
        BY <1>0, <3>1, Zenon DEF Cursor
      <4>2. writer[q].i \in Nat /\ Len(files[q]) \in Nat
        BY <1>w
      <4> QED BY <3>1, <4>1, <4>2, SMT
    <3> QED BY <1>0, <3>2, ElementOfSeq DEF Types
  <2>2. NextFile(q) \in SentSet
    BY <1>0, <2>1 DEF NextFile, SentSet, Types
  <2>3. Append(sent[q], NextFile(q)) \in Seq(SentSet)
    BY <1>0, <2>2, AppendProperties DEF Types
  <2>4. Write(q, "files", writer[q].i + 1, FALSE)
    BY <1>3, Zenon DEF WriteFile
  <2>a. writer[q].i + 1 \in Nat
    BY <1>w
  <2>5. writer' \in [Procs -> [at : Stages, i : Nat, firstErr : {"nil", "set"}]]
    BY <1>0, <2>4, <2>a, Written DEF Stages
  <2>6. sent' \in [Procs -> Seq(SentSet)]
    BY <1>0, <1>3, <2>3 DEF Types, WriteFile
  <2> QED BY <1>0, <1>3, <2>5, <2>6 DEF Types, WriteFile, StagedIs
<1>4. CASE WriteTrailer(q) \/ CloseWithError(q)
  <2>1. \E at \in Stages, i \in Nat, fails \in BOOLEAN : Write(q, at, i, fails)
    BY <1>w, <1>4 DEF WriteTrailer, CloseWithError, Stages
  <2>2. writer' \in [Procs -> [at : Stages, i : Nat, firstErr : {"nil", "set"}]]
    BY <1>0, <2>1, Written
  <2>3. ended' \in [Procs -> BOOLEAN]
    BY <1>0, <1>4 DEF Types, WriteTrailer, CloseWithError
  <2>4. pipe' \in [Procs -> {"open", "eof", "error"}]
    BY <1>0, <1>4 DEF Types, WriteTrailer, CloseWithError
  <2> QED BY <1>0, <1>4, <2>2, <2>3, <2>4 DEF Types, WriteTrailer, CloseWithError, StagedIs
<1>5. CASE Accept(q) \/ BodyFails(q) \/ Refuse(q)
  BY <1>0, <1>5 DEF Types, Accept, BodyFails, Refuse, Hangup, Goto, Phases
<1> QED BY <1>1, <1>2, <1>3, <1>4, <1>5 DEF Writer

-------------------------------------------------------------------------------
(* The run that moves keeps its own part of the invariant.                 *)

LEMMA StagingOwn ==
    ASSUME IInv, NEW q \in Procs,
           Begin(q) \/ Stage(q) \/ Fail(q) \/ RemoveAll(q) \/ Exit(q) \/ Kill(q)
    PROVE  Cursor(q)' /\ Body(q)'
<1>0. Types /\ Cursor(q) /\ Body(q) /\ pos[q] \in Nat
  BY DEF IInv, Types
<1>n. phase[q] \notin {"upload", "cleanup", "done"} => writer[q].at = "none" /\ sent[q] = <<>> /\ pipe[q] = "open"
  BY <1>0 DEF Body
<1>m. ASSUME writer'[q].at = "none", sent'[q] = <<>>, pipe'[q] = "open"
      PROVE  Body(q)'
  <2>1. Len(sent'[q]) = 0
    BY <1>m, SMT
  <2>2. 1 .. Len(sent'[q]) = {}
    BY <2>1, SMT
  <2> QED BY <1>m, <2>2 DEF Body
<1>1. CASE Begin(q)
  <2>1. phase'[q] \in {"m4b", "mp3"} /\ phase[q] = "idle" /\ pos'[q] = 1
    BY <1>0, <1>1 DEF Types, Begin, Goto, At
  <2>2. UNCHANGED <<files, request>>
    BY <1>1 DEF Begin
  <2>3. Body(q)'
    BY <1>m, <1>n, <2>1, <2>2 DEF request
  <2>4. writer'[q].at = "none"
    BY <1>n, <2>1, <2>2 DEF request
  <2>5. pos'[q] # 0
    <3>1. pos'[q] = 1
      BY <2>1
    <3> QED BY <3>1, SMT
  <2> QED BY <2>1, <2>3, <2>4, <2>5, Zenon DEF Cursor
<1>2. CASE Fail(q) \/ RemoveAll(q)
  <2>1. phase'[q] \in {"cleanup", "done"} /\ UNCHANGED <<pos, files, request>>
    BY <1>0, <1>2 DEF Types, Fail, RemoveAll, Goto, At
  <2> QED BY <1>0, <2>1 DEF Cursor, Body, request
<1>3. CASE Exit(q) \/ Kill(q)
  <2>1. /\ phase'[q] = "idle" /\ writer'[q] = NoWriter /\ sent'[q] = <<>> /\ pipe'[q] = "open"
    BY <1>0, <1>3 DEF Types, Exit, Kill, Ends, Goto
  <2> QED BY <2>1, LenProperties DEF Cursor, Body, NoWriter
<1>4. CASE CreateM4B(q)
  <2>1. phase[q] = "m4b" /\ phase'[q] = "m4b body" /\ UNCHANGED <<pos, files, request>>
    BY <1>0, <1>4 DEF Types, CreateM4B, Create, Goto, At
  <2> QED BY <1>0, <2>1 DEF Cursor, Body, request
<1>5. CASE CreateEntry(q)
  <2>1. phase[q] = "mp3" /\ phase'[q] = "mp3 body" /\ UNCHANGED <<pos, files, request>>
    BY <1>0, <1>5 DEF Types, CreateEntry, Create, Goto, At
  <2>2. pos[q] \in Tracked
    BY <1>0, <1>5, EntriesAreEntries, LenProperties DEF CreateEntry, AtEntry, At, Cursor, Entry, Tracked
  <2> QED BY <1>0, <2>1, <2>2 DEF Cursor, Body, request
<1>6. CASE FillM4B(q)
  <2>1. phase[q] = "m4b body" /\ phase'[q] = "ready" /\ UNCHANGED request
    BY <1>0, <1>6 DEF Types, FillM4B, Goto, At
  <2>2. writer'[q].at = "none" /\ sent'[q] = <<>> /\ pipe'[q] = "open"
    BY <1>n, <2>1 DEF request
  <2> QED BY <1>m, <2>1, <2>2 DEF Cursor
<1>7. CASE FillEntry(q) \/ SkipEntry(q)
  <2>1. phase[q] \in {"mp3", "mp3 body"} /\ phase'[q] = "mp3" /\ pos'[q] = pos[q] + 1
    BY <1>0, <1>7 DEF Types, FillEntry, SkipEntry, AtEntry, Goto, At
  <2>2. UNCHANGED <<files, request>>
    BY <1>7 DEF FillEntry, SkipEntry
  <2>3. writer'[q].at = "none" /\ sent'[q] = <<>> /\ pipe'[q] = "open"
    BY <1>n, <2>1, <2>2 DEF request
  <2>4. pos'[q] # 0
    <3>1. pos[q] \in Nat /\ pos'[q] = pos[q] + 1
      BY <1>0, <2>1
    <3> QED BY <3>1, SMT
  <2> QED BY <1>m, <2>1, <2>3, <2>4 DEF Cursor
<1>8. CASE List(q)
  <2>1. PICK s \in listMP3s(Home(q)) : files' = [files EXCEPT ![q] = s]
    BY <1>8 DEF List
  <2>2. 1 \in DOMAIN s
    BY <1>0, <1>8, <2>1, ListedAreNames, HomeIsHome DEF List
  <2>3. phase[q] = "mp3" /\ phase'[q] = "tag" /\ pos'[q] = 1 /\ files'[q] = s /\ UNCHANGED request
    BY <1>0, <1>8, <2>1 DEF Types, List, Goto, At
  <2> QED BY <1>0, <2>2, <2>3, LenProperties DEF Cursor, Body, request
<1>9. CASE WriteTags(q)
  <2>1. phase[q] = "tag" /\ UNCHANGED <<files, request>>
    BY <1>9 DEF WriteTags, At
  <2>2. \/ pos[q] = Len(files[q]) /\ phase'[q] = "ready"
        \/ pos[q] # Len(files[q]) /\ pos'[q] = pos[q] + 1 /\ phase'[q] = "tag"
    BY <1>0, <1>9 DEF Types, WriteTags, Goto, At
  <2>3. files[q] \in Seq(Names) /\ pos[q] \in 1 .. Len(files[q]) /\ Len(files[q]) \in Nat
    BY <1>0, <2>1, LenProperties DEF Types, Cursor
  <2>4. pos[q] # Len(files[q]) => pos[q] + 1 \in DOMAIN files[q]
    BY <2>3, LenProperties
  <2> QED BY <1>0, <2>1, <2>2, <2>4 DEF Cursor, Body, request
<1> QED BY <1>1, <1>2, <1>3, <1>4, <1>5, <1>6, <1>7, <1>8, <1>9 DEF Stage

LEMMA UploadOwn ==
    ASSUME IInv, NEW q \in Procs,
           UploadItem(q) \/ Writer(q) \/ Accept(q) \/ BodyFails(q) \/ Refuse(q)
    PROVE  Cursor(q)' /\ Body(q)'
<1>0. Types /\ Cursor(q) /\ Body(q)
  BY DEF IInv
<1>1. CASE UploadItem(q)
  <2>1. /\ phase[q] = "ready" /\ phase'[q] = "upload"
        /\ writer'[q] = [at |-> "fields", i |-> 1, firstErr |-> "nil"]
        /\ UNCHANGED <<pos, files, sent, pipe>>
    BY <1>0, <1>1 DEF Types, UploadItem, Goto, At
  <2>2. sent'[q] = <<>> /\ pipe'[q] = "open"
    BY <1>0, <2>1 DEF Body
  <2>3. 1 .. Len(sent'[q]) = {}
    <3>1. Len(sent'[q]) = 0
      BY <2>2, SMT
    <3> QED BY <3>1, SMT
  <2> QED BY <2>1, <2>2, <2>3 DEF Cursor, Body
<1>2. CASE Accept(q) \/ BodyFails(q) \/ Refuse(q)
  <2>1. phase'[q] = "cleanup" /\ UNCHANGED <<pos, files, writer, pipe, sent, ended>>
    BY <1>0, <1>2 DEF Types, Accept, BodyFails, Refuse, Hangup, Goto
  <2>2. phase[q] = "upload"
    BY <1>2 DEF Accept, BodyFails, Refuse, At
  <2> QED BY <1>0, <2>1, <2>2 DEF Cursor, Body
<1>3. CASE Writer(q)
  <2>0. UNCHANGED <<phase, pos, files>> /\ writer[q].at # "none"
    BY <1>3 DEF Writer, WriteFields, WriteFile, FileFails, NoMoreFiles, WriteTrailer, CloseWithError, StagedIs
  <2>a. writer[q].i \in Nat /\ Len(files[q]) \in Nat /\ Len(sent[q]) \in Nat /\ sent[q] \in Seq(SentSet)
    BY <1>0, LenProperties DEF Types
  <2>b. phase'[q] \in {"upload", "cleanup", "done"}
    BY <1>0, <2>0 DEF Body
  <2>c. /\ Cursor(q)' <=> (writer'[q].at = "files" => writer'[q].i # 0)
    BY <2>b DEF Cursor
  <2>1. CASE WriteFields(q)
    <3>1. writer[q].at = "fields" /\ Write(q, "files", 1, Broken(q)) /\ UNCHANGED <<sent, pipe>>
      BY <2>1, Zenon DEF WriteFields
    <3>2. writer'[q].at = "files" /\ writer'[q].i = 1
      BY <1>0, <3>1, Written DEF Broken, Stages
    <3>3. sent[q] = <<>> /\ pipe[q] = "open"
      BY <1>0, <3>1 DEF Body
    <3>4. Len(sent'[q]) = 0 /\ 1 .. Len(sent'[q]) = {} /\ writer'[q].i <= Len(files'[q]) + 1 /\ writer'[q].i # 0
      <4>1. Len(sent'[q]) = 0
        BY <3>1, <3>3, SMT
      <4>2. Len(files'[q]) \in Nat
        BY <2>0, <2>a
      <4> QED BY <3>2, <4>1, <4>2, SMT
    <3>5. writer'[q].i - 1 = 0
      BY <3>2, SMT
    <3> QED BY <2>b, <2>c, <3>1, <3>2, <3>3, <3>4, <3>5 DEF Body
  <2>2. CASE WriteFile(q)
    <3>1. writer[q].at = "files" /\ writer[q].i <= Len(files[q]) /\ Write(q, "files", writer[q].i + 1, FALSE) /\ UNCHANGED pipe
      BY <2>2, Zenon DEF WriteFile
    <3>2. writer'[q].at = "files" /\ writer'[q].i = writer[q].i + 1
      <4>1. writer[q].i + 1 \in Nat
        BY <2>a
      <4> QED BY <1>0, <3>1, <4>1, Written DEF Stages
    <3>3. sent'[q] = Append(sent[q], NextFile(q))
      BY <1>0, <2>2 DEF Types, WriteFile
    <3>4. pipe[q] = "open" /\ Len(sent[q]) = writer[q].i - 1 /\ writer[q].i # 0
      BY <1>0, <3>1 DEF Body, Cursor
    <3>5. NextFile(q) \in SentSet
      <4>1. writer[q].i \in 1 .. Len(files[q])
        BY <2>a, <3>1, <3>4
      <4>2. files[q][writer[q].i] \in Names
        BY <1>0, <4>1, ElementOfSeq DEF Types
      <4> HIDE DEF Names, FileSet
      <4> QED BY <1>0, <4>2, HomeIsHome DEF NextFile, SentSet, Types
    <3>6. /\ Len(sent'[q]) = Len(sent[q]) + 1
          /\ \A k \in 1 .. Len(sent[q]) : sent'[q][k] = sent[q][k]
          /\ sent'[q][Len(sent[q]) + 1] = NextFile(q)
      <4> HIDE DEF SentSet, NextFile
      <4> QED BY <2>a, <3>3, <3>5, AppendProperties
    <3>7. ASSUME NEW k \in 1 .. Len(sent'[q])
          PROVE  k <= Len(files'[q]) /\ sent'[q][k].name = files'[q][k]
      <4>1. CASE k \in 1 .. Len(sent[q])
        BY <1>0, <2>0, <3>6, <4>1 DEF Body
      <4>2. CASE k = writer[q].i
        <5>1. Len(sent[q]) + 1 = writer[q].i
          BY <2>a, <3>4
        <5>2. sent'[q][k] = NextFile(q)
          BY <3>6, <4>2, <5>1
        <5> QED BY <2>0, <3>1, <4>2, <5>2 DEF NextFile
      <4>3. k \in 1 .. Len(sent[q]) \/ k = writer[q].i
        BY <2>a, <3>4, <3>6
      <4> QED BY <4>1, <4>2, <4>3
    <3>8. Len(sent'[q]) = writer'[q].i - 1 /\ writer'[q].i <= Len(files'[q]) + 1 /\ writer'[q].i # 0
      <4>1. Len(sent'[q]) = writer[q].i /\ writer'[q].i = writer[q].i + 1 /\ Len(files'[q]) = Len(files[q])
        BY <2>0, <2>a, <3>2, <3>4, <3>6
      <4> QED BY <2>a, <3>1, <4>1, SMT
    <3>9. pipe'[q] = "open"
      BY <3>1, <3>4
    <3> QED BY <2>b, <2>c, <3>2, <3>7, <3>8, <3>9 DEF Body
  <2>3. CASE FileFails(q) \/ NoMoreFiles(q)
    <3>1. writer[q].at = "files" /\ UNCHANGED <<sent, pipe>>
      BY <2>3, Zenon DEF FileFails, NoMoreFiles
    <3>2. pipe[q] = "open" /\ Len(sent[q]) = writer[q].i - 1 /\ writer[q].i # 0 /\ writer[q].i <= Len(files[q]) + 1
      BY <1>0, <3>1 DEF Body, Cursor
    <3>3. writer'[q].at = "trailer" /\ (writer'[q].firstErr = "nil" => writer[q].i > Len(files[q]))
      <4>1. CASE FileFails(q)
        <5>1. Write(q, "trailer", writer[q].i, TRUE)
          BY <4>1, Zenon DEF FileFails
        <5> QED BY <1>0, <2>a, <5>1, Written DEF Stages
      <4>2. CASE NoMoreFiles(q)
        <5>1. Write(q, "trailer", writer[q].i, FALSE) /\ writer[q].i > Len(files[q])
          BY <4>2, Zenon DEF NoMoreFiles
        <5> QED BY <1>0, <2>a, <5>1, Written DEF Stages
      <4> QED BY <2>3, <4>1, <4>2
    <3>4. writer'[q].firstErr = "nil" => Len(sent'[q]) = Len(files'[q])
      <4> SUFFICES ASSUME writer'[q].firstErr = "nil" PROVE Len(sent'[q]) = Len(files'[q])
        OBVIOUS
      <4>1. writer[q].i > Len(files[q])
        BY <3>3
      <4>2. Len(sent[q]) = Len(files[q])
        BY <2>a, <3>2, <4>1
      <4> QED BY <2>0, <3>1, <4>2
    <3>5. \A k \in 1 .. Len(sent'[q]) : k <= Len(files'[q]) /\ sent'[q][k].name = files'[q][k]
      BY <1>0, <2>0, <3>1 DEF Body
    <3> QED BY <2>b, <2>c, <3>1, <3>2, <3>3, <3>4, <3>5 DEF Body
  <2>4. CASE WriteTrailer(q)
    <3>1. writer[q].at = "trailer" /\ Write(q, "close", writer[q].i, Broken(q)) /\ UNCHANGED <<sent, pipe>>
      BY <2>4, Zenon DEF WriteTrailer
    <3>2. /\ writer'[q].at = "close"
          /\ Broken(q) => writer'[q].firstErr = "set"
          /\ ~ Broken(q) => writer'[q].firstErr = writer[q].firstErr
      BY <1>0, <2>a, <3>1, Written DEF Broken, Stages
    <3>3. ~ Broken(q) => ended'[q] = TRUE
      BY <1>0, <2>4 DEF Types, WriteTrailer
    <3>4. pipe[q] = "open" /\ (writer[q].firstErr = "nil" => Len(sent[q]) = Len(files[q]))
      BY <1>0, <3>1 DEF Body
    <3>5. \A k \in 1 .. Len(sent'[q]) : k <= Len(files'[q]) /\ sent'[q][k].name = files'[q][k]
      BY <1>0, <2>0, <3>1 DEF Body
    <3>6. writer'[q].firstErr = "nil" => ended'[q] = TRUE /\ Len(sent'[q]) = Len(files'[q])
      BY <2>0, <3>1, <3>2, <3>3, <3>4
    <3> QED BY <2>b, <2>c, <3>1, <3>2, <3>4, <3>5, <3>6 DEF Body
  <2>5. CASE CloseWithError(q)
    <3>1. writer[q].at = "close" /\ Write(q, "gone", writer[q].i, FALSE) /\ UNCHANGED <<sent, ended>>
      BY <2>5, Zenon DEF CloseWithError
    <3>2. writer'[q].at = "gone" /\ writer'[q].firstErr = writer[q].firstErr
      BY <1>0, <2>a, <3>1, Written DEF Stages
    <3>3. pipe'[q] = "eof" => writer[q].firstErr = "nil"
      BY <1>0, <2>5 DEF Types, CloseWithError
    <3>4. writer[q].firstErr = "nil" => Len(sent[q]) = Len(files[q]) /\ ended[q] = TRUE
      BY <1>0, <3>1 DEF Body
    <3>5. \A k \in 1 .. Len(sent'[q]) : k <= Len(files'[q]) /\ sent'[q][k].name = files'[q][k]
      BY <1>0, <2>0, <3>1 DEF Body
    <3> QED BY <2>0, <2>b, <2>c, <3>1, <3>2, <3>3, <3>4, <3>5 DEF Body
  <2> QED BY <1>3, <2>1, <2>2, <2>3, <2>4, <2>5 DEF Writer
<1> QED BY <1>1, <1>2, <1>3

LEMMA InitIInv == Init => IInv
<1> SUFFICES ASSUME Init PROVE IInv
  OBVIOUS
<1>a. <<>> \in Seq(Names) /\ <<>> \in Seq(SentSet) /\ Len(<<>>) = 0
  BY SMT
<1>1. Types
  <2>1. NoWriter \in [at : Stages, i : Nat, firstErr : {"nil", "set"}]
    BY DEF NoWriter, Stages
  <2>2. disk \in [Homes -> [Names -> FileSet]]
    BY FilesAreFiles DEF Init
  <2> QED BY <1>a, <2>1, <2>2 DEF Init, Types, Phases
<1>2. ASSUME NEW p \in Procs PROVE Cursor(p) /\ Body(p)
  <2>1. phase[p] = "idle" /\ writer[p].at = "none" /\ sent[p] = <<>> /\ pipe[p] = "open"
    BY DEF Init, NoWriter
  <2>2. 1 .. Len(sent[p]) = {}
    BY <1>a, <2>1, SMT
  <2> QED BY <2>1, <2>2 DEF Cursor, Body
<1> QED BY <1>1, <1>2 DEF IInv

LEMMA NextIInv == IInv /\ [Next]_vars => IInv'
<1> SUFFICES ASSUME IInv, [Next]_vars PROVE IInv'
  OBVIOUS
<1>1. ASSUME NEW q \in Procs, StepOf(q) PROVE IInv'
  <2>1. Types'
    BY <1>1, StagingTypes, UploadTypes DEF StepOf
  <2>2. Cursor(q)' /\ Body(q)'
    BY <1>1, StagingOwn, UploadOwn DEF StepOf
  <2>3. OnlyMoves(q)
    BY <1>1, StagingMoves, UploadMoves DEF StepOf, IInv
  <2>4. ASSUME NEW p \in Procs \ {q} PROVE Cursor(p)' /\ Body(p)'
    BY <2>3, Frame DEF OnlyMoves, IInv
  <2> QED BY <2>1, <2>2, <2>4 DEF IInv
<1>2. CASE Package
  <2>1. Types'
    BY <1>2 DEF Package, IInv, Types, request
  <2>2. UNCHANGED <<phase, pos, files, request>>
    BY <1>2 DEF Package
  <2>3. ASSUME NEW p \in Procs PROVE Cursor(p)' /\ Body(p)'
    BY <2>2, Frame DEF IInv, request
  <2> QED BY <2>1, <2>3 DEF IInv
<1>3. CASE UNCHANGED vars
  <2>1. Types'
    BY <1>3 DEF vars, IInv, Types
  <2>2. ASSUME NEW p \in Procs PROVE Cursor(p)' /\ Body(p)'
    BY <1>3, Frame DEF IInv, vars
  <2> QED BY <2>1, <2>2 DEF IInv
<1> QED BY <1>1, <1>2, <1>3 DEF Next, StepOf

LEMMA Invariance == Spec => []IInv
BY InitIInv, NextIInv, PTL DEF Spec

(* EndMeansAll, for however many runs and files: the error that ends the   *)
(* loop of UploadItem's goroutine always reaches the transport.            *)
THEOREM TheEndIsTheEnd == Spec => []EndMeansAll
<1>1. IInv => EndMeansAll
  <2> SUFFICES ASSUME IInv, NEW p \in Procs, pipe[p] = "eof"
               PROVE  ended[p] /\ [i \in DOMAIN sent[p] |-> sent[p][i].name] = files[p]
    BY DEF EndMeansAll
  <2>1. Body(p) /\ Types
    BY DEF IInv
  <2>2. writer[p].at = "gone" /\ writer[p].firstErr = "nil"
    BY <2>1 DEF Body
  <2>3. ended[p] = TRUE /\ Len(sent[p]) = Len(files[p])
    BY <2>1, <2>2 DEF Body
  <2>4. DOMAIN sent[p] = 1 .. Len(files[p]) /\ DOMAIN files[p] = 1 .. Len(files[p])
    BY <2>1, <2>3, LenProperties DEF Types
  <2>5. \A i \in DOMAIN sent[p] : sent[p][i].name = files[p][i]
    BY <2>1, <2>3, <2>4 DEF Body
  <2>6. files[p] = [i \in DOMAIN files[p] |-> files[p][i]]
    BY <2>1, <2>4, SeqDef DEF Types
  <2> QED BY <2>3, <2>4, <2>5, <2>6
<1> QED BY <1>1, Invariance, PTL

-------------------------------------------------------------------------------
(* What lies in the staging directory, as long as overlapping runs do not  *)
(* share one.                                                              *)

NotShared == "work dir, overlapping" \notin Setups

Alone ==
    setup = "work dir, one at a time" =>
        \A p, q \in Procs : p # q /\ phase[p] # "idle" => phase[q] = "idle"

Listed(f) == f = <<0>> \/ \A i \in Tracked : \E k \in DOMAIN f : f[k] = Entries[i].name

(* An entry passed is complete, except while one of the same name is being *)
(* filled; what is listed is complete, a leftover having been overwritten. *)
Lies(p) ==
    /\ phase[p] = "m4b body" => disk[Home(p)][0] # Absent
    /\ phase[p] = "mp3" => \A i \in Tracked : i < pos[p] => disk[Home(p)][Entries[i].name].whole = TRUE
    /\ phase[p] = "mp3 body" =>
          /\ disk[Home(p)][Entries[pos[p]].name] # Absent
          /\ \A i \in Tracked : i < pos[p] /\ Entries[i].name # Entries[pos[p]].name
                                    => disk[Home(p)][Entries[i].name].whole = TRUE
    /\ phase[p] \in {"tag", "ready", "upload"} =>
          /\ Listed(files[p])
          /\ \A k \in 1 .. Len(files[p]) : disk[Home(p)][files[p][k]].whole = TRUE
    /\ phase[p] = "done" => disk[Home(p)] = Empty /\ DirsOf(Home(p)) = {}

SentWhole(p) ==
    /\ phase[p] \in {"cleanup", "done"} /\ writer[p].at # "none" => conn[p] = "closed"
    /\ \A k \in 1 .. Len(sent[p]) : sent[p][k].file.whole = TRUE

(* Every accepted file is complete, and either it is the M4B or no track   *)
(* of the archives is missing: no upload is torn by a crash before it.     *)
NothingTorn ==
    \A u \in uploads :
        /\ \A k \in DOMAIN u : u[k].file.whole = TRUE
        /\ Listed([k \in DOMAIN u |-> u[k].name])

SInv == IInv /\ Alone /\ NothingTorn /\ \A p \in Procs : Lies(p) /\ SentWhole(p)

LEMMA StaysHome ==
    ASSUME IInv, NEW q \in Procs, StepOf(q)
    PROVE  /\ setup' = setup
           /\ \A h \in Homes \ {Home(q)} : disk'[h] = disk[h] /\ DirsOf(h)' = DirsOf(h)
<1>0. Types /\ Home(q) \in Homes
  BY HomeIsHome DEF IInv
<1>1. CASE Begin(q)
  <2>1. \A h \in Homes \ {Home(q)} : disk'[h] = disk[h]
    BY <1>0, <1>1 DEF Begin, Types, Home
  <2>2. ASSUME NEW h \in Homes \ {Home(q)} PROVE DirsOf(h)' = DirsOf(h)
    <3> DEFINE format == IF packaged THEN "m4b" ELSE "mp3"
    <3>1. made' = (IF setup = "temp dir" THEN made \ DirsOf(q) ELSE made)
                   \union {Dir(q, format)}
      BY <1>1 DEF Begin
    <3>2. Dir(q, format) \notin {h} \X {"m4b", "mp3"}
      BY <2>2 DEF Dir
    <3>3. setup = "temp dir" => ({q} \X {"m4b", "mp3"}) \intersect ({h} \X {"m4b", "mp3"}) = {}
      BY <2>2 DEF Home
    <3> QED BY <3>1, <3>2, <3>3 DEF DirsOf
  <2> QED BY <1>1, <2>1, <2>2 DEF Begin
<1>2. CASE RemoveAll(q)
  <2>1. \A h \in Homes \ {Home(q)} : disk'[h] = disk[h]
    BY <1>0, <1>2 DEF RemoveAll, Types
  <2>2. ASSUME NEW h \in Homes \ {Home(q)} PROVE DirsOf(h)' = DirsOf(h)
    <3>1. made' = made \ DirsOf(Home(q))
      BY <1>2 DEF RemoveAll
    <3> QED BY <2>2, <3>1 DEF DirsOf
  <2> QED BY <1>2, <2>1, <2>2 DEF RemoveAll
<1>3. CASE CreateM4B(q) \/ CreateEntry(q) \/ WriteTags(q)
  <2>1. UNCHANGED <<setup, made>> /\ \E n, f : disk' = [disk EXCEPT ![Home(q)][n] = f]
    BY <1>3 DEF CreateM4B, CreateEntry, Create, WriteTags, Store
  <2>2. \A h \in Homes \ {Home(q)} : disk'[h] = disk[h]
    BY <1>0, <2>1 DEF Types
  <2> QED BY <2>1, <2>2 DEF DirsOf
<1>4. CASE FillM4B(q) \/ FillEntry(q)
  <2>1. UNCHANGED <<setup, made>> /\ \E n, track : Fill(q, n, track)
    BY <1>4 DEF FillM4B, FillEntry
  <2>2. \A h \in Homes \ {Home(q)} : disk'[h] = disk[h]
    BY <1>0, <2>1 DEF Types, Fill
  <2> QED BY <2>1, <2>2 DEF DirsOf
<1>5. CASE Fail(q) \/ List(q) \/ SkipEntry(q) \/ Exit(q) \/ Kill(q) \/ UploadItem(q)
  BY <1>5 DEF Fail, List, SkipEntry, Exit, Kill, Ends, UploadItem, DirsOf
<1>6. CASE Writer(q)
  BY <1>6 DEF Writer, WriteFields, WriteFile, FileFails, NoMoreFiles, WriteTrailer, CloseWithError, StagedIs, DirsOf
<1>7. CASE Accept(q) \/ BodyFails(q) \/ Refuse(q)
  BY <1>7 DEF Accept, BodyFails, Refuse, DirsOf
<1> QED BY <1>1, <1>2, <1>3, <1>4, <1>5, <1>6, <1>7 DEF StepOf, Stage

(* An idle run can only begin.                                             *)
LEMMA IdleBegins ==
    ASSUME IInv, NEW q \in Procs, StepOf(q), phase[q] = "idle"
    PROVE  Begin(q)
<1>1. writer[q].at = "none"
  BY DEF IInv, Body
<1>2. ~ Stage(q) /\ ~ Fail(q) /\ ~ RemoveAll(q)
  BY DEF Stage, CreateM4B, FillM4B, SkipEntry, CreateEntry, AtEntry, Create, FillEntry, List, WriteTags, At, Fail, RemoveAll
<1>3. ~ Exit(q) /\ ~ Kill(q) /\ ~ UploadItem(q) /\ ~ Accept(q) /\ ~ BodyFails(q) /\ ~ Refuse(q)
  BY DEF Exit, Kill, UploadItem, Accept, BodyFails, Refuse, At
<1>4. ~ Writer(q)
  BY <1>1 DEF Writer, WriteFields, WriteFile, FileFails, NoMoreFiles, WriteTrailer, CloseWithError
<1> QED BY <1>2, <1>3, <1>4 DEF StepOf

LEMMA Setting ==
    ASSUME NotShared, Types
    PROVE  setup = "temp dir" \/ setup = "work dir, one at a time"
BY SetupsAreSetups DEF NotShared, Types, AllSetups

LEMMA Apart ==
    ASSUME NotShared, SInv, NEW q \in Procs, StepOf(q), NEW p \in Procs \ {q}, phase[p] # "idle"
    PROVE  Home(p) # Home(q)
<1>1. CASE setup = "temp dir"
  BY <1>1 DEF Home
<1>2. CASE setup = "work dir, one at a time"
  <2>1. phase[q] = "idle"
    BY <1>2 DEF SInv, Alone
  <2>2. Begin(q)
    BY <2>1, IdleBegins DEF SInv
  <2>3. phase[p] = "idle"
    BY <1>2, <2>2 DEF Begin, At
  <2> QED BY <2>3
<1> QED BY <1>1, <1>2, Setting DEF SInv, IInv

(* So a step of one run leaves the others what they have.                  *)
LEMMA OthersKeep ==
    ASSUME NotShared, SInv, NEW q \in Procs, StepOf(q), NEW p \in Procs \ {q}
    PROVE  Lies(p)' /\ SentWhole(p)'
<1>0. IInv /\ Types /\ Lies(p) /\ SentWhole(p) /\ Home(p) \in Homes
  BY HomeIsHome DEF SInv, IInv
<1>1. /\ phase'[p] = phase[p] /\ pos'[p] = pos[p] /\ files'[p] = files[p]
      /\ writer'[p] = writer[p] /\ conn'[p] = conn[p] /\ sent'[p] = sent[p]
  BY <1>0, StagingMoves, UploadMoves DEF StepOf, OnlyMoves
<1>2. SentWhole(p)'
  BY <1>0, <1>1 DEF SentWhole
<1>3. CASE phase[p] = "idle"
  BY <1>1, <1>2, <1>3 DEF Lies
<1>4. CASE phase[p] # "idle"
  <2>1. Home(p) # Home(q)
    BY <1>4, Apart
  <2>2. setup' = setup /\ disk'[Home(p)] = disk[Home(p)] /\ DirsOf(Home(p))' = DirsOf(Home(p))
    BY <1>0, <2>1, StaysHome DEF Home
  <2>3. Home(p)' = Home(p)
    BY <2>2 DEF Home
  <2>4. Lies(p)'
    BY <1>0, <1>1, <2>2, <2>3 DEF Lies
  <2> QED BY <1>2, <2>4
<1> QED BY <1>3, <1>4

LEMMA AloneStep ==
    ASSUME NotShared, SInv, NEW q \in Procs, StepOf(q)
    PROVE  Alone'
<1>0. IInv /\ Types /\ setup' = setup
  BY StaysHome DEF SInv, IInv
<1>1. OnlyMoves(q)
  BY <1>0, StagingMoves, UploadMoves DEF StepOf
<1> SUFFICES ASSUME setup = "work dir, one at a time", NEW a \in Procs, NEW b \in Procs, a # b, phase'[a] # "idle"
             PROVE  phase'[b] = "idle"
  BY <1>0 DEF Alone
<1>2. CASE phase[q] = "idle"
  <2>1. Begin(q)
    BY <1>0, <1>2, IdleBegins
  <2>2. \A p \in Procs : phase[p] = "idle"
    BY <2>1 DEF Begin, At
  <2> QED BY <1>1, <2>2 DEF OnlyMoves
<1>3. CASE phase[q] # "idle"
  <2>1. \A p \in Procs \ {q} : phase[p] = "idle" /\ phase'[p] = "idle"
    BY <1>1, <1>3 DEF SInv, Alone, OnlyMoves
  <2> QED BY <2>1
<1> QED BY <1>2, <1>3

LEMMA PresentFiles ==
    /\ Absent.whole = FALSE
    /\ \A track, whole : File(track, whole, Untagged) # Absent
BY DEF File, Absent, Untagged

(* The directory of a run while it downloads.                              *)
LEMMA StagingLies ==
    ASSUME NotShared, SInv, NEW q \in Procs,
           Begin(q) \/ Stage(q) \/ Fail(q) \/ RemoveAll(q) \/ Exit(q) \/ Kill(q)
    PROVE  Lies(q)'
<1> DEFINE h == Home(q)
<1>0. IInv /\ Types /\ Cursor(q) /\ Lies(q) /\ h \in Homes /\ pos[q] \in Nat
  BY HomeIsHome DEF SInv, IInv, Types
<1>h. Home(q)' = h /\ setup' = setup
  BY <1>0, StaysHome DEF StepOf, Home
<1> HIDE DEF h
<1>1. CASE Begin(q)
  <2>1. phase'[q] \in {"m4b", "mp3"} /\ pos'[q] = 1
    BY <1>0, <1>1 DEF Types, Begin, Goto
  <2>2. \A i \in Tracked : ~(i < pos'[q])
    <3>1. \A i \in Tracked : i \in 1 .. Len(Entries)
      BY TrackedEntries
    <3>2. Len(Entries) \in Nat
      BY EntriesAreEntries, LenProperties
    <3> HIDE DEF Tracked
    <3> QED BY <2>1, <3>1, <3>2, SMT
  <2> QED BY <2>1, <2>2 DEF Lies
<1>2. CASE Fail(q)
  <2>1. phase'[q] = "cleanup"
    BY <1>0, <1>2 DEF Types, Fail, Goto
  <2> QED BY <2>1 DEF Lies
<1>3. CASE RemoveAll(q)
  <2>1. phase'[q] = "done" /\ disk'[h] = Empty
    BY <1>0, <1>3 DEF Types, RemoveAll, Goto, h
  <2>2. made' \intersect ({h} \X {"m4b", "mp3"}) = {}
    <3>1. made' = made \ DirsOf(h)
      BY <1>3 DEF RemoveAll, h
    <3> QED BY <3>1 DEF DirsOf
  <2> QED BY <1>h, <2>1, <2>2 DEF Lies, DirsOf
<1>4. CASE Exit(q) \/ Kill(q)
  <2>1. phase'[q] = "idle"
    BY <1>0, <1>4 DEF Types, Exit, Kill, Ends, Goto
  <2> QED BY <2>1 DEF Lies
<1>5. CASE CreateM4B(q)
  <2>1. phase'[q] = "m4b body" /\ disk' = [disk EXCEPT ![h][0] = File(0, FALSE, Untagged)]
    BY <1>0, <1>5 DEF Types, CreateM4B, Create, Goto, Store, h
  <2>2. disk'[h][0] = File(0, FALSE, Untagged)
    BY <1>0, <2>1, TrackedEntries DEF Types
  <2>3. disk'[h][0] # Absent
    BY <2>2, PresentFiles
  <2> QED BY <1>h, <2>1, <2>3 DEF Lies
<1>6. CASE CreateEntry(q)
  <2>1. /\ phase'[q] = "mp3 body" /\ phase[q] = "mp3" /\ pos' = pos
        /\ disk' = [disk EXCEPT ![h][Entries[pos[q]].name] = File(Entries[pos[q]].track, FALSE, Untagged)]
    BY <1>0, <1>6 DEF Types, CreateEntry, Create, Goto, Store, At, Entry, h
  <2>2. pos[q] \in Tracked
    BY <1>0, <1>6, EntriesAreEntries, LenProperties DEF CreateEntry, AtEntry, At, Cursor, Entry, Tracked
  <2> DEFINE n == Entries[pos[q]].name
  <2>3. n \in Names /\ \A i \in Tracked : Entries[i].name \in Names
    BY <2>2, TrackedEntries
  <2>4. disk'[h][n] # Absent /\ \A m \in Names \ {n} : disk'[h][m] = disk[h][m]
    <3>1. disk'[h][n] = File(Entries[pos[q]].track, FALSE, Untagged)
      BY <1>0, <2>1, <2>3 DEF Types
    <3>2. \A m \in Names \ {n} : disk'[h][m] = disk[h][m]
      BY <1>0, <2>1, <2>3 DEF Types
    <3> QED BY <3>1, <3>2, PresentFiles
  <2>5. \A i \in Tracked : i < pos[q] => disk[h][Entries[i].name].whole = TRUE
    BY <1>0, <2>1 DEF Lies, h
  <2>6. \A i \in Tracked : i < pos[q] /\ Entries[i].name # n => disk'[h][Entries[i].name].whole = TRUE
    BY <2>3, <2>4, <2>5
  <2> QED BY <1>h, <2>1, <2>4, <2>6 DEF Lies
<1>7. CASE FillM4B(q)
  <2>1. phase'[q] = "ready" /\ phase[q] = "m4b body" /\ files'[q] = <<0>> /\ Fill(q, 0, 0)
    BY <1>0, <1>7 DEF Types, FillM4B, Goto, At
  <2>2. disk' = [disk EXCEPT ![h][0] = File(0, TRUE, Untagged)]
    BY <1>0, <2>1 DEF Lies, Fill, h
  <2>3. disk'[h][0].whole = TRUE
    BY <1>0, <2>2, TrackedEntries DEF File, Types
  <2>4. Len(files'[q]) = 1 /\ files'[q][1] = 0
    <3>1. files'[q] = <<0>>
      BY <2>1
    <3> QED BY <3>1, SMT
  <2>5. \A k \in 1 .. Len(files'[q]) : files'[q][k] = 0
    BY <2>4
  <2> QED BY <1>h, <2>1, <2>3, <2>5 DEF Lies, Listed
<1>8. CASE FillEntry(q)
  <2>1. phase'[q] = "mp3" /\ phase[q] = "mp3 body" /\ pos'[q] = pos[q] + 1 /\ Fill(q, Entries[pos[q]].name, Entries[pos[q]].track)
    BY <1>0, <1>8 DEF Types, FillEntry, Goto, At, Entry
  <2> DEFINE n == Entries[pos[q]].name
             f == File(Entries[pos[q]].track, TRUE, Untagged)
  <2>2. disk' = [disk EXCEPT ![h][n] = f]
    BY <1>0, <2>1 DEF Lies, Fill, h
  <2>3. n \in Names /\ \A i \in Tracked : Entries[i].name \in Names /\ i \in Nat
    <3>1. pos[q] \in Tracked
      BY <1>0, <2>1 DEF Cursor
    <3>2. \A i \in Tracked : Entries[i].name \in Names
      BY TrackedEntries
    <3>3. \A i \in Tracked : i \in Nat
      BY EntriesAreEntries, LenProperties DEF Tracked
    <3> QED BY <3>1, <3>2, <3>3
  <2>4. disk'[h][n] = f /\ f.whole = TRUE /\ \A m \in Names \ {n} : disk'[h][m] = disk[h][m]
    <3>1. f.whole = TRUE
      BY DEF File
    <3> HIDE DEF f, n
    <3>2. disk'[h][n] = f
      BY <1>0, <2>2, <2>3 DEF Types
    <3>3. \A m \in Names \ {n} : disk'[h][m] = disk[h][m]
      BY <1>0, <2>2, <2>3 DEF Types
    <3> QED BY <3>1, <3>2, <3>3
  <2>5. \A i \in Tracked : i < pos[q] /\ Entries[i].name # n => disk[h][Entries[i].name].whole = TRUE
    BY <1>0, <2>1 DEF Lies, h
  <2>6. ASSUME NEW i \in Tracked, i < pos'[q] PROVE disk'[h][Entries[i].name].whole = TRUE
    <3>1. i = pos[q] \/ i < pos[q]
      <4>1. i \in Nat /\ pos[q] \in Nat /\ pos'[q] = pos[q] + 1
        BY <1>0, <2>1, <2>3
      <4> QED BY <2>6, <4>1, SMT
    <3>2. CASE Entries[i].name = n
      BY <2>4, <3>2
    <3>3. CASE Entries[i].name # n
      BY <2>3, <2>4, <2>5, <3>1, <3>3
    <3> QED BY <3>2, <3>3
  <2> QED BY <1>h, <2>1, <2>6 DEF Lies
<1>9. CASE SkipEntry(q)
  <2>1. phase'[q] = "mp3" /\ phase[q] = "mp3" /\ pos'[q] = pos[q] + 1 /\ disk' = disk /\ Entries[pos[q]].mp3 = FALSE
    BY <1>0, <1>9 DEF Types, SkipEntry, AtEntry, At, Entry
  <2>2. pos[q] \notin Tracked
    BY <2>1 DEF Tracked
  <2>3. \A i \in Tracked : i < pos[q] => disk[h][Entries[i].name].whole = TRUE
    BY <1>0, <2>1 DEF Lies, h
  <2>4. ASSUME NEW i \in Tracked, i < pos'[q] PROVE i < pos[q]
    <3>1. i \in Nat
      BY TrackedEntries, EntriesAreEntries, LenProperties
    <3>2. i # pos[q]
      BY <2>2, <2>4
    <3> QED BY <1>0, <2>1, <2>4, <3>1, <3>2
  <2> QED BY <1>h, <2>1, <2>3, <2>4 DEF Lies
<1>10. CASE List(q)
  <2>1. PICK s \in listMP3s(h) : files' = [files EXCEPT ![q] = s]
    BY <1>10 DEF List, h
  <2>2. phase'[q] = "tag" /\ phase[q] = "mp3" /\ files'[q] = s /\ disk' = disk /\ pos[q] > Len(Entries) /\ Mp3s(h) # {}
    BY <1>0, <1>10, <2>1 DEF Types, List, Goto, At, h
  <2>3. /\ s \in Seq(Names)
        /\ \A i \in DOMAIN s : s[i] \in Mp3s(h)
        /\ \A n \in Mp3s(h) : \E i \in DOMAIN s : s[i] = n
    BY <1>0, <2>1, <2>2, ListedAreNames
  <2>4. ASSUME NEW i \in Tracked PROVE disk[h][Entries[i].name].whole = TRUE /\ Entries[i].name \in Mp3s(h)
    <3>1. i \in 1 .. Len(Entries) /\ Entries[i].name \in Names \ {0}
      BY TrackedEntries
    <3>2. i < pos[q]
      BY <1>0, <2>2, <3>1, EntriesAreEntries, LenProperties
    <3>3. disk[h][Entries[i].name].whole = TRUE
      BY <1>0, <2>2, <3>2 DEF Lies, h
    <3>4. disk[h][Entries[i].name] # Absent
      BY <3>3, PresentFiles
    <3> QED BY <3>1, <3>3, <3>4 DEF Mp3s
  <2>5. Listed(s)
    BY <2>3, <2>4 DEF Listed
  <2>6. \A n \in Mp3s(h) : disk[h][n].whole = TRUE
    BY <2>4 DEF Mp3s, Names
  <2>7. \A k \in 1 .. Len(s) : disk[h][s[k]].whole = TRUE
    BY <2>3, <2>6, LenProperties
  <2> QED BY <1>h, <2>2, <2>5, <2>7 DEF Lies
<1>11. CASE WriteTags(q)
  <2> DEFINE n == files[q][pos[q]]
  <2>1. /\ phase[q] = "tag" /\ phase'[q] \in {"tag", "ready"} /\ files' = files
        /\ disk' = [disk EXCEPT ![h][n] = Tagged(q)]
    BY <1>0, <1>11 DEF Types, WriteTags, Goto, At, Store, h
  <2>2. n \in Names /\ pos[q] \in 1 .. Len(files[q]) /\ \A k \in 1 .. Len(files[q]) : files[q][k] \in Names
    BY <1>0, <2>1, ElementOfSeq, LenProperties DEF Types, Cursor
  <2>3. Listed(files[q]) /\ \A k \in 1 .. Len(files[q]) : disk[h][files[q][k]].whole = TRUE
    BY <1>0, <2>1 DEF Lies, h
  <2>4. Tagged(q).whole = TRUE
    BY <2>2, <2>3 DEF Tagged, File, h
  <2>5. disk'[h][n] = Tagged(q) /\ \A m \in Names \ {n} : disk'[h][m] = disk[h][m]
    BY <1>0, <2>1, <2>2 DEF Types
  <2>6. \A k \in 1 .. Len(files[q]) : disk'[h][files[q][k]].whole = TRUE
    BY <2>2, <2>3, <2>4, <2>5
  <2> QED BY <1>h, <2>1, <2>3, <2>6 DEF Lies
<1> QED BY <1>1, <1>2, <1>3, <1>4, <1>5, <1>6, <1>7, <1>8, <1>9, <1>10, <1>11 DEF Stage

LEMMA StagingSent ==
    ASSUME SInv, NEW q \in Procs,
           Begin(q) \/ Stage(q) \/ Fail(q) \/ RemoveAll(q) \/ Exit(q) \/ Kill(q)
    PROVE  SentWhole(q)' /\ uploads' = uploads
<1>0. Types /\ Body(q) /\ SentWhole(q)
  BY DEF SInv, IInv
<1>1. CASE Exit(q) \/ Kill(q)
  <2>1. writer'[q].at = "none" /\ sent'[q] = <<>> /\ uploads' = uploads
    BY <1>0, <1>1 DEF Types, Exit, Kill, Ends, NoWriter
  <2>2. 1 .. Len(sent'[q]) = {}
    <3>1. Len(sent'[q]) = 0
      BY <2>1, SMT
    <3> QED BY <3>1, SMT
  <2> QED BY <2>1, <2>2 DEF SentWhole
<1>2. CASE RemoveAll(q)
  <2>1. phase[q] = "cleanup" /\ UNCHANGED <<request, uploads>>
    BY <1>2 DEF RemoveAll, At
  <2> QED BY <1>0, <2>1 DEF SentWhole, request
<1>3. CASE Begin(q) \/ Stage(q) \/ Fail(q)
  <2>1. phase[q] \notin {"upload", "cleanup", "done"} /\ UNCHANGED <<request, uploads>>
    BY <1>3 DEF Begin, Stage, Fail, CreateM4B, FillM4B, SkipEntry, CreateEntry, AtEntry, Create, FillEntry, List, WriteTags, At
  <2>2. writer'[q].at = "none"
    BY <1>0, <2>1 DEF Body, request
  <2> QED BY <1>0, <2>1, <2>2 DEF SentWhole, request
<1> QED BY <1>1, <1>2, <1>3

LEMMA UploadLies ==
    ASSUME SInv, NEW q \in Procs,
           UploadItem(q) \/ Writer(q) \/ Accept(q) \/ BodyFails(q) \/ Refuse(q)
    PROVE  Lies(q)'
<1>0. Types /\ Lies(q)
  BY DEF SInv, IInv
<1>1. CASE UploadItem(q)
  <2>1. phase[q] = "ready" /\ phase'[q] = "upload" /\ UNCHANGED <<setup, files, disk>>
    BY <1>0, <1>1 DEF Types, UploadItem, Goto, At
  <2>2. Home(q)' = Home(q)
    BY <2>1 DEF Home
  <2> QED BY <1>0, <2>1, <2>2 DEF Lies
<1>2. CASE Writer(q)
  <2>1. UNCHANGED StagedIs
    BY <1>2 DEF Writer, WriteFields, WriteFile, FileFails, NoMoreFiles, WriteTrailer, CloseWithError
  <2>2. Home(q)' = Home(q)
    BY <2>1 DEF Home, StagedIs
  <2> QED BY <1>0, <2>1, <2>2 DEF Lies, StagedIs, DirsOf
<1>3. CASE Accept(q) \/ BodyFails(q) \/ Refuse(q)
  <2>1. phase'[q] = "cleanup"
    BY <1>0, <1>3 DEF Types, Accept, BodyFails, Refuse, Hangup, Goto
  <2> QED BY <2>1 DEF Lies
<1> QED BY <1>1, <1>2, <1>3

LEMMA UploadSent ==
    ASSUME SInv, NEW q \in Procs,
           UploadItem(q) \/ Writer(q) \/ Accept(q) \/ BodyFails(q) \/ Refuse(q)
    PROVE  SentWhole(q)'
<1>0. Types /\ Cursor(q) /\ Body(q) /\ Lies(q) /\ SentWhole(q)
  BY DEF SInv, IInv
<1>1. CASE UploadItem(q)
  <2>1. phase'[q] = "upload" /\ sent' = sent
    BY <1>0, <1>1 DEF Types, UploadItem, Goto
  <2> QED BY <1>0, <2>1 DEF SentWhole
<1>2. CASE Accept(q) \/ BodyFails(q) \/ Refuse(q)
  <2>1. conn'[q] = "closed" /\ sent' = sent
    BY <1>0, <1>2 DEF Types, Accept, BodyFails, Refuse, Hangup
  <2> QED BY <1>0, <2>1 DEF SentWhole
<1>3. CASE WriteFile(q)
  <2>1. writer[q].at = "files" /\ writer[q].i <= Len(files[q]) /\ ~ Broken(q) /\ UNCHANGED <<StagedIs, conn>>
    BY <1>3, Zenon DEF WriteFile
  <2>2. phase[q] = "upload"
    BY <1>0, <2>1 DEF Body, SentWhole, Broken
  <2>3. phase'[q] = "upload"
    BY <2>1, <2>2 DEF StagedIs
  <2>4. writer[q].i \in Nat /\ Len(files[q]) \in Nat /\ Len(sent[q]) \in Nat /\ writer[q].i # 0 /\ sent[q] \in Seq(SentSet)
    BY <1>0, <2>1, LenProperties DEF Types, Cursor
  <2>5. writer[q].i \in 1 .. Len(files[q])
    BY <2>1, <2>4
  <2>6. disk[Home(q)][files[q][writer[q].i]].whole = TRUE
    BY <1>0, <2>2, <2>5 DEF Lies
  <2>7. NextFile(q).file.whole = TRUE
    BY <2>6 DEF NextFile
  <2>8. NextFile(q) \in SentSet
    <3>1. files[q][writer[q].i] \in Names
      BY <1>0, <2>5, ElementOfSeq DEF Types
    <3> HIDE DEF Names, FileSet
    <3> QED BY <1>0, <3>1, HomeIsHome DEF NextFile, SentSet, Types
  <2>9. sent'[q] = Append(sent[q], NextFile(q))
    BY <1>0, <1>3 DEF Types, WriteFile
  <2>10. /\ Len(sent'[q]) = Len(sent[q]) + 1
         /\ \A k \in 1 .. Len(sent[q]) : sent'[q][k] = sent[q][k]
         /\ sent'[q][Len(sent[q]) + 1] = NextFile(q)
    <3> HIDE DEF SentSet, NextFile
    <3> QED BY <2>4, <2>8, <2>9, AppendProperties
  <2>11. ASSUME NEW k \in 1 .. Len(sent'[q]) PROVE sent'[q][k].file.whole = TRUE
    <3>1. k \in 1 .. Len(sent[q]) \/ k = Len(sent[q]) + 1
      BY <2>4, <2>10
    <3> QED BY <1>0, <2>7, <2>10, <3>1 DEF SentWhole
  <2> QED BY <2>3, <2>11 DEF SentWhole
<1>4. CASE WriteFields(q) \/ FileFails(q) \/ NoMoreFiles(q) \/ WriteTrailer(q) \/ CloseWithError(q)
  <2>1. UNCHANGED <<phase, conn, sent>> /\ writer[q].at # "none"
    BY <1>4 DEF WriteFields, FileFails, NoMoreFiles, WriteTrailer, CloseWithError, StagedIs
  <2> QED BY <1>0, <2>1 DEF SentWhole
<1> QED BY <1>1, <1>2, <1>3, <1>4 DEF Writer

LEMMA TornStep ==
    ASSUME SInv, NEW q \in Procs, StepOf(q)
    PROVE  NothingTorn'
<1>0. Types /\ Body(q) /\ Lies(q) /\ SentWhole(q)
  BY DEF SInv, IInv
<1>1. CASE Accept(q)
  <2>1. phase[q] = "upload" /\ pipe[q] = "eof" /\ uploads' = uploads \union {sent[q]}
    BY <1>1 DEF Accept, At
  <2>2. writer[q].at = "gone" /\ writer[q].firstErr = "nil"
    BY <1>0, <2>1 DEF Body
  <2>3. Len(sent[q]) = Len(files[q]) /\ DOMAIN sent[q] = 1 .. Len(sent[q]) /\ DOMAIN files[q] = 1 .. Len(files[q])
    BY <1>0, <2>2, LenProperties DEF Types, Body
  <2>4. [k \in DOMAIN sent[q] |-> sent[q][k].name] = files[q]
    <3>1. \A k \in DOMAIN sent[q] : sent[q][k].name = files[q][k]
      BY <1>0, <2>3 DEF Body
    <3>2. files[q] = [k \in DOMAIN files[q] |-> files[q][k]]
      BY <1>0, <2>3, SeqDef DEF Types
    <3> QED BY <2>3, <3>1, <3>2
  <2>5. Listed(files[q])
    BY <1>0, <2>1 DEF Lies
  <2>6. Listed([k \in DOMAIN sent[q] |-> sent[q][k].name])
    BY <2>4, <2>5
  <2>7. \A k \in DOMAIN sent[q] : sent[q][k].file.whole = TRUE
    BY <1>0, <2>3 DEF SentWhole
  <2> QED BY <2>1, <2>6, <2>7 DEF SInv, NothingTorn
<1>2. CASE ~ Accept(q)
  <2>1. uploads' = uploads
    <3>1. CASE Writer(q)
      BY <3>1 DEF Writer, WriteFields, WriteFile, FileFails, NoMoreFiles, WriteTrailer, CloseWithError, StagedIs
    <3>2. CASE UploadItem(q) \/ BodyFails(q) \/ Refuse(q)
      BY <3>2 DEF UploadItem, BodyFails, Refuse
    <3> QED BY <1>2, <3>1, <3>2, StagingSent DEF StepOf
  <2> QED BY <2>1 DEF SInv, NothingTorn
<1> QED BY <1>1, <1>2

LEMMA InitSInv == Init => SInv
<1> SUFFICES ASSUME Init PROVE SInv
  OBVIOUS
<1>1. Alone /\ NothingTorn
  BY DEF Init, Alone, NothingTorn
<1>2. ASSUME NEW p \in Procs PROVE Lies(p) /\ SentWhole(p)
  <2>1. phase[p] = "idle" /\ sent[p] = <<>>
    BY DEF Init
  <2>2. 1 .. Len(sent[p]) = {}
    <3>1. Len(sent[p]) = 0
      BY <2>1, SMT
    <3> QED BY <3>1, SMT
  <2> QED BY <2>1, <2>2 DEF Lies, SentWhole
<1> QED BY <1>1, <1>2, InitIInv DEF SInv

LEMMA NextSInv == ASSUME NotShared PROVE SInv /\ [Next]_vars => SInv'
<1> SUFFICES ASSUME SInv, [Next]_vars PROVE SInv'
  OBVIOUS
<1>0. IInv'
  BY NextIInv DEF SInv
<1>1. ASSUME NEW q \in Procs, StepOf(q) PROVE SInv'
  <2>1. Lies(q)' /\ SentWhole(q)'
    BY <1>1, StagingLies, StagingSent, UploadLies, UploadSent DEF StepOf
  <2>2. \A p \in Procs \ {q} : Lies(p)' /\ SentWhole(p)'
    BY <1>1, OthersKeep
  <2> QED BY <1>0, <1>1, <2>1, <2>2, AloneStep, TornStep DEF SInv
<1>2. CASE Package \/ UNCHANGED vars
  <2>1. UNCHANGED <<setup, phase, pos, files, made, disk, request, uploads>>
    BY <1>2 DEF Package, vars, request
  <2>2. Alone' /\ NothingTorn'
    BY <2>1 DEF SInv, Alone, NothingTorn
  <2>3. ASSUME NEW p \in Procs PROVE Lies(p)' /\ SentWhole(p)'
    <3>1. Home(p)' = Home(p)
      BY <2>1 DEF Home
    <3>2. Lies(p) /\ SentWhole(p)
      BY DEF SInv
    <3> QED BY <2>1, <3>1, <3>2 DEF Lies, SentWhole, DirsOf, request
  <2> QED BY <1>0, <2>2, <2>3 DEF SInv
<1> QED BY <1>1, <1>2 DEF Next, StepOf

(* Unless overlapping runs share a --work-dir, every file audiobookshelf   *)
(* has accepted is complete and no track of the archives is missing: what  *)
(* a killed run left half written is overwritten before it is uploaded.    *)
THEOREM NoUploadIsTorn == ASSUME NotShared PROVE Spec => []NothingTorn
<1>1. SInv => NothingTorn
  BY DEF SInv
<1> QED BY <1>1, InitSInv, NextSInv, PTL DEF Spec

(* Nor does a run that is through with the book leave anything staged.     *)
THEOREM StagingIsCleared == ASSUME NotShared PROVE Spec => []StagingCleared
<1>1. SInv => StagingCleared
  BY DEF SInv, Lies, DirsOf, StagingCleared, At
<1> QED BY <1>1, InitSInv, NextSInv, PTL DEF Spec

===============================================================================
