------------------------------- MODULE Transfer -------------------------------
(***************************************************************************)
(* From libro.fm's files to audiobookshelf's folder: syncOne's download,   *)
(* unpacking and tagging into the staging directory (internal/format), and *)
(* the upload streamed from there through a pipe (internal/abs/upload.go). *)
(* One book; a process is one slot of cron, idle between two runs.         *)
(*                                                                         *)
(* The directories <isbn>-m4b and <isbn>-mp3 of a run lie in its home: a   *)
(* temporary directory of its own, or <isbn>/ of the --work-dir that all   *)
(* runs share.  A file is named by its rank in the order of file names, 0  *)
(* for the m4b; its content is the track it holds, whether all of it is    *)
(* there, and its ID3 tag.                                                 *)
(***************************************************************************)
EXTENDS Naturals, Sequences, FiniteSets, SequencesExt

CONSTANTS
    Procs,
    Entries,   \* the entries of the MP3 archives, in order: [name, track, mp3]
    Tracks,    \* the manifest's tracks [number, title], title 0 when blank
    Setups     \* of the three below, the ones the user may have chosen

AllSetups == {"temp dir", "work dir, one at a time", "work dir, overlapping"}

ASSUME SetupsAreSetups == Setups \subseteq AllSetups
ASSUME EntriesAreEntries ==
    Entries \in Seq([name : Nat \ {0}, track : Nat \ {0}, mp3 : BOOLEAN])
ASSUME TracksAreTracks == Tracks \in Seq([number : Nat \ {0}, title : Nat])

VARIABLES
    setup,      \* how the runs are set up
    packaged,   \* libro.fm has an M4B of the book
    lost,       \* a killed run's temporary directory lies about, with what it staged
    phase,      \* of each process
    pos,        \* the entry or file it is at
    files,      \* Result.Files, the names in the order of upload
    made,       \* the directories that exist, <<home, format>>
    disk,       \* disk[home][name]: the file of that name, or Absent
    writer,     \* the goroutine that writes the multipart body
    pipe,       \* what the reading end of the pipe comes to
    conn,       \* the request: "off", "open", "closed"
    sent,       \* the files written into the body
    ended,      \* the closing boundary has been written
    uploads     \* the uploads audiobookshelf has accepted

vars == <<setup, packaged, lost, phase, pos, files, made, disk, writer, pipe, conn, sent, ended, uploads>>
request == <<writer, pipe, conn, sent, ended>>

-------------------------------------------------------------------------------
(* Files and tags.                                                         *)

Untagged == <<"none", 0, 0, 0>>
File(track, whole, tag) == [track |-> track, whole |-> whole, tag |-> tag]
Absent  == File(0, FALSE, <<"absent", 0, 0, 0>>)
Tracked == {i \in DOMAIN Entries : Entries[i].mp3}
Names   == {0} \union {Entries[i].name : i \in Tracked}
Empty   == [n \in Names |-> Absent]

Homes   == Procs \union {"work dir"}
Home(p) == IF setup = "temp dir" THEN p ELSE "work dir"
Dir(p, format) == <<Home(p), format>>

Mp3s(h)   == {n \in Names \ {0} : disk[h][n] # Absent}

(* The names in order: there is one such sequence.                         *)
listMP3s(h) ==
    {s \in [1 .. Cardinality(Mp3s(h)) -> Mp3s(h)] :
        /\ \A n \in Mp3s(h) : \E i \in DOMAIN s : s[i] = n
        /\ \A i, j \in DOMAIN s : i < j => s[i] < s[j]}

(* The tracks in the order of their numbers, wherever the manifest has     *)
(* them: place[n] is where the n-th of them stands there.                  *)
InNumberOrder(place) ==
    \A i, j \in DOMAIN Tracks : i < j => Tracks[place[i]].number <= Tracks[place[j]].number
sortedTracks ==
    LET place == CHOOSE f \in Bijection(DOMAIN Tracks, DOMAIN Tracks) : InNumberOrder(f)
    IN  [n \in DOMAIN Tracks |-> Tracks[place[n]]]

(* The n-th file has the n-th chapter's title, "<book> - Part <n>" if that *)
(* is blank, and the bare book title beyond the list.                      *)
buildTags(n, total) ==
    IF n > Len(sortedTracks) THEN <<"book", 0, n, total>>
    ELSE IF sortedTracks[n].title = 0 THEN <<"part", n, n, total>>
    ELSE <<"chapter", sortedTracks[n].title, n, total>>

Tagged(p) ==
    LET f == disk[Home(p)][files[p][pos[p]]] IN File(f.track, f.whole, buildTags(pos[p], Len(files[p])))

-------------------------------------------------------------------------------
(* Starting, and the ways out.                                             *)

NoWriter == [at |-> "none", i |-> 0, firstErr |-> "nil"]

Init ==
    /\ setup \in Setups
    /\ packaged \in BOOLEAN
    /\ lost = FALSE
    /\ phase = [p \in Procs |-> "idle"]
    /\ pos = [p \in Procs |-> 0]
    /\ files = [p \in Procs |-> <<>>]
    /\ made = {}
    /\ disk = [h \in Homes |-> Empty]
    /\ writer = [p \in Procs |-> NoWriter]
    /\ pipe = [p \in Procs |-> "open"]
    /\ conn = [p \in Procs |-> "off"]
    /\ sent = [p \in Procs |-> <<>>]
    /\ ended = [p \in Procs |-> FALSE]
    /\ uploads = {}

At(p, ph) == phase[p] = ph
Goto(p, ph) == phase' = [phase EXCEPT ![p] = ph]
Store(p, n, f) == disk' = [disk EXCEPT ![Home(p)][n] = f]

(* MkdirTemp gives each run a new directory, --work-dir the same one: what *)
(* a killed run staged in the one stays there for good, what it staged in  *)
(* the other is found again.  The answer to the call for the M4B's URL     *)
(* picks the downloader.                                                   *)
DirsOf(h) == made \intersect ({h} \X {"m4b", "mp3"})

Begin(p) ==
    /\ At(p, "idle")
    /\ setup = "work dir, one at a time" => \A q \in Procs : At(q, "idle")
    /\ LET format == IF packaged THEN "m4b" ELSE "mp3" IN
       /\ Goto(p, format)
       /\ made' = (IF setup = "temp dir" THEN made \ DirsOf(p) ELSE made) \union {Dir(p, format)}
    /\ disk' = IF setup = "temp dir" THEN [disk EXCEPT ![p] = Empty] ELSE disk
    /\ lost' = (lost \/ (setup = "temp dir" /\ DirsOf(p) # {}))
    /\ pos' = [pos EXCEPT ![p] = 1]
    /\ UNCHANGED <<setup, packaged, files, request, uploads>>

(* Any call of the download or of the disk fails: syncOne returns an error *)
(* and leaves what is staged to the deferred RemoveAll.                    *)
FailKeeping(p) ==                                                                \* mutant
    /\ phase[p] \in {"m4b", "m4b body", "mp3", "mp3 body", "tag"}
    /\ Goto(p, "done")
    /\ UNCHANGED <<setup, packaged, lost, pos, files, made, disk, request, uploads>>

Fail(p) ==
    /\ phase[p] \in {"m4b", "m4b body", "mp3", "mp3 body", "tag"}
    /\ Goto(p, "cleanup")
    /\ UNCHANGED <<setup, packaged, lost, pos, files, made, disk, request, uploads>>

RemoveAll(p) ==
    /\ At(p, "cleanup")
    /\ Goto(p, "done")
    /\ made' = made \ DirsOf(Home(p))
    /\ disk' = [disk EXCEPT ![Home(p)] = Empty]
    /\ UNCHANGED <<setup, packaged, lost, pos, files, request, uploads>>

(* The process ends, after its run or killed in the middle of it.          *)
Ends(p) ==
    /\ Goto(p, "idle")
    /\ pos' = [pos EXCEPT ![p] = 0]
    /\ files' = [files EXCEPT ![p] = <<>>]
    /\ writer' = [writer EXCEPT ![p] = NoWriter]
    /\ pipe' = [pipe EXCEPT ![p] = "open"]
    /\ conn' = [conn EXCEPT ![p] = "off"]
    /\ sent' = [sent EXCEPT ![p] = <<>>]
    /\ ended' = [ended EXCEPT ![p] = FALSE]
    /\ UNCHANGED <<setup, packaged, lost, made, disk, uploads>>

Exit(p) == At(p, "done") /\ Ends(p)
Kill(p) == phase[p] \notin {"idle", "done"} /\ Ends(p)

(* libro.fm comes to offer an M4B.                                         *)
Package == ~packaged /\ packaged' = TRUE
           /\ UNCHANGED <<setup, lost, phase, pos, files, made, disk, request, uploads>>

-------------------------------------------------------------------------------
(* Staging: DownloadM4B, or DownloadMP3.                                   *)

(* A file is created, truncating what is there, and then filled.  A        *)
(* directory that is gone makes the first fail; a file that is gone by     *)
(* then is filled all the same, out of anybody's sight.                    *)
Create(p, format, n, track) ==
    /\ At(p, format)
    /\ Dir(p, format) \in made
    /\ Goto(p, IF format = "m4b" THEN "m4b body" ELSE "mp3 body")
    /\ Store(p, n, File(track, FALSE, Untagged))
    /\ UNCHANGED <<setup, packaged, lost, pos, files, made, request, uploads>>

Fill(p, n, track) ==
    disk' = IF disk[Home(p)][n] = Absent THEN disk
            ELSE [disk EXCEPT ![Home(p)][n] = File(track, TRUE, Untagged)]

CreateM4B(p) == Create(p, "m4b", 0, 0)

FillM4B(p) ==
    /\ At(p, "m4b body")
    /\ Fill(p, 0, 0)
    /\ files' = [files EXCEPT ![p] = <<0>>]
    /\ Goto(p, "ready")
    /\ UNCHANGED <<setup, packaged, lost, pos, made, request, uploads>>

Entry(p) == Entries[pos[p]]
AtEntry(p, mp3) == At(p, "mp3") /\ pos[p] <= Len(Entries) /\ Entry(p).mp3 = mp3

(* A directory, or a file of another kind.                                 *)
SkipEntry(p) ==
    /\ AtEntry(p, FALSE)
    /\ pos' = [pos EXCEPT ![p] = @ + 1]
    /\ UNCHANGED <<setup, packaged, lost, phase, files, made, disk, request, uploads>>

CreateMissing(p) ==                                                              \* mutant
    /\ AtEntry(p, TRUE)
    /\ IF disk[Home(p)][Entry(p).name] = Absent
       THEN Create(p, "mp3", Entry(p).name, Entry(p).track)
       ELSE /\ pos' = [pos EXCEPT ![p] = @ + 1]
            /\ UNCHANGED <<setup, packaged, lost, phase, files, made, disk, request, uploads>>

CreateEntry(p) == AtEntry(p, TRUE) /\ Create(p, "mp3", Entry(p).name, Entry(p).track)

FillEntry(p) ==
    /\ At(p, "mp3 body")
    /\ Fill(p, Entry(p).name, Entry(p).track)
    /\ Goto(p, "mp3")
    /\ pos' = [pos EXCEPT ![p] = @ + 1]
    /\ UNCHANGED <<setup, packaged, lost, files, made, request, uploads>>

(* What is listed is what lies in the directory, whoever put it there.     *)
List(p) ==
    /\ At(p, "mp3")
    /\ pos[p] > Len(Entries)
    /\ Dir(p, "mp3") \in made
    /\ Mp3s(Home(p)) # {}
    /\ \E s \in listMP3s(Home(p)) : files' = [files EXCEPT ![p] = s]
    /\ pos' = [pos EXCEPT ![p] = 1]
    /\ Goto(p, "tag")
    /\ UNCHANGED <<setup, packaged, lost, made, disk, request, uploads>>

WriteTags(p) ==
    /\ At(p, "tag")
    /\ disk[Home(p)][files[p][pos[p]]] # Absent
    /\ Store(p, files[p][pos[p]], Tagged(p))
    /\ IF pos[p] = Len(files[p])
       THEN Goto(p, "ready") /\ UNCHANGED pos
       ELSE pos' = [pos EXCEPT ![p] = @ + 1] /\ UNCHANGED phase
    /\ UNCHANGED <<setup, packaged, lost, files, made, request, uploads>>

-------------------------------------------------------------------------------
(* UploadItem: the goroutine writes the body into the pipe, the transport  *)
(* reads it and answers.                                                   *)

UploadItem(p) ==
    /\ At(p, "ready")
    /\ Goto(p, "upload")
    /\ writer' = [writer EXCEPT ![p] = [at |-> "fields", i |-> 1, firstErr |-> "nil"]]
    /\ conn' = [conn EXCEPT ![p] = "open"]
    /\ UNCHANGED <<setup, packaged, lost, pos, files, made, disk, pipe, sent, ended, uploads>>

Write(p, at, i, fails) ==
    writer' = [writer EXCEPT ![p] = [at |-> at, i |-> i, firstErr |-> IF fails THEN "set" ELSE @.firstErr]]
StagedIs == <<setup, packaged, lost, phase, pos, files, made, disk, uploads>>
Broken(p) == conn[p] = "closed"

WriteFields(p) ==
    /\ writer[p].at = "fields"
    /\ Write(p, "files", 1, Broken(p))
    /\ UNCHANGED <<StagedIs, pipe, conn, sent, ended>>

NextFile(p) == [name |-> files[p][writer[p].i], file |-> disk[Home(p)][files[p][writer[p].i]]]

WriteFile(p) ==
    /\ writer[p].at = "files" /\ writer[p].i <= Len(files[p])
    /\ ~Broken(p) /\ NextFile(p).file # Absent
    /\ sent' = [sent EXCEPT ![p] = Append(@, NextFile(p))]
    /\ Write(p, "files", writer[p].i + 1, FALSE)
    /\ UNCHANGED <<StagedIs, pipe, conn, ended>>

(* The part cannot be created, the file not be opened, or the copy breaks  *)
(* off: the loop ends at the first error.                                  *)
ReturnOnError(p) ==                                                              \* mutant
    /\ writer[p].at = "files" /\ writer[p].i <= Len(files[p])
    /\ Write(p, "gone", writer[p].i, TRUE)
    /\ UNCHANGED <<StagedIs, pipe, conn, sent, ended>>

FileFails(p) ==
    /\ writer[p].at = "files" /\ writer[p].i <= Len(files[p])
    /\ Write(p, "trailer", writer[p].i, TRUE)
    /\ UNCHANGED <<StagedIs, pipe, conn, sent, ended>>

NoMoreFiles(p) ==
    /\ writer[p].at = "files" /\ writer[p].i > Len(files[p])
    /\ Write(p, "trailer", writer[p].i, FALSE)
    /\ UNCHANGED <<StagedIs, pipe, conn, sent, ended>>

(* mw.Close is called on every way out of the loop.                        *)
WriteTrailer(p) ==
    /\ writer[p].at = "trailer"
    /\ ended' = IF Broken(p) THEN ended ELSE [ended EXCEPT ![p] = TRUE]
    /\ Write(p, "close", writer[p].i, Broken(p))
    /\ UNCHANGED <<StagedIs, pipe, conn, sent>>

CloseAlways(p) ==                                                                \* mutant
    /\ writer[p].at = "close"
    /\ pipe' = [pipe EXCEPT ![p] = "eof"]
    /\ Write(p, "gone", writer[p].i, FALSE)
    /\ UNCHANGED <<StagedIs, conn, sent, ended>>

CloseWithError(p) ==
    /\ writer[p].at = "close"
    /\ pipe' = [pipe EXCEPT ![p] = IF writer[p].firstErr = "set" THEN "error" ELSE "eof"]
    /\ Write(p, "gone", writer[p].i, FALSE)
    /\ UNCHANGED <<StagedIs, conn, sent, ended>>

Hangup(p) == conn' = [conn EXCEPT ![p] = "closed"] /\ Goto(p, "cleanup")

(* audiobookshelf has the whole body: it stores the upload.  Its answer    *)
(* may be lost; in both cases syncOne comes to its RemoveAll.              *)
Accept(p) ==
    /\ At(p, "upload")
    /\ pipe[p] = "eof"
    /\ uploads' = uploads \union {sent[p]}
    /\ Hangup(p)
    /\ UNCHANGED <<setup, packaged, lost, pos, files, made, disk, writer, pipe, sent, ended>>

(* The transport reads the writer's error out of the pipe.                 *)
BodyFails(p) ==
    /\ At(p, "upload")
    /\ pipe[p] = "error"
    /\ Hangup(p)
    /\ UNCHANGED <<setup, packaged, lost, pos, files, made, disk, writer, pipe, sent, ended, uploads>>

(* A refusal, a dropped connection, the client timeout or an interrupt: at *)
(* any time, with the goroutine still at work.                             *)
Refuse(p) ==
    /\ At(p, "upload")
    /\ Hangup(p)
    /\ UNCHANGED <<setup, packaged, lost, pos, files, made, disk, writer, pipe, sent, ended, uploads>>

Writer(p) ==
    WriteFields(p) \/ WriteFile(p) \/ FileFails(p) \/ NoMoreFiles(p) \/ WriteTrailer(p) \/ CloseWithError(p)

Stage(p) ==
    CreateM4B(p) \/ FillM4B(p) \/ SkipEntry(p) \/ CreateEntry(p) \/ FillEntry(p) \/ List(p) \/ WriteTags(p)

Next ==
    \/ Package
    \/ \E p \in Procs :
          \/ Begin(p) \/ Stage(p) \/ Fail(p) \/ UploadItem(p) \/ Writer(p)
          \/ Accept(p) \/ BodyFails(p) \/ Refuse(p) \/ RemoveAll(p) \/ Exit(p) \/ Kill(p)

(* The goroutine is scheduled, and a request whose body has come to its    *)
(* end is answered.  Refuse is not fair: nothing rests on the timeout.     *)
Fairness ==
    \A p \in Procs : WF_vars(Writer(p)) /\ WF_vars(Accept(p) \/ BodyFails(p)) /\ WF_vars(RemoveAll(p))

Spec == Init /\ [][Next]_vars /\ Fairness

-------------------------------------------------------------------------------
(* Properties.                                                             *)

(* The title of the chapter, if the manifest lists one.                    *)
TitleOf(track) ==
    IF \E t \in ToSet(Tracks) : t.number = track /\ t.title # 0
    THEN <<"chapter", (CHOOSE t \in ToSet(Tracks) : t.number = track).title>>
    ELSE <<"part", track>>
Titled(tag) == <<tag[1], tag[2]>>

Numbers == {t.number : t \in ToSet(Tracks)}

TheM4B == <<[name |-> 0, file |-> File(0, TRUE, Untagged)]>>

TheMP3s(u) ==
    /\ {u[i].file.track : i \in DOMAIN u} = {Entries[i].track : i \in Tracked}
    /\ Len(u) = Cardinality(Tracked)
    /\ \A i \in DOMAIN u :
          /\ u[i].file.track = i /\ u[i].file.whole
          /\ u[i].file.tag[3] = i /\ u[i].file.tag[4] = Len(u)
          /\ i \in Numbers => Titled(u[i].file.tag) = TitleOf(i)
          /\ [name |-> u[i].name, track |-> i, mp3 |-> TRUE] \in ToSet(Entries)

(* What the order of an upload rests on: the MP3s of the archives are the  *)
(* tracks 1 to n, named in that order, and the manifest's tracks are       *)
(* numbered 1 to m, in whatever order it lists them.                       *)
InOrder ==
    /\ \A i, j \in Tracked :
          /\ i # j => Entries[i].track # Entries[j].track
          /\ Entries[i].name < Entries[j].name <=> Entries[i].track < Entries[j].track
    /\ {Entries[i].track : i \in Tracked} = 1 .. Cardinality(Tracked)
    /\ \A i, j \in DOMAIN Tracks : i # j => Tracks[i].number # Tracks[j].number
    /\ {Tracks[i].number : i \in DOMAIN Tracks} = 1 .. Len(Tracks)

(* What audiobookshelf takes in is the book: the M4B, or all tracks, each  *)
(* complete, in the order of the story and under its own chapter's title   *)
(* if the manifest lists the chapter, whatever earlier runs left in the    *)
(* directory and wherever they died.                                       *)
UploadIsWhole == \A u \in uploads : u = TheM4B \/ TheMP3s(u)

(* Every MP3 goes up under a title of its own, its chapter's or "<book> -  *)
(* Part <n>", as the comment on buildTags has it.                          *)
PartsAreNamed ==
    \A u \in uploads : \A i \in DOMAIN u :
        u[i].name # 0 => Titled(u[i].file.tag) = TitleOf(u[i].file.track)

(* The body comes to a regular end only when every staged file and the     *)
(* closing boundary are in it: an error of the goroutine cannot pass for   *)
(* the end of the upload.                                                  *)
EndMeansAll ==
    \A p \in Procs : pipe[p] = "eof" =>
        ended[p] /\ [i \in DOMAIN sent[p] |-> sent[p][i].name] = files[p]

(* A run that is through with the book has nothing left in its directory:  *)
(* none of its own files and, in a --work-dir, none of a run killed before *)
(* it.  A killed run's temporary directory is another matter (below).      *)
StagingCleared == \A p \in Procs : At(p, "done") => disk[Home(p)] = Empty /\ DirsOf(Home(p)) = {}

(* Nor has it left anything elsewhere: what a killed run staged is gone by *)
(* the end of the next, thanks to the sweep at startup that the plan has.  *)
SweptAtStartup == \A p \in Procs : At(p, "done") => ~lost

(* UploadItem returns, and its goroutine ends, without help from a timeout.*)
UploadReturns ==
    \A p \in Procs : At(p, "upload") ~> (~At(p, "upload") /\ writer[p].at \in {"none", "gone"})
===============================================================================
