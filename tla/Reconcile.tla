------------------------------- MODULE Reconcile -------------------------------
(***************************************************************************)
(* internal/reconcile: a run of librofm-sync.  It lists the ABS library    *)
(* and the libro.fm library once, then brings every libro.fm book into ABS *)
(* in turn: a book found on the listing with an ISBN is skipped, one found *)
(* without is patched, one not found is downloaded, uploaded, waited for   *)
(* and patched.  The program keeps nothing between runs (ADR-003).         *)
(*                                                                         *)
(* Each step of run r is one remote call and the code up to the next; in   *)
(* between, the scanner, the user and other runs go on.  A call may fail,  *)
(* after or before its effect; a run may be interrupted (its context is    *)
(* cancelled and every later call fails) or killed.  Runs are started by   *)
(* cron: nothing stops two of them from overlapping.                       *)
(***************************************************************************)
EXTENDS Audiobookshelf

CONSTANTS
    Runs,         \* the processes
    DryRuns,      \* the values --dry-run is given
    Limit,        \* --limit; 0 is no limit
    MaxPolls,     \* how many polls the discovery budget pays for
    Admin,        \* whether the ABS token may start a scan
    MaxFaults     \* bound: failed calls, interrupts and kills altogether

ASSUME ReconcileAssumption ==
    /\ DryRuns \subseteq BOOLEAN
    /\ Limit \in Nat
    /\ MaxPolls \in Nat \ {0}
    /\ Admin \in BOOLEAN
    /\ MaxFaults \in Nat

VARIABLES
    run,          \* the state of each run
    owned,        \* how many books of the catalog have been bought so far
    faults

vars == <<absVars, run, owned, faults>>

-------------------------------------------------------------------------------
(* The index of classify.go over a listing, which is a sequence of items.  *)

(* The ISBNs of the index; blank ones stay out.  Which of two items with    *)
(* the same ISBN is indexed shows only in a line of the log.               *)
byISBN(listing) == {it.isbn : it \in ToSet(listing)} \ {""}

KeysOf(title, author) ==
    {fuzzKey(t, metaFirstAuthor(author)) : t \in Range(titleVariants(title))}

FullTitleKeys(it) == {fuzzKey(it.title, metaFirstAuthor(it.author))}             \* mutant
JoinedAuthorKeys(it) == {fuzzKey(t, it.author) : t \in Range(titleVariants(it.title))}   \* mutant
Keys(it) == KeysOf(it.title, it.author)

(* The first write wins in byFuzz.                                         *)
byFuzz(listing, key) ==
    {i \in DOMAIN listing :
        /\ key \in Keys(listing[i])
        /\ \A j \in DOMAIN listing : key \in Keys(listing[j]) => i <= j}

BookKeys(b) ==
    LET variants == titleVariants(b.title)
    IN  [k \in DOMAIN variants |-> fuzzKey(variants[k], b.author)]

(* The key the book is found under: the first of its keys the index has.   *)
FuzzHits(listing, b) ==
    {k \in DOMAIN BookKeys(b) :
        /\ byFuzz(listing, BookKeys(b)[k]) # {}
        /\ \A l \in DOMAIN BookKeys(b) : byFuzz(listing, BookKeys(b)[l]) # {} => k <= l}

PresentSynced(listing, b)     == b.isbn \in byISBN(listing)
PresentNoMetadata(listing, b) == ~ PresentSynced(listing, b) /\ FuzzHits(listing, b) # {}
NotPresent(listing, b)        == ~ PresentSynced(listing, b) /\ FuzzHits(listing, b) = {}

(* The item classify returns with PresentNoMetadata.                       *)
FirstListed(listing, b) == listing[1]                                           \* mutant
FuzzMatch(listing, b) ==
    LET key == BookKeys(b)[CHOOSE k \in FuzzHits(listing, b) : TRUE]
    IN  listing[CHOOSE i \in byFuzz(listing, key) : TRUE]

-------------------------------------------------------------------------------
Phases == {"idle", "list", "library", "next", "m4b", "mp3", "upload", "scan",
           "discover", "patch", "cover", "exit"}

Outcomes == {"already", "synced", "repaired", "failed"}   \* the counters of Summary

RunState ==
    [phase : Phases, dry : BOOLEAN, cancelled : BOOLEAN, listing : Seq(Items),
     considered : Nat, pos : Nat, polls : Nat, target : Nat, repair : BOOLEAN,
     summary : [Outcomes -> Nat]]

(* A process that is not running.                                          *)
Idle == [phase |-> "idle", dry |-> FALSE, cancelled |-> FALSE, listing |-> <<>>,
         considered |-> 0, pos |-> 1, polls |-> 0, target |-> 0, repair |-> FALSE,
         summary |-> [o \in Outcomes |-> 0]]

Init ==
    /\ AbsInit
    /\ run = [r \in Runs |-> Idle]
    /\ owned \in DOMAIN Catalog
    /\ faults = 0

Book(r) == Catalog[run[r].pos]

Running(r) == run[r].phase \notin {"idle", "exit"}

(* A call is answered; or it fails, on its own account or because the      *)
(* context of the run is done.                                             *)
Answered(r) == ~ run[r].cancelled /\ UNCHANGED faults
Fails(r) ==
    \/ run[r].cancelled /\ UNCHANGED faults
    \/ ~ run[r].cancelled /\ faults < MaxFaults /\ faults' = faults + 1

Goto(r, phase) == run' = [run EXCEPT ![r].phase = phase]
Quit(r)        == run' = [run EXCEPT ![r] = Idle]

(* Counts the book in the summary and turns to the next one.               *)
ForgetFailure(r, outcome) ==                                                    \* mutant
    run' = [run EXCEPT ![r].phase = "next", ![r].pos = @ + 1, ![r].polls = 0,
                       ![r].target = 0, ![r].repair = FALSE,
                       ![r].summary[outcome] = IF outcome = "failed" THEN @ ELSE @ + 1]
Count(r, outcome) ==
    run' = [run EXCEPT ![r].phase = "next", ![r].pos = @ + 1, ![r].polls = 0,
                       ![r].target = 0, ![r].repair = FALSE, ![r].summary[outcome] = @ + 1]

-------------------------------------------------------------------------------
(* Run: the listings.                                                      *)

StartRun(r) ==
    /\ ~ Running(r)
    /\ \E dry \in DryRuns :
          run' = [run EXCEPT ![r] = [Idle EXCEPT !.phase = "list", !.dry = dry]]
    /\ UNCHANGED <<absVars, owned, faults>>

(* Any failure before the first book ends the run.                         *)
ListItems(r) ==
    /\ run[r].phase = "list"
    /\ \/ /\ Answered(r)
          /\ \E listing \in SetToSeqs(items) :
                run' = [run EXCEPT ![r].phase = "library", ![r].listing = listing]
       \/ Fails(r) /\ Quit(r)
    /\ UNCHANGED <<absVars, owned>>

(* --limit cuts the list of books.                                         *)
OneOverLimit == IF 0 < Limit /\ Limit + 1 < owned THEN Limit + 1 ELSE owned      \* mutant
Considered   == IF 0 < Limit /\ Limit < owned THEN Limit ELSE owned

FetchLibrary(r) ==
    /\ run[r].phase = "library"
    /\ \/ /\ Answered(r)
          /\ run' = [run EXCEPT ![r].phase = "next", ![r].considered = Considered]
       \/ Fails(r) /\ Quit(r)
    /\ UNCHANGED <<absVars, owned>>

(* The loop over the books.  classify is given the listing of the start of *)
(* the run, however old it has become.  A dry run only counts.             *)
RefetchSynced(r) == PresentSynced(run[r].listing, Book(r)) /\ Goto(r, "m4b")    \* mutant
SkipBook(r)      == PresentSynced(run[r].listing, Book(r)) /\ Count(r, "already")

RepairBook(r) ==
    /\ PresentNoMetadata(run[r].listing, Book(r))
    /\ \/ run[r].dry /\ Count(r, "repaired")
       \/ /\ ~ run[r].dry
          /\ run' = [run EXCEPT ![r].phase = "patch", ![r].repair = TRUE,
                                ![r].target = FuzzMatch(run[r].listing, Book(r)).id]

SyncWhenDry(r) == NotPresent(run[r].listing, Book(r)) /\ Goto(r, "m4b")         \* mutant
SyncBook(r) ==
    /\ NotPresent(run[r].listing, Book(r))
    /\ \/ run[r].dry /\ Count(r, "synced")
       \/ ~ run[r].dry /\ Goto(r, "m4b")

NextBook(r) ==
    /\ run[r].phase = "next"
    /\ run[r].pos <= run[r].considered
    /\ SkipBook(r) \/ RepairBook(r) \/ SyncBook(r)
    /\ UNCHANGED <<absVars, owned, faults>>

Finish(r) ==
    /\ run[r].phase = "next"
    /\ run[r].pos > run[r].considered
    /\ run' = [run EXCEPT ![r].phase = "exit", ![r].listing = <<>>]
    /\ UNCHANGED <<absVars, owned, faults>>

-------------------------------------------------------------------------------
(* syncOne: download, upload, scan, discover.  A failed step fails the     *)
(* book, except for the scan request.                                      *)

DownloadM4B(r) ==
    /\ run[r].phase = "m4b"
    /\ \/ /\ Answered(r)
          /\ \/ Book(r).isbn = "" /\ Count(r, "failed")
             \/ Book(r).isbn # "" /\ Book(r).m4b /\ Goto(r, "upload")
             \/ Book(r).isbn # "" /\ ~ Book(r).m4b /\ Goto(r, "mp3")
       \/ Fails(r) /\ Count(r, "failed")
    /\ UNCHANGED <<absVars, owned>>

DownloadMP3(r) ==
    /\ run[r].phase = "mp3"
    /\ \/ Answered(r) /\ Goto(r, "upload")
       \/ Fails(r) /\ Count(r, "failed")
    /\ UNCHANGED <<absVars, owned>>

(* The files may have landed although the answer was lost.                 *)
UploadItem(r) ==
    /\ run[r].phase = "upload"
    /\ \/ Answered(r) /\ Receive(run[r].pos) /\ Goto(r, "scan")
       \/ /\ Fails(r) /\ Count(r, "failed")
          /\ Receive(run[r].pos) \/ UNCHANGED absVars
    /\ UNCHANGED owned

(* Non-fatal: a refused or failed request leaves indexing to the watcher.  *)
NoScan(r) ==                                                                     \* mutant
    run[r].phase = "scan" /\ Goto(r, "discover") /\ UNCHANGED <<absVars, owned, faults>>
TriggerScan(r) ==
    /\ run[r].phase = "scan"
    /\ \/ Answered(r) /\ Admin /\ AcceptScan
       \/ Answered(r) /\ ~ Admin /\ UNCHANGED absVars
       \/ Fails(r) /\ (UNCHANGED absVars \/ (Admin /\ AcceptScan))
    /\ Goto(r, "discover")
    /\ UNCHANGED owned

(* One poll.  The first hit whose title matches is taken for the upload;   *)
(* the order of the hits is the server's.                                  *)
AnyHit(b) == items                                                              \* mutant
Hits(b)   == {it \in items : titleMatches(it.title, uploadTitle(b))}

(* The answer to the last poll decides: found, poll again or give up.      *)
NotFoundIsSynced(r) == run[r].polls + 1 = MaxPolls /\ Count(r, "synced")        \* mutant
GiveUpPolling(r)    == run[r].polls + 1 = MaxPolls /\ Count(r, "failed")

Discover(r) ==
    /\ run[r].phase = "discover"
    /\ \/ /\ Answered(r)
          /\ \E it \in Hits(Book(r)) :
                run' = [run EXCEPT ![r].phase = "patch", ![r].target = it.id]
       \/ /\ Answered(r) /\ Hits(Book(r)) = {} /\ run[r].polls + 1 < MaxPolls
          /\ run' = [run EXCEPT ![r].polls = @ + 1]
       \/ Answered(r) /\ Hits(Book(r)) = {} /\ GiveUpPolling(r)
       \/ Fails(r) /\ Count(r, "failed")
    /\ UNCHANGED <<absVars, owned>>

-------------------------------------------------------------------------------
(* patchMetadata and setCover, on the way of both a sync and a repair.     *)

(* buildMetadataPayload: title and ISBN are always sent, the authors and   *)
(* the series only when the book has them.                                 *)
PatchedWithoutISBN(it, b) == [it EXCEPT !.title = b.title]                       \* mutant
PatchedSwapped(it, b) == [it EXCEPT !.title = b.author, !.author = b.title]      \* mutant
Patched(it, b) ==
    [it EXCEPT !.title  = b.title,
               !.isbn   = b.isbn,
               !.author = IF b.author = <<>> THEN @ ELSE b.author,
               !.series = IF b.series = <<>> THEN @ ELSE b.series]

PatchTarget(r) ==
    \E it \in ItemsWith(run[r].target) : Replace(it, Patched(it, Book(r)))

(* The request fails, or is carried out and its answer lost.               *)
PatchErrorIgnored(r) == Fails(r) /\ UNCHANGED absVars /\ Goto(r, "cover")        \* mutant
PatchFails(r) ==
    /\ Fails(r) /\ Count(r, "failed")
    /\ PatchTarget(r) \/ UNCHANGED absVars

patchMetadata(r) ==
    /\ run[r].phase = "patch"
    /\ \/ Answered(r) /\ PatchTarget(r) /\ Goto(r, "cover")
       \/ /\ Answered(r) /\ ItemsWith(run[r].target) = {}        \* 404
          /\ UNCHANGED absVars /\ Count(r, "failed")
       \/ PatchFails(r)
    /\ UNCHANGED owned

(* A missing cover never fails the book.                                   *)
setCover(r) ==
    /\ run[r].phase = "cover"
    /\ \/ /\ Answered(r) /\ Book(r).cover
          /\ \E it \in ItemsWith(run[r].target) : Replace(it, [it EXCEPT !.cover = TRUE])
       \/ Answered(r) /\ ~ Book(r).cover /\ UNCHANGED absVars
       \/ Answered(r) /\ ItemsWith(run[r].target) = {} /\ UNCHANGED absVars
       \/ Fails(r) /\ UNCHANGED absVars
    /\ Count(r, IF run[r].repair THEN "repaired" ELSE "synced")
    /\ UNCHANGED owned

-------------------------------------------------------------------------------
(* SIGINT and SIGTERM cancel the context and the loop goes on; SIGKILL, a  *)
(* crash or a reboot end the process at once.                              *)
Interrupt(r) ==
    /\ Running(r) /\ ~ run[r].cancelled /\ faults < MaxFaults
    /\ run' = [run EXCEPT ![r].cancelled = TRUE]
    /\ faults' = faults + 1
    /\ UNCHANGED <<absVars, owned>>

Kill(r) ==
    /\ Running(r) /\ faults < MaxFaults
    /\ Quit(r)
    /\ faults' = faults + 1
    /\ UNCHANGED <<absVars, owned>>

Purchase ==
    /\ owned < Len(Catalog)
    /\ owned' = owned + 1
    /\ UNCHANGED <<absVars, run, faults>>

Step(r) ==
    \/ ListItems(r) \/ FetchLibrary(r) \/ NextBook(r) \/ Finish(r)
    \/ DownloadM4B(r) \/ DownloadMP3(r) \/ UploadItem(r) \/ TriggerScan(r)
    \/ Discover(r) \/ patchMetadata(r) \/ setCover(r)

Server == \E n \in BookIds : ScanFolder(n) /\ UNCHANGED <<run, owned, faults>>

User ==
    /\ \/ \E m \in Manual : UserAdds(m)
       \/ \E it \in items : UserDeletes(it)
    /\ UNCHANGED <<run, owned, faults>>

Next ==
    \/ \E r \in Runs : StartRun(r) \/ Step(r) \/ Interrupt(r) \/ Kill(r)
    \/ Server \/ User \/ Purchase

Spec == Init /\ [][Next]_vars

(* Cron starts a run again and again, a run that is alive gets on with its *)
(* next call, and ABS indexes what it has been made to notice.             *)
Fairness ==
    /\ \A r \in Runs : WF_vars(StartRun(r)) /\ WF_vars(Step(r))
    /\ WF_vars(Server)

FairSpec == Spec /\ Fairness
-------------------------------------------------------------------------------
(* Properties.                                                             *)

(* Every variable has its type.                                            *)
TypeOK ==
    /\ AbsTypeOK
    /\ run \in [Runs -> RunState]
    /\ owned \in 0..Len(Catalog)
    /\ faults \in Nat

Counted(r) ==
    LET s == run[r].summary IN s["already"] + s["synced"] + s["repaired"] + s["failed"]

(* Whichever way a book goes through the loop of Run, it is counted once:  *)
(* the counters add up to the books behind the current one, and to all the *)
(* books considered when the run ends.                                     *)
Accounting ==
    \A r \in Runs :
        /\ Counted(r) = run[r].pos - 1
        /\ run[r].phase = "exit" => Counted(r) = run[r].considered

(* A run changes the library only on behalf of a book its listing did not  *)
(* show as synced, and a dry run never does.                               *)
MutationsJustified ==
    [][\A r \in Runs :
          run'[r] # run[r] /\ absVars' # absVars =>
             /\ ~ run[r].dry
             /\ run[r].pos <= owned
             /\ ~ PresentSynced(run[r].listing, Book(r))]_vars

(* An item's ISBN is that of a recording in its folder: the PATCH after a  *)
(* discovery or a fuzzy match never labels another book.                   *)
IsbnTellsTruth ==
    \A it \in items :
        it.isbn # "" => \E n \in it.holds \ {0} : Catalog[n].isbn = it.isbn

Mirrored(n) ==
    \E it \in items : n \in it.holds /\ it.isbn = Catalog[n].isbn /\ it.isbn # ""

(* Exit status 0 of a run that was not dry: every book it considered is in *)
(* the library under its own ISBN, unless the user deleted it.             *)
ExitZeroIsHonest ==
    \A r \in Runs :
        run[r].phase = "exit" /\ ~ run[r].dry /\ run[r].summary["failed"] = 0 =>
            \A n \in 1..run[r].considered : Mirrored(n) \/ n \in removed

(* The listed items that hold a book the run is about to fetch all the same. *)
Refetched(r) ==
    {it \in ToSet(run[r].listing) :
        run[r].phase \in {"m4b", "mp3", "upload"} /\ run[r].pos \in it.holds}

(* A book the library already held when the run listed it is repaired in   *)
(* place: never downloaded and uploaded again.                             *)
RepairsInPlace == \A r \in Runs : Refetched(r) = {}

(* With --limit, no book past the limit ever reaches the library.          *)
WithinLimit ==
    Limit > 0 =>
        \A n \in BookIds : n > Limit => n \notin landed /\ ~ Mirrored(n)

(* The item discovered after an upload is the one in the uploaded folder.  *)
DiscoversItsUpload ==
    \A r \in Runs :
        run[r].phase = "patch" /\ ~ run[r].repair =>
            \A it \in ItemsWith(run[r].target) : it.folder = Folder(Book(r))

(* The library as the user sees it, held to what librofm-sync promises.    *)
Promise == INSTANCE Mirror WITH
    Size <- Len(Catalog), mirrored <- {n \in BookIds : Mirrored(n)}

(* Books appear one by one, only bought ones do, and none disappears but   *)
(* by the hand of the user.                                                *)
KeepsPromise == Promise!Spec

(* Once purchases, failures and deletions stop, every book gets there and  *)
(* stays: a partial failure is recovered by a later run.                   *)
Settles == <>[](\A n \in 1..owned : Mirrored(n))

(* ... and the runs that follow find nothing to do: the algorithm is       *)
(* idempotent.                                                             *)
Quiesces == <>[](\A r \in Runs : run[r].phase \notin {"m4b", "upload", "patch"})
===============================================================================
