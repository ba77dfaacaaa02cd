--------------------------- MODULE SeparationProofs ----------------------------
(***************************************************************************)
(* The promises of Reconcile, proved for every separated catalog: ISBNs    *)
(* tell the truth, exit status 0 is honest, nothing is downloaded twice    *)
(* and the library only ever gains bought books.                           *)
(*                                                                         *)
(* The inductive invariant is SeparationInv on top of Invariants.  Its     *)
(* heart: an id means the same recording for ever, on the server, on the   *)
(* listing of a run and in the target of a run, however stale.             *)
(***************************************************************************)
EXTENDS Separation, ReconcileProofs, WellFoundedInduction

LibraryInv == IdsUnique /\ ItemsSeparate

(* What no step takes away, as seen by a run that remembers ids.           *)
Kept ==
    /\ LibraryInv'
    /\ \A id \in Nat, n \in Recordings :
          Remembers(id, n) =>
             /\ Remembers(id, n)'
             /\ Exists(id) \/ n \in removed => Exists(id)' \/ n \in removed'
    /\ \A n \in BookIds : Arrived(n) => Arrived(n)'

LEMMA BooksFromOne ==
  ASSUME NEW n \in BookIds
  PROVE  n >= 1 /\ n \notin {0}
  <1>1. n \in 1..Len(Catalog) /\ Len(Catalog) \in Nat
    BY CatalogFacts
  <1>2. n \in Nat /\ n >= 1
    BY <1>1
  <1> QED BY <1>2

LEMMA IdsAreNat ==
  ASSUME Invariants
  PROVE  /\ nextId \in Nat
         /\ \A it \in items : it.id \in Nat /\ it \in Items
  BY DEF Invariants, AbsOK, AbsTypeOK, Items

(* Nothing happens to the items.                                           *)
LEMMA SameKeeps ==
  ASSUME LibraryInv, UNCHANGED <<items, nextId, removed>>
  PROVE  Kept
  BY DEF Kept, LibraryInv, IdsUnique, ItemsSeparate, Remembers, Exists, Arrived, Mirrored

(* A new item appears, without an ISBN.                                    *)
LEMMA GrowKeeps ==
  ASSUME Invariants, LibraryInv, NEW new, NEW n \in Recordings,
         new.id = nextId, ItemOf(new, n),
         items' = items \union {new}, nextId' = nextId + 1, removed' = removed
  PROVE  Kept
  <1>1. nextId \in Nat /\ \A it \in items : it.id \in Nat /\ it.id < nextId
    BY IdsAreNat DEF LibraryInv, IdsUnique
  <1>2. IdsUnique'
    BY <1>1 DEF LibraryInv, IdsUnique
  <1>3. ItemsSeparate'
    BY DEF LibraryInv, ItemsSeparate
  <1>4. ASSUME NEW id \in Nat, NEW m \in Recordings, Remembers(id, m)
        PROVE  Remembers(id, m)' /\ (Exists(id) => Exists(id)')
    <2>1. id < nextId /\ id < nextId'
      BY <1>1, <1>4 DEF Remembers
    <2>2. \A it \in items' : it.id = id => it \in items
      BY <2>1
    <2> QED BY <1>4, <2>1, <2>2 DEF Remembers, Exists
  <1>5. \A m \in BookIds : Arrived(m) => Arrived(m)'
    BY DEF Arrived, Mirrored
  <1> QED BY <1>2, <1>3, <1>4, <1>5 DEF Kept, LibraryInv

(* An item changes: it stays of its recording and does not lose its ISBN.  *)
LEMMA ReplaceKeeps ==
  ASSUME Invariants, LibraryInv, NEW old \in items, NEW new, NEW n \in Recordings,
         new.id = old.id, ItemOf(old, n), ItemOf(new, n),
         old.isbn # "" => new.isbn # "",
         items' = (items \ {old}) \union {new}, nextId' = nextId, removed' = removed
  PROVE  Kept
  <1>1. nextId \in Nat /\ \A it \in items : it.id \in Nat /\ it.id < nextId
    BY IdsAreNat DEF LibraryInv, IdsUnique
  <1>2. IdsUnique'
    BY <1>1 DEF LibraryInv, IdsUnique
  <1>3. ItemsSeparate'
    BY DEF LibraryInv, ItemsSeparate
  <1>4. \A it \in items : it.id = old.id => it = old
    BY DEF LibraryInv, IdsUnique
  <1>5. ASSUME NEW id \in Nat, NEW m \in Recordings, Remembers(id, m)
        PROVE  Remembers(id, m)' /\ (Exists(id) => Exists(id)')
    <2>1. Exists(id) => Exists(id)'
      BY DEF Exists
    <2>2. ASSUME NEW it \in items', it.id = id
          PROVE  ItemOf(it, m)
      <3>1. CASE it = new
        <4>1. ItemOf(old, m)
          BY <1>5, <2>2, <3>1 DEF Remembers
        <4>2. m = n
          BY <4>1 DEF ItemOf
        <4> QED BY <3>1, <4>2
      <3>2. CASE it # new
        BY <1>5, <2>2, <3>2 DEF Remembers
      <3> QED BY <3>1, <3>2
    <2> QED BY <1>5, <2>1, <2>2 DEF Remembers
  <1>6. ASSUME NEW m \in BookIds, Arrived(m) PROVE Arrived(m)'
    <2>1. CASE m \in removed
      BY <2>1 DEF Arrived
    <2>2. CASE Mirrored(m)
      <3>1. PICK it \in items : m \in it.holds /\ it.isbn = Catalog[m].isbn /\ it.isbn # ""
        BY <2>2 DEF Mirrored
      <3>2. CASE it = old
        <4>1. m = n
          BY <3>1, <3>2 DEF ItemOf
        <4>2. m \in new.holds /\ new.isbn = Catalog[m].isbn /\ new.isbn # ""
          BY <3>1, <3>2, <4>1 DEF ItemOf
        <4> QED BY <4>2 DEF Arrived, Mirrored
      <3>3. CASE it # old
        BY <3>1, <3>3 DEF Arrived, Mirrored
      <3> QED BY <3>2, <3>3
    <2> QED BY <1>6, <2>1, <2>2 DEF Arrived
  <1> QED BY <1>2, <1>3, <1>5, <1>6 DEF Kept, LibraryInv

(* The user deletes an item.                                               *)
LEMMA DeleteKeeps ==
  ASSUME Invariants, LibraryInv, NEW old \in items, UserDeletes(old)
  PROVE  Kept
  <1>1. nextId \in Nat /\ \A it \in items : it.id \in Nat /\ it.id < nextId
    BY IdsAreNat DEF LibraryInv, IdsUnique
  <1>2. /\ items' = items \ {old} /\ nextId' = nextId
        /\ removed \subseteq removed' /\ old.holds \subseteq removed'
    BY DEF UserDeletes
  <1>3. LibraryInv'
    BY <1>2 DEF LibraryInv, IdsUnique, ItemsSeparate
  <1>4. ASSUME NEW id \in Nat, NEW m \in Recordings, Remembers(id, m)
        PROVE  /\ Remembers(id, m)'
               /\ Exists(id) \/ m \in removed => Exists(id)' \/ m \in removed'
    <2>1. Remembers(id, m)'
      BY <1>2, <1>4 DEF Remembers
    <2>2. CASE id = old.id
      <3>1. ItemOf(old, m)
        BY <1>4, <2>2 DEF Remembers
      <3> QED BY <1>2, <2>1, <3>1 DEF ItemOf
    <2>3. CASE id # old.id
      BY <1>2, <2>1, <2>3 DEF Exists
    <2> QED BY <2>2, <2>3
  <1>5. ASSUME NEW m \in BookIds, Arrived(m) PROVE Arrived(m)'
    BY <1>2, <1>5 DEF Arrived, Mirrored
  <1> QED BY <1>3, <1>4, <1>5 DEF Kept
-------------------------------------------------------------------------------
(* What a run knows stays true while others act.                           *)

RunTrue(r) == ListingTrue(r) /\ TargetTrue(r) /\ DownloadsNeeded(r) /\ Progress(r)

LEMMA RunFacts ==
  ASSUME Invariants, NEW r \in Runs
  PROVE  /\ run[r] \in RunState /\ RunOK(r)
         /\ run[r].pos \in Nat /\ run[r].pos >= 1 /\ run[r].target \in Nat
         /\ \A i \in DOMAIN run[r].listing : run[r].listing[i] \in Items
         /\ 1..(run[r].pos - 1) \subseteq BookIds
  <1>1. run[r] \in RunState /\ RunOK(r)
    BY DEF Invariants, RunTypeOK
  <1>2. /\ run[r].pos \in Nat /\ run[r].considered \in Nat /\ run[r].target \in Nat
        /\ run[r].listing \in Seq(Items)
    BY <1>1 DEF RunState
  <1>3. run[r].pos >= 1 /\ run[r].pos <= run[r].considered + 1 /\ run[r].considered <= owned
    BY <1>1 DEF RunOK
  <1>4. owned \in Nat /\ owned <= Len(Catalog)
    BY CatalogFacts DEF Invariants
  <1> QED BY <1>1, <1>2, <1>3, <1>4, CatalogFacts

LEMMA ListingKept ==
  ASSUME Invariants, Kept, NEW r \in Runs, ListingTrue(r),
         run'[r].listing = run[r].listing
  PROVE  ListingTrue(r)'
  <1>1. SUFFICES ASSUME NEW i \in DOMAIN run[r].listing
                 PROVE  Known(run[r].listing[i])'
    BY DEF ListingTrue
  <1>2. PICK it : it = run[r].listing[i]
    OBVIOUS
  <1>3. it.id \in Nat
    BY <1>2, RunFacts DEF Items
  <1>4. PICK n \in Recordings :
            /\ ItemOf(it, n)
            /\ Remembers(it.id, n)
            /\ it.isbn # "" => Arrived(n)
            /\ Exists(it.id) \/ n \in removed
    BY <1>2 DEF ListingTrue, Known
  <1>5. it.isbn # "" => n \in BookIds
    BY <1>4 DEF ItemOf
  <1>6. /\ Remembers(it.id, n)'
        /\ it.isbn # "" => Arrived(n)'
        /\ Exists(it.id)' \/ n \in removed'
    BY <1>3, <1>4, <1>5 DEF Kept
  <1>7. Known(it)'
    BY <1>4, <1>6 DEF Known
  <1>8. it = run'[r].listing[i]
    BY <1>2
  <1> QED BY <1>7, <1>8 DEF Known, Remembers, Exists
LEMMA TargetKept ==
  ASSUME Invariants, Kept, NEW r \in Runs, run[r].pos \in BookIds,
         Remembers(run[r].target, run[r].pos),
         run'[r].target = run[r].target, run'[r].pos = run[r].pos
  PROVE  Remembers(run[r].target, run[r].pos)'
  <1>1. PICK id \in Nat : id = run[r].target
    BY RunFacts
  <1>2. PICK n \in Recordings : n = run[r].pos
    BY DEF Recordings
  <1>3. Remembers(id, n)
    BY <1>1, <1>2 DEF Remembers
  <1>4. Remembers(id, n)'
    BY <1>3 DEF Kept
  <1> QED BY <1>1, <1>2, <1>4 DEF Remembers

LEMMA ArrivedKept ==
  ASSUME Kept, NEW n \in BookIds, Arrived(n)
  PROVE  Arrived(n)'
  BY DEF Kept

LEMMA ProgressKept ==
  ASSUME Invariants, Kept, NEW r \in Runs, Progress(r),
         run'[r].dry = run[r].dry, run'[r].summary = run[r].summary,
         run'[r].pos = run[r].pos, run'[r].phase = "cover" => Arrived(run[r].pos)'
  PROVE  Progress(r)'
  <1>1. ASSUME NEW n \in 1..(run[r].pos - 1), Arrived(n) PROVE Arrived(n)'
    BY <1>1, RunFacts, ArrivedKept
  <1> QED BY <1>1 DEF Progress

LEMMA DownloadsKept ==
  ASSUME NEW r \in Runs, NotPresent(run[r].listing, Book(r)),
         run'[r].listing = run[r].listing, run'[r].pos = run[r].pos
  PROVE  NotPresent(run[r].listing, Book(r))'
  <1>1. Book(r)' = Book(r)
    BY DEF Book
  <1> QED BY <1>1 DEF NotPresent, PresentSynced, byISBN, FuzzHits, byFuzz

LEMMA RunUntouched ==
  ASSUME Invariants, Kept, NEW r \in Runs, RunTrue(r), run'[r] = run[r]
  PROVE  RunTrue(r)'
  <1>1. ListingTrue(r)'
    BY ListingKept DEF RunTrue
  <1>2. TargetTrue(r)'
    BY AtWork, TargetKept DEF RunTrue, TargetTrue, Working
  <1>3. DownloadsNeeded(r)'
    BY DownloadsKept DEF RunTrue, DownloadsNeeded
  <1>4. Progress(r)'
    <2>1. ASSUME run[r].phase = "cover", ~ run[r].dry, run[r].summary["failed"] = 0
          PROVE  Arrived(run[r].pos)'
      <3>1. PICK n \in BookIds : n = run[r].pos
        BY <2>1, AtWork DEF Working
      <3>2. Arrived(n)'
        BY <2>1, <3>1, ArrivedKept DEF RunTrue, Progress
      <3> QED BY <3>1, <3>2 DEF Arrived, Mirrored
    <2>2. ASSUME NEW n \in 1..(run[r].pos - 1), Arrived(n) PROVE Arrived(n)'
      BY <2>2, RunFacts, ArrivedKept
    <2> QED BY <2>1, <2>2 DEF Progress, RunTrue
  <1> QED BY <1>1, <1>2, <1>3, <1>4 DEF RunTrue

LEMMA OthersTrue ==
  ASSUME Invariants, SeparationInv, Kept, NEW r \in Runs, RunTrue(r)',
         \A q \in Runs \ {r} : run'[q] = run[q]
  PROVE  SeparationInv'
  <1>1. \A q \in Runs \ {r} : RunTrue(q)'
    BY RunUntouched DEF SeparationInv, RunTrue
  <1> QED BY <1>1 DEF SeparationInv, RunTrue, Kept, LibraryInv

LEMMA NobodyMoves ==
  ASSUME Invariants, SeparationInv, Kept, run' = run
  PROVE  SeparationInv'
  <1>1. \A q \in Runs : RunTrue(q)'
    BY RunUntouched DEF SeparationInv, RunTrue
  <1> QED BY <1>1 DEF SeparationInv, RunTrue, Kept, LibraryInv

(* A book counted as anything but failed must have arrived.                *)
LEMMA CountTrue ==
  ASSUME Invariants, SeparationInv, Kept, NEW r \in Runs, NEW outcome \in Outcomes,
         Count(r, outcome), run[r].pos \in BookIds,
         \/ outcome = "failed" \/ run[r].dry \/ run[r].summary["failed"] # 0
         \/ \A n \in BookIds : n = run[r].pos => Arrived(n)'
  PROVE  SeparationInv'
  <1>1. /\ run'[r].phase = "next" /\ run'[r].pos = run[r].pos + 1
        /\ run'[r].dry = run[r].dry /\ run'[r].listing = run[r].listing
        /\ run'[r].summary = [run[r].summary EXCEPT ![outcome] = @ + 1]
        /\ \A q \in Runs \ {r} : run'[q] = run[q]
    BY CountEffect DEF Invariants
  <1>2. ListingTrue(r)'
    BY <1>1, ListingKept DEF SeparationInv
  <1>3. TargetTrue(r)' /\ DownloadsNeeded(r)'
    BY <1>1 DEF TargetTrue, DownloadsNeeded
  <1>4. run[r].pos \in Nat /\ run[r].pos >= 1 /\ run[r].summary \in [Outcomes -> Nat]
    BY RunFacts DEF RunState
  <1>5. run[r].summary["failed"] \in Nat /\ "failed" \in Outcomes
    BY <1>4 DEF Outcomes
  <1>6. ASSUME ~ run'[r].dry, run'[r].summary["failed"] = 0
        PROVE  outcome # "failed" /\ run[r].summary["failed"] = 0 /\ ~ run[r].dry
    BY <1>1, <1>4, <1>5, <1>6
  <1>7. ASSUME ~ run'[r].dry, run'[r].summary["failed"] = 0, NEW n \in 1..run[r].pos
        PROVE  Arrived(n)'
    <2>1. CASE n = run[r].pos
      BY <1>6, <1>7, <2>1
    <2>2. CASE n \in 1..(run[r].pos - 1)
      <3>1. n \in BookIds /\ Arrived(n)
        BY <1>6, <1>7, <2>2, RunFacts DEF SeparationInv, Progress
      <3> QED BY <3>1, ArrivedKept
    <2> QED BY <1>4, <2>1, <2>2
  <1>8. Progress(r)'
    <2>1. run'[r].pos - 1 = run[r].pos /\ run'[r].phase # "cover"
      BY <1>1, <1>4
    <2> QED BY <1>7, <2>1 DEF Progress
  <1> QED BY <1>1, <1>2, <1>3, <1>8, OthersTrue DEF RunTrue
(* A run that goes on with its book.                                       *)
LEMMA GoOnTrue ==
  ASSUME Invariants, SeparationInv, Kept, NEW r \in Runs, NEW phase \in Working,
         run[r].pos \in BookIds,
         /\ run'[r].phase = phase /\ run'[r].pos = run[r].pos
         /\ run'[r].dry = run[r].dry /\ run'[r].summary = run[r].summary
         /\ run'[r].listing = run[r].listing
         /\ \A q \in Runs \ {r} : run'[q] = run[q],
         phase \in {"patch", "cover"} => Remembers(run[r].target, run[r].pos)',
         phase \in {"m4b", "mp3", "upload"} => NotPresent(run[r].listing, Book(r)),
         phase = "cover" => Arrived(run[r].pos)'
  PROVE  SeparationInv'
  <1>1. ListingTrue(r)'
    BY ListingKept DEF SeparationInv
  <1>2. TargetTrue(r)'
    BY DEF TargetTrue
  <1>3. DownloadsNeeded(r)'
    BY DownloadsKept DEF DownloadsNeeded
  <1>4. Progress(r)'
    BY ProgressKept DEF SeparationInv
  <1> QED BY <1>1, <1>2, <1>3, <1>4, OthersTrue DEF RunTrue

LEMMA GotoTrue ==
  ASSUME Invariants, SeparationInv, Kept, NEW r \in Runs, NEW phase \in Working,
         run[r].pos \in BookIds, Goto(r, phase),
         phase \notin {"patch", "cover"},
         phase \in {"m4b", "mp3", "upload"} => NotPresent(run[r].listing, Book(r))
  PROVE  SeparationInv'
  <1>1. phase \in Phases
    BY DEF Phases, Working
  <1>2. run'[r] = [run[r] EXCEPT !.phase = phase] /\ \A q \in Runs \ {r} : run'[q] = run[q]
    BY <1>1, GotoEffect DEF Invariants
  <1>3. /\ run'[r].phase = phase /\ run'[r].pos = run[r].pos
        /\ run'[r].dry = run[r].dry /\ run'[r].summary = run[r].summary
        /\ run'[r].listing = run[r].listing
    BY <1>2, RunFacts DEF RunState
  <1> QED BY <1>2, <1>3, GoOnTrue

(* A run that has nothing on its hands.                                    *)
LEMMA FreshTrue ==
  ASSUME Invariants, SeparationInv, Kept, NEW r \in Runs,
         run'[r].listing = <<>>, run'[r].pos = 1,
         run'[r].phase \in {"idle", "list"},
         \A q \in Runs \ {r} : run'[q] = run[q]
  PROVE  SeparationInv'
  <1>1. ListingTrue(r)'
    BY DEF ListingTrue
  <1>2. TargetTrue(r)' /\ DownloadsNeeded(r)' /\ Progress(r)'
    BY DEF TargetTrue, DownloadsNeeded, Progress
  <1> QED BY <1>1, <1>2, OthersTrue DEF RunTrue

LEMMA QuitTrue ==
  ASSUME Invariants, SeparationInv, Kept, NEW r \in Runs, Quit(r)
  PROVE  SeparationInv'
  <1>1. run'[r] = Idle /\ \A q \in Runs \ {r} : run'[q] = run[q]
    BY DEF Quit, Invariants, RunTypeOK
  <1> QED BY <1>1, FreshTrue DEF Idle

-------------------------------------------------------------------------------
(* The steps of a run that leave the items alone.                          *)

LEMMA Keeps == ASSUME SeparationInv, UNCHANGED <<items, nextId, removed>> PROVE Kept
  BY SameKeeps DEF SeparationInv, LibraryInv

LEMMA StartRunTrue ==
  ASSUME Invariants, SeparationInv, NEW r \in Runs, StartRun(r)
  PROVE  SeparationInv'
  <1>1. PICK dry \in DryRuns :
           run' = [run EXCEPT ![r] = [Idle EXCEPT !.phase = "list", !.dry = dry]]
    BY DEF StartRun
  <1>2. /\ run'[r] = [Idle EXCEPT !.phase = "list", !.dry = dry]
        /\ \A q \in Runs \ {r} : run'[q] = run[q]
    BY <1>1 DEF Invariants, RunTypeOK
  <1>3. run'[r].phase = "list" /\ run'[r].pos = 1 /\ run'[r].listing = <<>>
    BY <1>2 DEF Idle
  <1>4. Kept
    BY Keeps DEF StartRun, absVars
  <1> QED BY <1>2, <1>3, <1>4, FreshTrue

(* The listing is true when it is made.                                    *)
LEMMA ListedIsKnown ==
  ASSUME Invariants, SeparationInv, NEW it \in items
  PROVE  Known(it)
  <1>1. PICK n \in Recordings : ItemOf(it, n)
    BY DEF SeparationInv, ItemsSeparate
  <1>2. Remembers(it.id, n) /\ Exists(it.id)
    BY <1>1 DEF SeparationInv, IdsUnique, Remembers, Exists
  <1>3. it.isbn # "" => Arrived(n)
    BY <1>1 DEF ItemOf, Arrived, Mirrored
  <1> QED BY <1>1, <1>2, <1>3 DEF Known

LEMMA ListItemsTrue ==
  ASSUME Invariants, SeparationInv, NEW r \in Runs, ListItems(r)
  PROVE  SeparationInv'
  <1>1. Kept /\ UNCHANGED absVars
    BY Keeps DEF ListItems, absVars
  <1>2. ASSUME NEW listing \in SetToSeqs(items),
               run' = [run EXCEPT ![r].phase = "library", ![r].listing = listing]
        PROVE  SeparationInv'
    <2>1. run[r].phase = "list" /\ run[r] \in RunState
      BY RunFacts DEF ListItems
    <2>2. /\ run'[r].phase = "library" /\ run'[r].pos = run[r].pos
          /\ run'[r].dry = run[r].dry /\ run'[r].summary = run[r].summary
          /\ run'[r].listing = listing
          /\ \A q \in Runs \ {r} : run'[q] = run[q]
      BY <1>2, <2>1 DEF RunState, Invariants, RunTypeOK
    <2>3. \A i \in DOMAIN listing : Known(listing[i])
      BY ListingType, ListedIsKnown DEF Invariants
    <2>4. ListingTrue(r)'
      BY <1>1, <2>2, <2>3 DEF ListingTrue, Known, Remembers, Exists, Arrived, Mirrored, absVars
    <2>5. TargetTrue(r)' /\ DownloadsNeeded(r)'
      BY <2>2 DEF TargetTrue, DownloadsNeeded
    <2>6. Progress(r)'
      BY <1>1, <2>2, ProgressKept DEF SeparationInv
    <2> QED BY <1>1, <2>2, <2>4, <2>5, <2>6, OthersTrue DEF RunTrue
  <1>3. CASE Quit(r)
    BY <1>1, <1>3, QuitTrue
  <1> QED BY <1>2, <1>3 DEF ListItems

LEMMA FetchLibraryTrue ==
  ASSUME Invariants, SeparationInv, NEW r \in Runs, FetchLibrary(r)
  PROVE  SeparationInv'
  <1>1. Kept
    BY Keeps DEF FetchLibrary, absVars
  <1>2. CASE run' = [run EXCEPT ![r].phase = "next", ![r].considered = Considered]
    <2>1. /\ run'[r].phase = "next" /\ run'[r].pos = run[r].pos
          /\ run'[r].dry = run[r].dry /\ run'[r].summary = run[r].summary
          /\ run'[r].listing = run[r].listing
          /\ \A q \in Runs \ {r} : run'[q] = run[q]
      BY <1>2, RunFacts DEF RunState, Invariants, RunTypeOK
    <2>2. ListingTrue(r)' /\ TargetTrue(r)' /\ DownloadsNeeded(r)'
      BY <1>1, <2>1, ListingKept DEF SeparationInv, TargetTrue, DownloadsNeeded
    <2>3. Progress(r)'
      BY <1>1, <2>1, ProgressKept DEF SeparationInv
    <2> QED BY <1>1, <2>1, <2>2, <2>3, OthersTrue DEF RunTrue
  <1>3. CASE Quit(r)
    BY <1>1, <1>3, QuitTrue
  <1> QED BY <1>2, <1>3 DEF FetchLibrary

LEMMA FinishTrue ==
  ASSUME Invariants, SeparationInv, NEW r \in Runs, Finish(r)
  PROVE  SeparationInv'
  <1>1. Kept
    BY Keeps DEF Finish, absVars
  <1>2. /\ run'[r].phase = "exit" /\ run'[r].pos = run[r].pos
        /\ run'[r].dry = run[r].dry /\ run'[r].summary = run[r].summary
        /\ run'[r].listing = <<>>
        /\ \A q \in Runs \ {r} : run'[q] = run[q]
    BY RunFacts DEF Finish, RunState, Invariants, RunTypeOK
  <1>3. ListingTrue(r)' /\ TargetTrue(r)' /\ DownloadsNeeded(r)'
    BY <1>2 DEF ListingTrue, TargetTrue, DownloadsNeeded
  <1>4. Progress(r)'
    BY <1>1, <1>2, ProgressKept DEF SeparationInv
  <1> QED BY <1>1, <1>2, <1>3, <1>4, OthersTrue DEF RunTrue

-------------------------------------------------------------------------------
(* The loop over the books: this is where a stale listing is trusted.      *)

(* A listed item that the index gives for a book is the book's.            *)
LEMMA SyncedHasArrived ==
  ASSUME Invariants, SeparationInv, NEW r \in Runs, NEW pos \in BookIds,
         PresentSynced(run[r].listing, Catalog[pos])
  PROVE  Arrived(pos)
  <1>1. PICK i \in DOMAIN run[r].listing :
            /\ run[r].listing[i].isbn = Catalog[pos].isbn
            /\ run[r].listing[i].isbn # ""
    BY DEF PresentSynced, byISBN, ToSet
  <1>2. PICK it : it = run[r].listing[i]
    OBVIOUS
  <1>3. PICK n \in Recordings : ItemOf(it, n) /\ (it.isbn # "" => Arrived(n))
    BY <1>2 DEF SeparationInv, ListingTrue, Known
  <1>4. n \in BookIds /\ Catalog[n].isbn = Catalog[pos].isbn /\ Arrived(n)
    BY <1>1, <1>2, <1>3 DEF ItemOf
  <1>5. n = pos
    BY <1>4, SeparatedCatalog DEF DistinctISBNs
  <1> QED BY <1>4, <1>5

LEMMA OwnLook ==
  ASSUME NEW pos \in BookIds, NEW n \in Recordings, NEW it, ItemOf(it, n),
         Recognises(Catalog[pos], it.title, it.author)
  PROVE  n = pos
  BY SeparatedCatalog DEF DistinctLooks, ItemOf

LEMMA FuzzMatchIsOwn ==
  ASSUME Invariants, SeparationInv, NEW r \in Runs, NEW pos \in BookIds,
         FuzzHits(run[r].listing, Catalog[pos]) # {}
  PROVE  Remembers(FuzzMatch(run[r].listing, Catalog[pos]).id, pos)
  <1>1. PICK i \in DOMAIN run[r].listing :
            /\ FuzzMatch(run[r].listing, Catalog[pos]) = run[r].listing[i]
            /\ \E k \in DOMAIN BookKeys(Catalog[pos]) :
                  BookKeys(Catalog[pos])[k] \in Keys(run[r].listing[i])
    BY FuzzMatchIsListed
  <1>2. PICK it : it = run[r].listing[i]
    OBVIOUS
  <1>3. PICK n \in Recordings : ItemOf(it, n) /\ Remembers(it.id, n)
    BY <1>2 DEF SeparationInv, ListingTrue, Known
  <1>4. Recognises(Catalog[pos], it.title, it.author)
    BY <1>1, <1>2 DEF Recognises, Keys
  <1>5. n = pos
    BY <1>3, <1>4, OwnLook
  <1> QED BY <1>1, <1>2, <1>3, <1>5

LEMMA NextBookTrue ==
  ASSUME Invariants, SeparationInv, NEW r \in Runs, NextBook(r)
  PROVE  SeparationInv'
  <1>1. PICK pos \in BookIds : pos = run[r].pos
    <2>1. run[r].pos <= run[r].considered /\ run[r].considered \in Nat
      BY RunFacts DEF NextBook, RunState
    <2>2. run[r].considered <= owned /\ owned \in Nat /\ owned <= Len(Catalog)
      BY RunFacts, CatalogFacts DEF RunOK, Invariants
    <2> QED BY <2>1, <2>2, RunFacts, CatalogFacts
  <1>2. Kept /\ Book(r) = Catalog[pos]
    BY <1>1, Keeps DEF NextBook, absVars, Book
  <1>3. CASE PresentSynced(run[r].listing, Book(r)) /\ Count(r, "already")
    <2>1. Arrived(pos)'
      BY <1>2, <1>3, SyncedHasArrived, ArrivedKept
    <2> QED BY <1>1, <1>2, <1>3, <2>1, CountTrue DEF Outcomes, Arrived, Mirrored
  <1>4. CASE run[r].dry /\ (Count(r, "repaired") \/ Count(r, "synced"))
    BY <1>1, <1>2, <1>4, CountTrue DEF Outcomes
  <1>5. CASE /\ PresentNoMetadata(run[r].listing, Book(r))
             /\ run' = [run EXCEPT ![r].phase = "patch", ![r].repair = TRUE,
                                   ![r].target = FuzzMatch(run[r].listing, Book(r)).id]
    <2>1. PICK target : target = FuzzMatch(run[r].listing, Book(r)).id
      OBVIOUS
    <2>2. Remembers(target, pos)
      BY <1>2, <1>5, <2>1, FuzzMatchIsOwn DEF PresentNoMetadata
    <2>3. Remembers(target, pos)'
      BY <2>2 DEF Remembers, NextBook, absVars
    <2>4. /\ run'[r].phase = "patch" /\ run'[r].pos = run[r].pos
          /\ run'[r].dry = run[r].dry /\ run'[r].summary = run[r].summary
          /\ run'[r].listing = run[r].listing /\ run'[r].target = target
          /\ \A q \in Runs \ {r} : run'[q] = run[q]
      BY <1>5, <2>1, RunFacts DEF RunState, Invariants, RunTypeOK
    <2>5. Remembers(run[r].target, run[r].pos)'
      BY <1>1, <2>3, <2>4 DEF Remembers
    <2> QED BY <1>1, <1>2, <2>4, <2>5, GoOnTrue DEF Working
  <1>6. CASE NotPresent(run[r].listing, Book(r)) /\ Goto(r, "m4b")
    BY <1>1, <1>2, <1>6, GotoTrue DEF Working
  <1> QED BY <1>3, <1>4, <1>5, <1>6 DEF NextBook, SkipBook, RepairBook, SyncBook

-------------------------------------------------------------------------------
(* syncOne, up to the discovery.                                           *)

LEMMA Here ==
  ASSUME Invariants, NEW r \in Runs, run[r].phase \in Working
  PROVE  \E pos \in BookIds : pos = run[r].pos /\ Book(r) = Catalog[pos] /\ pos \notin {0}
  BY AtWork, CatalogFacts DEF Book

LEMMA DownloadTrue ==
  ASSUME Invariants, SeparationInv, NEW r \in Runs, DownloadM4B(r) \/ DownloadMP3(r)
  PROVE  SeparationInv'
  <1>1. Kept
    BY Keeps DEF DownloadM4B, DownloadMP3, absVars
  <1>2. run[r].phase \in Working /\ NotPresent(run[r].listing, Book(r))
    BY DEF DownloadM4B, DownloadMP3, Working, SeparationInv, DownloadsNeeded
  <1>3. run[r].pos \in BookIds
    BY <1>2, AtWork
  <1>4. CASE Count(r, "failed")
    BY <1>1, <1>3, <1>4, CountTrue DEF Outcomes
  <1>5. CASE Goto(r, "upload")
    BY <1>1, <1>2, <1>3, <1>5, GotoTrue DEF Working
  <1>6. CASE Goto(r, "mp3")
    BY <1>1, <1>2, <1>3, <1>6, GotoTrue DEF Working
  <1> QED BY <1>4, <1>5, <1>6 DEF DownloadM4B, DownloadMP3

LEMMA UploadItemTrue ==
  ASSUME Invariants, SeparationInv, NEW r \in Runs, UploadItem(r)
  PROVE  SeparationInv'
  <1>1. Kept
    BY Keeps DEF UploadItem, Receive, absVars
  <1>2. run[r].pos \in BookIds
    BY AtWork DEF UploadItem, Working
  <1>3. CASE Count(r, "failed")
    BY <1>1, <1>2, <1>3, CountTrue DEF Outcomes
  <1>4. CASE Goto(r, "scan")
    BY <1>1, <1>2, <1>4, GotoTrue DEF Working
  <1> QED BY <1>3, <1>4 DEF UploadItem

LEMMA TriggerScanTrue ==
  ASSUME Invariants, SeparationInv, NEW r \in Runs, TriggerScan(r)
  PROVE  SeparationInv'
  <1>1. Kept
    BY Keeps DEF TriggerScan, AcceptScan, absVars
  <1>2. run[r].pos \in BookIds
    BY AtWork DEF TriggerScan, Working
  <1> QED BY <1>1, <1>2, GotoTrue DEF TriggerScan, Working

(* The hit the discovery takes is the book's.                              *)
LEMMA HitIsOwn ==
  ASSUME SeparationInv, NEW pos \in BookIds, NEW it \in items,
         titleMatches(it.title, uploadTitle(Catalog[pos]))
  PROVE  Remembers(it.id, pos)
  <1>1. PICK n \in Recordings : ItemOf(it, n)
    BY DEF SeparationInv, ItemsSeparate
  <1>2. n = pos
    BY <1>1, SeparatedCatalog DEF DistinctLooks, ItemOf
  <1> QED BY <1>1, <1>2 DEF SeparationInv, IdsUnique, Remembers

LEMMA DiscoverTrue ==
  ASSUME Invariants, SeparationInv, NEW r \in Runs, Discover(r)
  PROVE  SeparationInv'
  <1>1. Kept
    BY Keeps DEF Discover, absVars
  <1>2. run[r].phase = "discover" /\ run[r].phase \in Working
    BY DEF Discover, Working
  <1>3. PICK pos \in BookIds : pos = run[r].pos /\ Book(r) = Catalog[pos]
    BY <1>2, Here
  <1>4. ASSUME NEW it \in items, titleMatches(it.title, uploadTitle(Book(r))),
               run' = [run EXCEPT ![r].phase = "patch", ![r].target = it.id]
        PROVE  SeparationInv'
    <2>1. PICK target : target = it.id
      OBVIOUS
    <2>2. Remembers(target, pos)
      BY <1>3, <1>4, <2>1, HitIsOwn
    <2>3. Remembers(target, pos)'
      BY <2>2 DEF Remembers, Discover, absVars
    <2>4. /\ run'[r].phase = "patch" /\ run'[r].pos = run[r].pos
          /\ run'[r].dry = run[r].dry /\ run'[r].summary = run[r].summary
          /\ run'[r].listing = run[r].listing /\ run'[r].target = target
          /\ \A q \in Runs \ {r} : run'[q] = run[q]
      BY <1>4, <2>1, RunFacts DEF RunState, Invariants, RunTypeOK
    <2>5. Remembers(run[r].target, run[r].pos)'
      BY <1>3, <2>3, <2>4 DEF Remembers
    <2> QED BY <1>1, <1>3, <2>4, <2>5, GoOnTrue DEF Working
  <1>5. CASE run' = [run EXCEPT ![r].polls = @ + 1]
    <2>1. /\ run'[r].phase = "discover" /\ run'[r].pos = run[r].pos
          /\ run'[r].dry = run[r].dry /\ run'[r].summary = run[r].summary
          /\ run'[r].listing = run[r].listing
          /\ \A q \in Runs \ {r} : run'[q] = run[q]
      BY <1>2, <1>5, RunFacts DEF RunState, Invariants, RunTypeOK
    <2> QED BY <1>1, <1>3, <2>1, GoOnTrue DEF Working
  <1>6. CASE Count(r, "failed")
    BY <1>1, <1>3, <1>6, CountTrue DEF Outcomes
  <1> QED BY <1>4, <1>5, <1>6 DEF Discover, Hits, GiveUpPolling

-------------------------------------------------------------------------------
(* patchMetadata and setCover: the steps that write to an item.            *)

LEMMA PatchedIsItem ==
  ASSUME NEW pos \in BookIds, NEW it \in Items, ItemOf(it, pos)
  PROVE  /\ ItemOf(Patched(it, Catalog[pos]), pos)
         /\ Patched(it, Catalog[pos]).id = it.id
         /\ Patched(it, Catalog[pos]).isbn = Catalog[pos].isbn
         /\ Catalog[pos].isbn # ""
  <1> DEFINE new == Patched(it, Catalog[pos])
  <1>1. /\ new.holds = it.holds /\ new.id = it.id /\ new.folder = it.folder
        /\ new.title = Catalog[pos].title /\ new.isbn = Catalog[pos].isbn
        /\ new.author \in {it.author, Catalog[pos].author}
    BY DEF Patched, Items
  <1>2. Catalog[pos].title \in TitlesShown(pos) /\ Catalog[pos].author \in AuthorsShown(pos)
    BY DEF TitlesShown, AuthorsShown, TitlesOf, AuthorsOf
  <1>3. Catalog[pos].isbn # ""
    BY SeparatedCatalog DEF DistinctISBNs
  <1> HIDE DEF new
  <1>4. ItemOf(new, pos)
    BY <1>1, <1>2 DEF ItemOf
  <1> QED BY <1>1, <1>3, <1>4 DEF new

LEMMA PatchTargetTrue ==
  ASSUME Invariants, SeparationInv, NEW r \in Runs, run[r].phase = "patch",
         NEW pos \in BookIds, pos = run[r].pos, PatchTarget(r)
  PROVE  Kept /\ Arrived(pos)'
  <1>1. PICK it \in ItemsWith(run[r].target) : Replace(it, Patched(it, Book(r)))
    BY DEF PatchTarget
  <1>2. Book(r) = Catalog[pos] /\ it \in items /\ it \in Items
    BY IdsAreNat DEF Book, ItemsWith
  <1>3. ItemOf(it, pos)
    BY <1>1, <1>2 DEF SeparationInv, TargetTrue, Remembers, ItemsWith
  <1>4. PICK new : new = Patched(it, Catalog[pos])
    OBVIOUS
  <1>5. ItemOf(new, pos) /\ new.id = it.id /\ new.isbn = Catalog[pos].isbn /\ new.isbn # ""
    BY <1>2, <1>3, <1>4, PatchedIsItem
  <1>6. items' = (items \ {it}) \union {new} /\ nextId' = nextId /\ removed' = removed
    BY <1>1, <1>2, <1>4 DEF Replace
  <1>7. Kept
    BY <1>2, <1>3, <1>5, <1>6, ReplaceKeeps DEF Recordings, SeparationInv, LibraryInv
  <1>8. Arrived(pos)'
    BY <1>5, <1>6 DEF Arrived, Mirrored, ItemOf
  <1> QED BY <1>7, <1>8

LEMMA patchMetadataTrue ==
  ASSUME Invariants, SeparationInv, NEW r \in Runs, patchMetadata(r)
  PROVE  SeparationInv'
  <1>1. run[r].phase = "patch" /\ run[r].phase \in Working
    BY DEF patchMetadata, Working
  <1>2. PICK pos \in BookIds : pos = run[r].pos
    BY <1>1, Here
  <1>3. CASE PatchTarget(r) /\ Goto(r, "cover")
    <2>1. Kept /\ Arrived(pos)'
      BY <1>1, <1>2, <1>3, PatchTargetTrue
    <2>2. /\ run'[r].phase = "cover" /\ run'[r].pos = run[r].pos
          /\ run'[r].dry = run[r].dry /\ run'[r].summary = run[r].summary
          /\ run'[r].listing = run[r].listing /\ run'[r].target = run[r].target
          /\ \A q \in Runs \ {r} : run'[q] = run[q]
      BY <1>3, RunFacts DEF Goto, RunState, Invariants, RunTypeOK
    <2>3. Remembers(run[r].target, run[r].pos)'
      BY <1>1, <1>2, <2>1, <2>2, TargetKept DEF SeparationInv, TargetTrue
    <2>4. Arrived(run[r].pos)'
      BY <1>2, <2>1, <2>2 DEF Arrived, Mirrored
    <2> QED BY <1>2, <2>1, <2>2, <2>3, <2>4, GoOnTrue DEF Working
  <1>4. CASE Count(r, "failed")
    <2>1. Kept
      BY <1>1, <1>2, <1>4, PatchTargetTrue, Keeps DEF patchMetadata, PatchFails, absVars
    <2> QED BY <1>2, <1>4, <2>1, CountTrue DEF Outcomes
  <1> QED BY <1>3, <1>4 DEF patchMetadata, PatchFails

LEMMA setCoverTrue ==
  ASSUME Invariants, SeparationInv, NEW r \in Runs, setCover(r)
  PROVE  SeparationInv'
  <1>1. run[r].phase = "cover" /\ run[r].phase \in Working
    BY DEF setCover, Working
  <1>2. PICK pos \in BookIds : pos = run[r].pos
    BY <1>1, Here
  <1>3. Kept
    <2>1. ASSUME NEW it \in ItemsWith(run[r].target), Replace(it, [it EXCEPT !.cover = TRUE])
          PROVE  Kept
      <3>1. it \in items /\ it \in Items
        BY IdsAreNat DEF ItemsWith
      <3>2. ItemOf(it, pos)
        BY <1>1, <1>2, <3>1 DEF SeparationInv, TargetTrue, Remembers, ItemsWith
      <3>3. PICK new : new = [it EXCEPT !.cover = TRUE]
        OBVIOUS
      <3>4. ItemOf(new, pos) /\ new.id = it.id /\ new.isbn = it.isbn
        BY <3>1, <3>2, <3>3 DEF ItemOf, Items
      <3>5. items' = (items \ {it}) \union {new} /\ nextId' = nextId /\ removed' = removed
        BY <2>1, <3>3 DEF Replace
      <3> QED BY <3>1, <3>2, <3>4, <3>5, ReplaceKeeps DEF Recordings, SeparationInv, LibraryInv
    <2> QED BY <2>1, Keeps DEF setCover, absVars
  <1>4. ~ run[r].dry /\ run[r].summary["failed"] = 0 => Arrived(pos)'
    <2>1. ~ run[r].dry /\ run[r].summary["failed"] = 0 => Arrived(pos)
      BY <1>1, <1>2 DEF SeparationInv, Progress
    <2> QED BY <1>3, <2>1, ArrivedKept
  <1>5. \A n \in BookIds : n = run[r].pos /\ ~ run[r].dry /\ run[r].summary["failed"] = 0
                              => Arrived(n)'
    BY <1>2, <1>4 DEF Arrived, Mirrored
  <1>6. PICK outcome \in Outcomes : Count(r, outcome)
    BY DEF setCover, Outcomes
  <1> QED BY <1>2, <1>3, <1>5, <1>6, CountTrue

-------------------------------------------------------------------------------
(* The steps that are no run's own.                                        *)

LEMMA InterruptTrue ==
  ASSUME Invariants, SeparationInv, NEW r \in Runs, Interrupt(r)
  PROVE  SeparationInv'
  <1>1. Kept
    BY Keeps DEF Interrupt, absVars
  <1>2. /\ run'[r].phase = run[r].phase /\ run'[r].pos = run[r].pos
        /\ run'[r].dry = run[r].dry /\ run'[r].summary = run[r].summary
        /\ run'[r].listing = run[r].listing /\ run'[r].target = run[r].target
        /\ \A q \in Runs \ {r} : run'[q] = run[q]
    BY RunFacts DEF Interrupt, RunState, Invariants, RunTypeOK
  <1>3. ListingTrue(r)'
    BY <1>1, <1>2, ListingKept DEF SeparationInv
  <1>4. TargetTrue(r)'
    BY <1>1, <1>2, AtWork, TargetKept DEF SeparationInv, TargetTrue, Remembers, Working
  <1>5. DownloadsNeeded(r)'
    BY <1>2, DownloadsKept DEF SeparationInv, DownloadsNeeded
  <1>6. Progress(r)'
    <2>1. \A n : Arrived(n)' = Arrived(n)
      BY DEF Interrupt, absVars, Arrived, Mirrored
    <2> QED BY <1>2, <2>1 DEF SeparationInv, Progress
  <1> QED BY <1>1, <1>2, <1>3, <1>4, <1>5, <1>6, OthersTrue DEF RunTrue

LEMMA KillTrue ==
  ASSUME Invariants, SeparationInv, NEW r \in Runs, Kill(r)
  PROVE  SeparationInv'
  BY Keeps, QuitTrue DEF Kill, absVars

(* The folder of a book is nobody else's: its files join its own item.     *)
LEMMA ScanFolderKeeps ==
  ASSUME Invariants, SeparationInv, NEW n \in BookIds, ScanFolder(n)
  PROVE  Kept
  <1>1. n \in Recordings /\ LibraryInv
    BY DEF Recordings, SeparationInv, LibraryInv
  <1>2. Folder(Catalog[n]) \in FoldersOf(n)
    BY DEF FoldersOf
  <1>3. ASSUME NEW it \in ItemsIn(Folder(Catalog[n])),
               items' = (items \ {it}) \union {[it EXCEPT !.holds = @ \union {n}]},
               nextId' = nextId
        PROVE  Kept
    <2>1. it \in items /\ it \in Items /\ it.folder = Folder(Catalog[n])
      BY IdsAreNat DEF ItemsIn
    <2>2. PICK k \in Recordings : ItemOf(it, k)
      BY <2>1 DEF SeparationInv, ItemsSeparate
    <2>3. k = n
      BY <1>1, <1>2, <2>1, <2>2, SeparatedCatalog DEF DistinctFolders, ItemOf
    <2>4. PICK new : new = [it EXCEPT !.holds = @ \union {n}]
      OBVIOUS
    <2>5. ItemOf(new, n) /\ new.id = it.id /\ new.isbn = it.isbn
      BY <2>1, <2>2, <2>3, <2>4 DEF ItemOf, Items
    <2>6. removed' = removed
      BY DEF ScanFolder
    <2> QED BY <1>1, <1>3, <2>1, <2>2, <2>3, <2>4, <2>5, <2>6, ReplaceKeeps
  <1>4. ASSUME NEW title \in ScannedTitles(Catalog[n]),
               items' = items \union
                   {[id |-> nextId, folder |-> Folder(Catalog[n]), title |-> title,
                     author |-> uploadAuthor(Catalog[n]), series |-> uploadSeries(Catalog[n]),
                     isbn |-> "", cover |-> FALSE, holds |-> {n}]},
               nextId' = nextId + 1
        PROVE  Kept
    <2>1. PICK new : new =
                   [id |-> nextId, folder |-> Folder(Catalog[n]), title |-> title,
                    author |-> uploadAuthor(Catalog[n]), series |-> uploadSeries(Catalog[n]),
                    isbn |-> "", cover |-> FALSE, holds |-> {n}]
      OBVIOUS
    <2>2. title \in TitlesShown(n) /\ uploadAuthor(Catalog[n]) \in AuthorsShown(n)
      BY DEF TitlesShown, TitlesOf, AuthorsShown, AuthorsOf
    <2>3. ItemOf(new, n) /\ new.id = nextId
      BY <1>2, <2>1, <2>2 DEF ItemOf
    <2>4. removed' = removed
      BY DEF ScanFolder
    <2> QED BY <1>1, <1>4, <2>1, <2>3, <2>4, GrowKeeps
  <1> QED BY <1>3, <1>4 DEF ScanFolder

LEMMA UserAddsKeeps ==
  ASSUME Invariants, SeparationInv, NEW m \in Manual, UserAdds(m)
  PROVE  Kept
  <1>1. PICK n \in Recordings : n = m.recording
    BY ManualAssumption
  <1>2. PICK new : new =
           [id |-> nextId, folder |-> m.folder, title |-> m.title, author |-> m.author,
            series |-> <<>>, isbn |-> "", cover |-> FALSE, holds |-> {m.recording}]
    OBVIOUS
  <1>3. /\ m.title \in TitlesShown(n) /\ m.author \in AuthorsShown(n)
        /\ m.folder \in FoldersOf(n)
    BY <1>1 DEF TitlesShown, AuthorsShown, FoldersOf, ManualOf
  <1>4. ItemOf(new, n) /\ new.id = nextId
    BY <1>1, <1>2, <1>3 DEF ItemOf
  <1>5. items' = items \union {new} /\ nextId' = nextId + 1 /\ removed' = removed
    BY <1>2 DEF UserAdds
  <1>6. LibraryInv
    BY DEF SeparationInv, LibraryInv
  <1> QED BY <1>4, <1>5, <1>6, GrowKeeps

LEMMA EnvironmentTrue ==
  ASSUME Invariants, SeparationInv, Server \/ User \/ Purchase \/ UNCHANGED vars
  PROVE  SeparationInv'
  <1>1. LibraryInv
    BY DEF SeparationInv, LibraryInv
  <1>2. CASE Server
    BY <1>2, ScanFolderKeeps, NobodyMoves DEF Server
  <1>3. CASE User
    BY <1>1, <1>3, UserAddsKeeps, DeleteKeeps, NobodyMoves DEF User
  <1>4. CASE Purchase
    BY <1>4, Keeps, NobodyMoves DEF Purchase, absVars
  <1>5. CASE UNCHANGED vars
    BY <1>5, Keeps, NobodyMoves DEF vars, absVars
  <1> QED BY <1>2, <1>3, <1>4, <1>5

LEMMA NextSep ==
  ASSUME Invariants, SeparationInv, [Next]_vars
  PROVE  SeparationInv'
  <1>1. ASSUME NEW r \in Runs, Step(r) PROVE SeparationInv'
    BY <1>1, ListItemsTrue, FetchLibraryTrue, NextBookTrue, FinishTrue, DownloadTrue,
       UploadItemTrue, TriggerScanTrue, DiscoverTrue, patchMetadataTrue, setCoverTrue
       DEF Step
  <1> QED BY <1>1, StartRunTrue, InterruptTrue, KillTrue, EnvironmentTrue DEF Next
-------------------------------------------------------------------------------
(* The theorems.                                                           *)

(* On a separated catalog an id means one recording for ever, a run always *)
(* patches the item of its book and only downloads what its listing lacks. *)
THEOREM SeparationInvariance == Spec => []SeparationInv
  <1>1. Init => SeparationInv
    BY DEF Init, AbsInit, Idle, SeparationInv, IdsUnique, ItemsSeparate, ListingTrue,
           TargetTrue, DownloadsNeeded, Progress
  <1>2. IInv /\ SeparationInv /\ [Next]_vars => SeparationInv'
    BY IInvForm, NextSep
  <1> QED BY <1>1, <1>2, Invariance, PTL DEF Spec

(* No item ever carries the ISBN of another book, however stale the        *)
(* listings and however the runs overlap.                                  *)
THEOREM IsbnIsTrue == Spec => []IsbnTellsTruth
  <1>1. SeparationInv => IsbnTellsTruth
    <2> SUFFICES ASSUME SeparationInv, NEW it \in items, it.isbn # ""
                 PROVE  \E n \in it.holds \ {0} : Catalog[n].isbn = it.isbn
      BY DEF IsbnTellsTruth
    <2>1. PICK n \in Recordings : ItemOf(it, n)
      BY DEF SeparationInv, ItemsSeparate
    <2>2. n \in BookIds /\ n \in it.holds /\ Catalog[n].isbn = it.isbn
      BY <2>1 DEF ItemOf
    <2>3. n \notin {0}
      BY <2>2, BooksFromOne
    <2> QED BY <2>2, <2>3
  <1> QED BY <1>1, SeparationInvariance, PTL

(* A run that ends without a failed book has brought every book it         *)
(* considered into the library, unless the user deleted it.                *)
THEOREM ExitZeroHolds == Spec => []ExitZeroIsHonest
  <1>1. IInv /\ SeparationInv => ExitZeroIsHonest
    <2> SUFFICES ASSUME IInv, SeparationInv, NEW r \in Runs,
                        run[r].phase = "exit", ~ run[r].dry, run[r].summary["failed"] = 0,
                        NEW n \in 1..run[r].considered
                 PROVE  Mirrored(n) \/ n \in removed
      BY DEF ExitZeroIsHonest
    <2>1. run[r].pos = run[r].considered + 1 /\ run[r].considered \in Nat
      BY DEF IInv, RunOK, TypeOK, RunState
    <2>2. n \in 1..(run[r].pos - 1)
      BY <2>1
    <2>3. Arrived(n)
      BY <2>2 DEF SeparationInv, Progress
    <2> QED BY <2>3 DEF Arrived
  <1> QED BY <1>1, Invariance, SeparationInvariance, PTL

-------------------------------------------------------------------------------
(* The index finds what it holds: byFuzz and FuzzHits take the first of    *)
(* what they find, and there is a first.                                   *)

Below == {p \in Nat \X Nat : p[1] < p[2]}

LEMMA BelowWF == IsWellFoundedOn(Below, Nat)
  <1>1. OpToRel(<, Nat) = Below
    BY DEF OpToRel, Below
  <1> QED BY <1>1, NatLessThanWellFounded

LEMMA Least ==
  ASSUME NEW S \in SUBSET Nat, S # {}
  PROVE  \E least \in S : \A n \in S : least <= n
  <1>1. PICK least \in S : \A n \in S : <<n, least>> \notin Below
    BY BelowWF, WFMin
  <1>2. ASSUME NEW n \in S PROVE least <= n
    <2>1. n \in Nat /\ least \in Nat
      OBVIOUS
    <2>2. ~ (n < least)
      BY <1>1, <2>1 DEF Below
    <2> QED BY <2>1, <2>2
  <1> QED BY <1>2

LEMMA IndexFinds ==
  ASSUME NEW listing \in Seq(Items), NEW b, NEW i \in DOMAIN listing,
         Recognises(b, listing[i].title, listing[i].author)
  PROVE  FuzzHits(listing, b) # {}
  <1>1. PICK k \in DOMAIN BookKeys(b) : BookKeys(b)[k] \in Keys(listing[i])
    BY DEF Recognises, Keys
  <1> DEFINE holders == {j \in DOMAIN listing : BookKeys(b)[k] \in Keys(listing[j])}
             found   == {l \in DOMAIN BookKeys(b) : byFuzz(listing, BookKeys(b)[l]) # {}}
  <1>2. holders \in SUBSET Nat /\ holders # {}
    BY <1>1
  <1>3. PICK first \in holders : \A j \in holders : first <= j
    <2> HIDE DEF holders
    <2> QED BY <1>2, Least
  <1>4. first \in byFuzz(listing, BookKeys(b)[k])
    BY <1>3 DEF byFuzz
  <1>5. found # {}
    BY <1>1, <1>4
  <1>6. DOMAIN BookKeys(b) = DOMAIN titleVariants(b.title)
    BY DEF BookKeys
  <1>7. DOMAIN titleVariants(b.title) \subseteq Nat
    BY DEF titleVariants, Separators
  <1>8. PICK l \in found : \A m \in found : l <= m
    <2>1. found \in SUBSET Nat
      BY <1>6, <1>7
    <2> HIDE DEF found
    <2> QED BY <1>5, <2>1, Least
  <1>9. l \in FuzzHits(listing, b)
    BY <1>8 DEF FuzzHits
  <1> QED BY <1>9

(* A book of plain names is recognised whatever ABS shows of it, unless    *)
(* somebody adds a copy by hand: what NoRedownload promises is not empty.  *)
THEOREM PlainIsRecognised ==
  ASSUME NEW n \in BookIds, PlainNames(n), ManualOf(n) = {}
  PROVE  AlwaysRecognised(n)
  <1>1. PICK b : b = Catalog[n]
    OBVIOUS
  <1>2. /\ b.title # <<>> /\ uploadTitle(b) = b.title /\ uploadAuthor(b) = b.author
        /\ ~ Contains(b.author, ",")
        /\ Embedded(b) = <<>> \/ b.title \in Range(titleVariants(Embedded(b)))
    BY <1>1 DEF PlainNames
  <1>3. SUFFICES ASSUME NEW title \in TitlesShown(n), NEW author \in AuthorsShown(n)
                 PROVE  Recognises(b, title, author)
    BY <1>1 DEF AlwaysRecognised
  <1>4. author = b.author
    BY <1>1, <1>2 DEF AuthorsShown, AuthorsOf
  <1>5. title = b.title \/ (title = Embedded(b) /\ title # <<>>)
    BY <1>1, <1>2 DEF TitlesShown, TitlesOf, ScannedTitles
  <1>6. DOMAIN titleVariants(b.title) = 0..3 /\ titleVariants(b.title)[0] = b.title
    <2>1. PICK last \in Nat : last = Len(Separators) /\ last = 3
      BY DEF Separators
    <2>2. titleVariants(b.title)
             = [i \in 0..last |->
                  IF i = 0 \/ Before(b.title, Separators[i]) = <<>> THEN b.title
                  ELSE Before(b.title, Separators[i])]
      BY <1>2, <2>1, Zenon DEF titleVariants
    <2>3. 0 \in 0..last /\ 0..last = 0..3
      BY <2>1
    <2> QED BY <2>2, <2>3, Zenon
  <1>7. b.title \in Range(titleVariants(title))
    <2>1. 0 \in DOMAIN titleVariants(b.title)
      BY <1>6
    <2>2. b.title \in Range(titleVariants(b.title))
      BY <1>6, <2>1 DEF Range
    <2> QED BY <1>2, <1>5, <2>2
  <1>8. metaFirstAuthor(author) = b.author
    BY <1>2, <1>4 DEF metaFirstAuthor
  <1>9. fuzzKey(b.title, b.author) \in KeysOf(title, author)
    BY <1>7, <1>8 DEF KeysOf
  <1>10. 0 \in DOMAIN BookKeys(b) /\ BookKeys(b)[0] = fuzzKey(b.title, b.author)
    BY <1>6 DEF BookKeys
  <1> QED BY <1>9, <1>10 DEF Recognises

(* What the library held when the run listed it is not downloaded, nor     *)
(* uploaded again, whatever failed in earlier runs: not if it carries an   *)
(* ISBN, and not if every look of the book is recognised.                  *)
THEOREM NothingTwice == Spec => []NoRedownload
  <1>1. IInv /\ SeparationInv => NoRedownload
    <2> SUFFICES ASSUME IInv, SeparationInv, NEW r \in Runs, NEW it \in Refetched(r)
                 PROVE  it.isbn = "" /\ ~ AlwaysRecognised(run[r].pos)
      BY DEF NoRedownload
    <2>0. /\ run[r].phase \in {"m4b", "mp3", "upload"}
          /\ it \in ToSet(run[r].listing) /\ run[r].pos \in it.holds
      BY DEF Refetched
    <2>1. Invariants /\ run[r].phase \in Working
      BY <2>0, IInvForm DEF Working
    <2>2. PICK pos \in BookIds : pos = run[r].pos /\ Book(r) = Catalog[pos]
      BY <2>1, Here
    <2>3. run[r].listing \in Seq(Items)
      BY <2>1, RunFacts DEF RunState
    <2>4. PICK i \in DOMAIN run[r].listing : it = run[r].listing[i]
      BY <2>0 DEF ToSet
    <2>5. PICK n \in Recordings : ItemOf(it, n)
      BY <2>4 DEF SeparationInv, ListingTrue, Known
    <2>6. ItemOf(it, pos)
      BY <2>0, <2>2, <2>5 DEF ItemOf
    <2>7. /\ Catalog[pos].isbn \notin byISBN(run[r].listing)
          /\ FuzzHits(run[r].listing, Catalog[pos]) = {}
      BY <2>0, <2>2 DEF SeparationInv, DownloadsNeeded, NotPresent, PresentSynced
    <2>8. it.isbn = ""
      BY <2>0, <2>6, <2>7 DEF ItemOf, byISBN
    <2>9. ASSUME AlwaysRecognised(pos) PROVE FALSE
      <3>1. Recognises(Catalog[pos], it.title, it.author)
        BY <2>6, <2>9 DEF AlwaysRecognised, ItemOf
      <3>2. FuzzHits(run[r].listing, Catalog[pos]) # {}
        BY <2>3, <2>4, <3>1, IndexFinds
      <3> QED BY <2>7, <3>2
    <2> QED BY <2>2, <2>8, <2>9
  <1> QED BY <1>1, Invariance, SeparationInvariance, PTL

(* The item a run takes for its upload lies in the folder it uploaded to,  *)
(* although the search tells titles only, unless a hand copy of the book   *)
(* lies elsewhere.                                                         *)
THEOREM DiscoveryIsRight == ASSUME CopiesInPlace PROVE Spec => []DiscoversItsUpload
  <1>1. IInv /\ SeparationInv => DiscoversItsUpload
    <2> SUFFICES ASSUME IInv, SeparationInv, NEW r \in Runs, run[r].phase = "patch",
                        NEW it \in ItemsWith(run[r].target)
                 PROVE  it.folder = Folder(Book(r))
      BY DEF DiscoversItsUpload
    <2>1. Invariants /\ run[r].phase \in Working
      BY IInvForm DEF Working
    <2>2. PICK pos \in BookIds : pos = run[r].pos /\ Book(r) = Catalog[pos]
      BY <2>1, Here
    <2>3. ItemOf(it, pos)
      BY <2>2 DEF SeparationInv, TargetTrue, Remembers, ItemsWith
    <2>4. FoldersOf(pos) = {Folder(Catalog[pos])}
      BY DEF CopiesInPlace, FoldersOf, ManualOf
    <2> QED BY <2>2, <2>3, <2>4 DEF ItemOf
  <1> QED BY <1>1, Invariance, SeparationInvariance, PTL

-------------------------------------------------------------------------------
(* The refinement: a step of Reconcile is a step of Mirror, or none.       *)

Shelf == {n \in BookIds : Mirrored(n)}

LEMMA SameShelf ==
  ASSUME UNCHANGED items
  PROVE  Shelf' = Shelf
  BY DEF Shelf, Mirrored

LEMMA GrownShelf ==
  ASSUME NEW new, new.isbn = "", items' = items \union {new}
  PROVE  Shelf' = Shelf
  BY DEF Shelf, Mirrored

LEMMA ReplacedShelf ==
  ASSUME NEW old \in items, NEW new, NEW n \in Recordings, ItemOf(old, n), ItemOf(new, n),
         old.isbn # "" => new.isbn # "", items' = (items \ {old}) \union {new}
  PROVE  /\ Shelf \subseteq Shelf'
         /\ Shelf' \subseteq Shelf \union {n}
         /\ new.isbn = old.isbn => Shelf' = Shelf
  <1>1. ASSUME NEW m \in BookIds, Mirrored(m) PROVE Mirrored(m)'
    <2>1. PICK it \in items : m \in it.holds /\ it.isbn = Catalog[m].isbn /\ it.isbn # ""
      BY <1>1 DEF Mirrored
    <2>2. CASE it = old
      <3>1. m = n /\ m \in new.holds /\ new.isbn = Catalog[m].isbn /\ new.isbn # ""
        BY <2>1, <2>2 DEF ItemOf
      <3> QED BY <3>1 DEF Mirrored
    <2>3. CASE it # old
      BY <2>1, <2>3 DEF Mirrored
    <2> QED BY <2>2, <2>3
  <1>2. ASSUME NEW m \in BookIds, Mirrored(m)'
        PROVE  m = n \/ Mirrored(m)
    <2>1. PICK it \in items' : m \in it.holds /\ it.isbn = Catalog[m].isbn /\ it.isbn # ""
      BY <1>2 DEF Mirrored
    <2>2. CASE it = new
      BY <2>1, <2>2 DEF ItemOf
    <2>3. CASE it # new
      BY <2>1, <2>3 DEF Mirrored
    <2> QED BY <2>2, <2>3
  <1>3. ASSUME new.isbn = old.isbn, Mirrored(n)' PROVE Mirrored(n)
    <2>1. PICK it \in items' : n \in it.holds /\ it.isbn = Catalog[n].isbn /\ it.isbn # ""
      BY <1>3 DEF Mirrored
    <2>2. CASE it = new
      BY <1>3, <2>1, <2>2 DEF ItemOf, Mirrored
    <2>3. CASE it # new
      BY <2>1, <2>3 DEF Mirrored
    <2> QED BY <2>2, <2>3
  <1> QED BY <1>1, <1>2, <1>3 DEF Shelf

LEMMA PatchedShelf ==
  ASSUME Invariants, SeparationInv, NEW r \in Runs, run[r].phase = "patch",
         NEW pos \in BookIds, pos = run[r].pos, PatchTarget(r)
  PROVE  Shelf \subseteq Shelf' /\ Shelf' \subseteq Shelf \union {pos}
  <1>1. PICK it \in ItemsWith(run[r].target) : Replace(it, Patched(it, Book(r)))
    BY DEF PatchTarget
  <1>2. Book(r) = Catalog[pos] /\ it \in items /\ it \in Items
    BY IdsAreNat DEF Book, ItemsWith
  <1>3. ItemOf(it, pos)
    BY <1>1, <1>2 DEF SeparationInv, TargetTrue, Remembers, ItemsWith
  <1>4. PICK new : new = Patched(it, Catalog[pos])
    OBVIOUS
  <1>5. ItemOf(new, pos) /\ new.isbn # ""
    BY <1>2, <1>3, <1>4, PatchedIsItem
  <1>6. items' = (items \ {it}) \union {new}
    BY <1>1, <1>2, <1>4 DEF Replace
  <1> QED BY <1>2, <1>3, <1>5, <1>6, ReplacedShelf DEF Recordings

LEMMA CoveredShelf ==
  ASSUME Invariants, SeparationInv, NEW it \in items, Replace(it, [it EXCEPT !.cover = TRUE])
  PROVE  Shelf' = Shelf
  <1>1. PICK n \in Recordings : ItemOf(it, n)
    BY DEF SeparationInv, ItemsSeparate
  <1>2. PICK new : new = [it EXCEPT !.cover = TRUE]
    OBVIOUS
  <1>3. ItemOf(new, n) /\ new.isbn = it.isbn
    BY <1>1, <1>2, IdsAreNat DEF ItemOf, Items
  <1>4. items' = (items \ {it}) \union {new}
    BY <1>2 DEF Replace
  <1> QED BY <1>1, <1>3, <1>4, ReplacedShelf

LEMMA ScannedShelf ==
  ASSUME Invariants, SeparationInv, NEW n \in BookIds, ScanFolder(n)
  PROVE  Shelf' = Shelf
  <1>1. ASSUME NEW it \in ItemsIn(Folder(Catalog[n])),
               items' = (items \ {it}) \union {[it EXCEPT !.holds = @ \union {n}]}
        PROVE  Shelf' = Shelf
    <2>1. it \in items /\ it \in Items /\ it.folder = Folder(Catalog[n])
      BY IdsAreNat DEF ItemsIn
    <2>2. PICK k \in Recordings : ItemOf(it, k)
      BY <2>1 DEF SeparationInv, ItemsSeparate
    <2>3. k = n
      BY <2>1, <2>2, SeparatedCatalog DEF DistinctFolders, FoldersOf, ItemOf, Recordings
    <2>4. PICK new : new = [it EXCEPT !.holds = @ \union {n}]
      OBVIOUS
    <2>5. ItemOf(new, k) /\ new.isbn = it.isbn
      BY <2>1, <2>2, <2>3, <2>4 DEF ItemOf, Items
    <2>6. items' = (items \ {it}) \union {new}
      BY <1>1, <2>4
    <2> QED BY <2>1, <2>2, <2>5, <2>6, ReplacedShelf
  <1>2. ASSUME NEW title \in ScannedTitles(Catalog[n]),
               items' = items \union
                   {[id |-> nextId, folder |-> Folder(Catalog[n]), title |-> title,
                     author |-> uploadAuthor(Catalog[n]), series |-> uploadSeries(Catalog[n]),
                     isbn |-> "", cover |-> FALSE, holds |-> {n}]}
        PROVE  Shelf' = Shelf
    BY <1>2, GrownShelf
  <1> QED BY <1>1, <1>2 DEF ScanFolder

(* What the user deletes is withdrawn, and nothing else.                   *)
LEMMA DeletedShelf ==
  ASSUME Invariants, NEW it \in items, UserDeletes(it)
  PROVE  /\ Shelf' \subseteq Shelf
         /\ Shelf \ Shelf' \subseteq removed' \ removed
         /\ removed' \in {removed \union s : s \in SUBSET (0..Len(Catalog))}
  <1>1. PICK lost : lost = {n \in landed : Folder(Catalog[n]) = it.folder}
    OBVIOUS
  <1>2. /\ it.holds \intersect removed = {}
        /\ items' = items \ {it}
        /\ removed' = removed \union (it.holds \union lost)
    BY <1>1 DEF UserDeletes
  <1>3. Shelf' \subseteq Shelf
    BY <1>2 DEF Shelf, Mirrored
  <1>4. ASSUME NEW n \in BookIds, Mirrored(n), ~ Mirrored(n)'
        PROVE  n \in removed' \ removed
    <2>1. PICK witness \in items :
             n \in witness.holds /\ witness.isbn = Catalog[n].isbn /\ witness.isbn # ""
      BY <1>4 DEF Mirrored
    <2>2. witness = it
      BY <1>2, <1>4, <2>1 DEF Mirrored
    <2> QED BY <1>2, <2>1, <2>2
  <1>5. it.holds \union lost \in SUBSET (0..Len(Catalog))
    <2>1. it.holds \subseteq Recordings /\ lost \subseteq Recordings
      BY <1>1, IdsAreNat DEF Invariants, AbsOK, AbsTypeOK, Items, Recordings
    <2>2. Recordings \subseteq 0..Len(Catalog)
      BY CatalogFacts DEF Recordings
    <2> QED BY <2>1, <2>2
  <1> QED BY <1>2, <1>3, <1>4, <1>5 DEF Shelf

LEMMA PromiseStep ==
  ASSUME Invariants, SeparationInv, [Next]_vars
  PROVE  Promise!Next \/ UNCHANGED <<owned, Shelf, removed>>
  <1>1. CASE Purchase
    <2>1. owned < Len(Catalog) /\ owned' = owned + 1 /\ removed' = removed /\ Shelf' = Shelf
      BY <1>1, SameShelf DEF Purchase, absVars
    <2> QED BY <2>1 DEF Promise!Next, Promise!Purchase, Shelf
  <1>2. CASE Server
    BY <1>2, ScannedShelf DEF Server, ScanFolder
  <1>3. CASE User
    <2>1. ASSUME NEW m \in Manual, UserAdds(m)
          PROVE  Shelf' = Shelf /\ removed' = removed
      <3>1. PICK new : new =
               [id |-> nextId, folder |-> m.folder, title |-> m.title, author |-> m.author,
                series |-> <<>>, isbn |-> "", cover |-> FALSE, holds |-> {m.recording}]
        OBVIOUS
      <3>2. new.isbn = "" /\ items' = items \union {new} /\ removed' = removed
        BY <2>1, <3>1 DEF UserAdds
      <3> QED BY <3>2, GrownShelf
    <2>2. ASSUME NEW it \in items, UserDeletes(it)
          PROVE  Promise!Next
      <3>1. /\ Shelf' \subseteq Shelf
            /\ Shelf \ Shelf' \subseteq removed' \ removed
            /\ removed' \in {removed \union s : s \in SUBSET (0..Len(Catalog))}
        BY <2>2, DeletedShelf
      <3> QED BY <1>3, <3>1 DEF Promise!Next, Promise!Withdraw, Shelf, User
    <2> QED BY <1>3, <2>1, <2>2 DEF User
  <1>4. CASE UNCHANGED vars
    BY <1>4, SameShelf DEF vars, absVars
  <1>5. ASSUME NEW r \in Runs, patchMetadata(r)
        PROVE  Promise!Next \/ UNCHANGED <<owned, Shelf, removed>>
    <2>1. run[r].phase = "patch" /\ run[r].phase \in Working /\ owned' = owned
      BY <1>5 DEF patchMetadata, Working
    <2>2. PICK pos \in BookIds : pos = run[r].pos
      BY <2>1, Here
    <2>3. CASE UNCHANGED absVars
      BY <2>1, <2>3, SameShelf DEF absVars
    <2>4. CASE PatchTarget(r)
      <3>1. Shelf \subseteq Shelf' /\ Shelf' \subseteq Shelf \union {pos}
        BY <2>1, <2>2, <2>4, PatchedShelf
      <3>2. removed' = removed
        BY <2>4 DEF PatchTarget, Replace
      <3>3. CASE pos \in Shelf
        BY <2>1, <3>1, <3>2, <3>3
      <3>4. CASE pos \notin Shelf /\ pos \in Shelf'
        <4>1. pos \in 1..owned
          BY <2>1, <2>2, AtWork, CatalogFacts, BooksFromOne DEF Invariants
        <4>2. Promise!Deliver(pos)
          BY <2>1, <3>1, <3>2, <3>4 DEF Promise!Deliver, Shelf
        <4> QED BY <4>1, <4>2 DEF Promise!Next
      <3>5. CASE pos \notin Shelf'
        BY <2>1, <3>1, <3>2, <3>5
      <3> QED BY <3>3, <3>4, <3>5
    <2> QED BY <1>5, <2>3, <2>4 DEF patchMetadata, PatchFails
  <1>6. ASSUME NEW r \in Runs, setCover(r)
        PROVE  UNCHANGED <<owned, Shelf, removed>>
    <2>1. CASE UNCHANGED absVars
      BY <1>6, <2>1, SameShelf DEF absVars, setCover
    <2>2. ASSUME NEW it \in ItemsWith(run[r].target), Replace(it, [it EXCEPT !.cover = TRUE])
          PROVE  UNCHANGED <<owned, Shelf, removed>>
      BY <1>6, <2>2, CoveredShelf DEF ItemsWith, Replace, setCover
    <2> QED BY <1>6, <2>1, <2>2 DEF setCover
  <1>7. ASSUME NEW r \in Runs,
               StartRun(r) \/ Interrupt(r) \/ Kill(r)
                 \/ (Step(r) /\ ~ patchMetadata(r) /\ ~ setCover(r))
        PROVE  UNCHANGED <<owned, Shelf, removed>>
    <2>1. UNCHANGED <<owned, items, removed>>
      BY <1>7 DEF StartRun, Interrupt, Kill, Step, ListItems, FetchLibrary, NextBook, Finish,
                  DownloadM4B, DownloadMP3, UploadItem, TriggerScan, Discover, Receive,
                  AcceptScan, absVars
    <2> QED BY <2>1, SameShelf
  <1> QED BY <1>1, <1>2, <1>3, <1>4, <1>5, <1>6, <1>7 DEF Next, Step

(* Reconcile implements Mirror: books appear one at a time, only bought    *)
(* ones do, and none disappears but by the hand of the user.               *)
THEOREM PromiseKept == Spec => KeepsPromise
  <1>1. Init => Promise!Init
    BY DEF Init, AbsInit, Promise!Init, Mirrored, BookIds
  <1>2. IInv /\ SeparationInv /\ [Next]_vars
          => [Promise!Next]_<<owned, {n \in BookIds : Mirrored(n)}, removed>>
    BY IInvForm, PromiseStep DEF Shelf
  <1> QED BY <1>1, <1>2, Invariance, SeparationInvariance, PTL
          DEF Spec, KeepsPromise, Promise!Spec
===============================================================================
