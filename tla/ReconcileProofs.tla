---------------------------- MODULE ReconcileProofs ----------------------------
(***************************************************************************)
(* Proofs about Reconcile for every catalog, every number of overlapping   *)
(* runs and every bound: the types, the accounting of Run and the rule for *)
(* when a run may change the library.                                      *)
(*                                                                         *)
(* The inductive invariant is IInv.  Accounting and the justification of   *)
(* mutations are not inductive: they need that the position stays within   *)
(* the books considered, that a phase which writes is only entered from    *)
(* NextBook by a run that is not dry, and that the listing and the         *)
(* position do not change while a book is worked on.                       *)
(***************************************************************************)
EXTENDS Reconcile, FiniteSetTheorems, TLAPS

Working == {"m4b", "mp3", "upload", "scan", "discover", "patch", "cover"}

RunOK(r) ==
    /\ run[r].pos >= 1
    /\ run[r].considered <= owned
    /\ run[r].pos <= run[r].considered + 1
    /\ run[r].phase \in {"list", "library"} => run[r].pos = 1
    /\ run[r].phase \in Working =>
          /\ run[r].pos <= run[r].considered
          /\ ~ run[r].dry
          /\ ~ PresentSynced(run[r].listing, Book(r))
    /\ run[r].phase = "exit" => run[r].pos = run[r].considered + 1
    /\ Counted(r) = run[r].pos - 1

RunTypeOK == run \in [Runs -> RunState]

IInv ==
    /\ TypeOK
    /\ IsFiniteSet(items)
    /\ \A r \in Runs : RunOK(r)

-------------------------------------------------------------------------------
(* The catalog.                                                            *)

LEMMA CatalogFacts ==
  /\ Len(Catalog) \in Nat
  /\ BookIds = 1..Len(Catalog)
  /\ \A n \in BookIds : Catalog[n] \in Books
  BY CatalogAssumption DEF BookIds

LEMMA NamesOfBook ==
  ASSUME NEW n \in BookIds
  PROVE  /\ Folder(Catalog[n]) \in Folders
         /\ TitlesOf(Catalog[n]) \subseteq Names
         /\ AuthorsOf(Catalog[n]) \subseteq Authors
         /\ uploadSeries(Catalog[n]) \in Series /\ Catalog[n].series \in Series
         /\ Catalog[n].isbn \in Isbns
  BY DEF Folders, Names, Authors, Series, Isbns

LEMMA PatchedType ==
  ASSUME NEW n \in BookIds, NEW it \in Items
  PROVE  Patched(it, Catalog[n]) \in Items
  <1>1. Catalog[n].title \in Names
    BY NamesOfBook DEF TitlesOf
  <1>2. Catalog[n].author \in Authors
    BY NamesOfBook DEF AuthorsOf
  <1>3. Catalog[n].series \in Series /\ Catalog[n].isbn \in Isbns
    BY NamesOfBook
  <1> QED BY <1>1, <1>2, <1>3 DEF Patched, Items

-------------------------------------------------------------------------------
(* What the operations on the library do to its types.                     *)

AbsOK == AbsTypeOK /\ IsFiniteSet(items)

LEMMA ReceiveType ==
  ASSUME AbsOK, NEW n \in BookIds, Receive(n)
  PROVE  AbsOK'
  BY DEF AbsOK, AbsTypeOK, Receive

LEMMA AcceptScanType ==
  ASSUME AbsOK, AcceptScan
  PROVE  AbsOK'
  BY DEF AbsOK, AbsTypeOK, AcceptScan

LEMMA ReplaceType ==
  ASSUME AbsOK, NEW old \in items, NEW new \in Items, Replace(old, new)
  PROVE  AbsOK'
  <1>1. IsFiniteSet((items \ {old}) \union {new})
    BY FS_AddElement, FS_RemoveElement DEF AbsOK
  <1> QED BY <1>1 DEF AbsOK, AbsTypeOK, Replace

LEMMA UnchangedType ==
  ASSUME AbsOK, UNCHANGED absVars
  PROVE  AbsOK'
  BY DEF AbsOK, AbsTypeOK, absVars

LEMMA ScanFolderType ==
  ASSUME AbsOK, NEW n \in BookIds, ScanFolder(n)
  PROVE  AbsOK'
  <1> DEFINE b == Catalog[n]
             fresh(title) == [id |-> nextId, folder |-> Folder(b), title |-> title,
                              author |-> uploadAuthor(b), series |-> uploadSeries(b),
                              isbn |-> "", cover |-> FALSE, holds |-> {n}]
  <1>1. /\ landed' \subseteq BookIds /\ toScan' \subseteq landed' /\ removed' \subseteq Recordings
    BY DEF ScanFolder, AbsOK, AbsTypeOK
  <1>2. CASE \E it \in ItemsIn(Folder(b)) :
               /\ items' = (items \ {it}) \union {[it EXCEPT !.holds = @ \union {n}]}
               /\ UNCHANGED nextId
    <2>1. PICK it \in ItemsIn(Folder(b)) :
               /\ items' = (items \ {it}) \union {[it EXCEPT !.holds = @ \union {n}]}
               /\ UNCHANGED nextId
      BY <1>2
    <2>2. it \in items /\ it \in Items
      BY <2>1 DEF ItemsIn, AbsOK, AbsTypeOK
    <2>3. [it EXCEPT !.holds = @ \union {n}] \in Items
      BY <2>2 DEF Items, Recordings
    <2>4. IsFiniteSet(items')
      BY <2>1, FS_AddElement, FS_RemoveElement DEF AbsOK
    <2> QED BY <1>1, <2>1, <2>2, <2>3, <2>4 DEF AbsOK, AbsTypeOK
  <1>3. CASE \E title \in ScannedTitles(b) :
               items' = items \union {fresh(title)} /\ nextId' = nextId + 1
    <2>1. PICK title \in ScannedTitles(b) :
               items' = items \union {fresh(title)} /\ nextId' = nextId + 1
      BY <1>3
    <2>2. title \in Names
      BY NamesOfBook DEF TitlesOf
    <2>3. uploadAuthor(b) \in Authors
      BY NamesOfBook DEF AuthorsOf
    <2>4. fresh(title) \in Items
      BY <2>2, <2>3, NamesOfBook DEF Items, Recordings, Isbns, AbsOK, AbsTypeOK
    <2>5. IsFiniteSet(items')
      BY <2>1, FS_AddElement DEF AbsOK
    <2> HIDE DEF fresh
    <2>6. items' \subseteq Items /\ nextId' \in Nat \ {0}
      BY <2>1, <2>4 DEF AbsOK, AbsTypeOK
    <2> QED BY <1>1, <2>5, <2>6 DEF AbsOK, AbsTypeOK
  <1> QED BY <1>2, <1>3 DEF ScanFolder

LEMMA UserAddsType ==
  ASSUME AbsOK, NEW m \in Manual, UserAdds(m)
  PROVE  AbsOK'
  <1> DEFINE it == [id |-> nextId, folder |-> m.folder, title |-> m.title,
                    author |-> m.author, series |-> <<>>, isbn |-> "",
                    cover |-> FALSE, holds |-> {m.recording}]
  <1>1. m.folder \in Folders /\ m.title \in Names /\ m.author \in Authors
    BY DEF Folders, Names, Authors
  <1>2. m.recording \in Recordings
    BY ManualAssumption
  <1>3. <<>> \in Series /\ "" \in Isbns
    BY DEF Series, Isbns
  <1>4. it \in Items
    BY <1>1, <1>2, <1>3 DEF Items, AbsOK, AbsTypeOK
  <1>5. items' = items \union {it} /\ nextId' = nextId + 1 /\ UNCHANGED <<landed, toScan, removed>>
    BY DEF UserAdds
  <1>6. IsFiniteSet(items')
    BY <1>5, FS_AddElement DEF AbsOK
  <1> HIDE DEF it
  <1>7. items' \subseteq Items /\ nextId' \in Nat \ {0}
    BY <1>4, <1>5 DEF AbsOK, AbsTypeOK
  <1> QED BY <1>5, <1>6, <1>7 DEF AbsOK, AbsTypeOK

LEMMA UserDeletesType ==
  ASSUME AbsOK, NEW it \in items, UserDeletes(it)
  PROVE  AbsOK'
  <1>1. it.holds \subseteq Recordings
    BY DEF AbsOK, AbsTypeOK, Items
  <1>2. IsFiniteSet(items')
    BY FS_RemoveElement DEF AbsOK, UserDeletes
  <1> QED BY <1>1, <1>2 DEF AbsOK, AbsTypeOK, UserDeletes, Recordings
-------------------------------------------------------------------------------
(* What the steps do to the state of the runs.                             *)

LEMMA IdleType == Idle \in RunState
  BY DEF Idle, RunState, Phases, Outcomes

(* A step of one run, or of none, leaves what is said of the others.       *)
LEMMA Frame ==
  ASSUME RunTypeOK, owned \in Nat, owned' \in Nat, owned <= owned',
         NEW q \in Runs, RunOK(q), run'[q] = run[q]
  PROVE  RunOK(q)'
  <1>1. run[q] \in RunState
    BY DEF RunTypeOK
  <1>2. run[q].considered \in Nat
    BY <1>1 DEF RunState
  <1>3. Counted(q)' = Counted(q) /\ Book(q)' = Book(q)
    BY DEF Counted, Book
  <1>4. PresentSynced(run[q].listing, Book(q))' = PresentSynced(run[q].listing, Book(q))
    BY <1>3 DEF PresentSynced, byISBN
  <1> QED BY <1>2, <1>3, <1>4 DEF RunOK

LEMMA QuitEffect ==
  ASSUME RunTypeOK, NEW r \in Runs, Quit(r), owned' = owned, owned \in Nat
  PROVE  /\ RunTypeOK' /\ RunOK(r)'
         /\ \A q \in Runs \ {r} : run'[q] = run[q]
  <1>1. Idle \in RunState
    BY IdleType
  <1>2. RunTypeOK' /\ run'[r] = Idle /\ \A q \in Runs \ {r} : run'[q] = run[q]
    BY <1>1 DEF RunTypeOK, Quit
  <1>3. /\ Idle.phase = "idle" /\ Idle.pos = 1 /\ Idle.considered = 0
        /\ \A o \in Outcomes : Idle.summary[o] = 0
    BY DEF Idle
  <1> QED BY <1>2, <1>3 DEF RunOK, Counted, Outcomes, Working

LEMMA GotoEffect ==
  ASSUME RunTypeOK, NEW r \in Runs, NEW phase \in Phases, Goto(r, phase)
  PROVE  /\ RunTypeOK'
         /\ run'[r] = [run[r] EXCEPT !.phase = phase]
         /\ \A q \in Runs \ {r} : run'[q] = run[q]
  BY DEF RunTypeOK, Goto, RunState

LEMMA CountEffect ==
  ASSUME RunTypeOK, NEW r \in Runs, NEW outcome \in Outcomes, Count(r, outcome)
  PROVE  /\ RunTypeOK'
         /\ run'[r].phase = "next" /\ run'[r].pos = run[r].pos + 1
         /\ run'[r].dry = run[r].dry /\ run'[r].listing = run[r].listing
         /\ run'[r].considered = run[r].considered
         /\ run'[r].summary = [run[r].summary EXCEPT ![outcome] = @ + 1]
         /\ \A q \in Runs \ {r} : run'[q] = run[q]
  <1>1. run[r] \in RunState
    BY DEF RunTypeOK
  <1>2. run[r].pos + 1 \in Nat /\ run[r].summary[outcome] + 1 \in Nat
    BY <1>1 DEF RunState
  <1>3. "next" \in Phases
    BY DEF Phases
  <1> DEFINE next == run[r].pos + 1
             count == run[r].summary[outcome] + 1
             f1 == [run EXCEPT ![r].phase = "next"]
             f2 == [f1 EXCEPT ![r].pos = next]
             f3 == [f2 EXCEPT ![r].polls = 0]
             f4 == [f3 EXCEPT ![r].target = 0]
             f5 == [f4 EXCEPT ![r].repair = FALSE]
             f6 == [f5 EXCEPT ![r].summary[outcome] = count]
  <1>4. run' = f6
    BY DEF Count
  <1> HIDE DEF next, count
  <1>5. f1 \in [Runs -> RunState]
    BY <1>1, <1>3 DEF RunTypeOK, RunState
  <1> HIDE DEF f1
  <1>6. f2 \in [Runs -> RunState]
    BY <1>2, <1>5 DEF RunState, next
  <1> HIDE DEF f2
  <1>7. f3 \in [Runs -> RunState]
    BY <1>6 DEF RunState
  <1> HIDE DEF f3
  <1>8. f4 \in [Runs -> RunState]
    BY <1>7 DEF RunState
  <1> HIDE DEF f4
  <1>9. f5 \in [Runs -> RunState]
    BY <1>8 DEF RunState
  <1> HIDE DEF f5
  <1>10. f6 \in [Runs -> RunState]
    <2>1. f5[r].summary \in [Outcomes -> Nat] /\ count \in Nat
      BY <1>2, <1>9 DEF RunState, count
    <2>2. [f5[r].summary EXCEPT ![outcome] = count] \in [Outcomes -> Nat]
      BY <2>1
    <2> QED BY <1>9, <2>2 DEF RunState
  <1>11. RunTypeOK'
    BY <1>4, <1>10 DEF RunTypeOK
  <1>12. /\ run'[r].phase = "next" /\ run'[r].pos = run[r].pos + 1
         /\ run'[r].dry = run[r].dry /\ run'[r].listing = run[r].listing
         /\ run'[r].considered = run[r].considered
         /\ run'[r].summary = [run[r].summary EXCEPT ![outcome] = @ + 1]
    BY <1>1 DEF RunTypeOK, Count, RunState
  <1>13. \A q \in Runs \ {r} : run'[q] = run[q]
    BY DEF RunTypeOK, Count
  <1> QED BY <1>11, <1>12, <1>13

(* A book counted once more leaves the accounts in order.                  *)
LEMMA CountOK ==
  ASSUME RunTypeOK, NEW r \in Runs, NEW outcome \in Outcomes, Count(r, outcome),
         RunOK(r), run[r].pos <= run[r].considered, owned' = owned
  PROVE  /\ RunTypeOK' /\ RunOK(r)'
         /\ \A q \in Runs \ {r} : run'[q] = run[q]
  <1>1. run[r] \in RunState
    BY DEF RunTypeOK
  <1>2. run[r].summary \in [Outcomes -> Nat] /\ run[r].pos \in Nat /\ run[r].considered \in Nat
    BY <1>1 DEF RunState
  <1>3. Counted(r)' = Counted(r) + 1
    <2>1. /\ run[r].summary["already"] \in Nat /\ run[r].summary["synced"] \in Nat
          /\ run[r].summary["repaired"] \in Nat /\ run[r].summary["failed"] \in Nat
      BY <1>2 DEF Outcomes
    <2>2. run'[r].summary = [run[r].summary EXCEPT ![outcome] = @ + 1]
      BY CountEffect
    <2>3. outcome \in {"already", "synced", "repaired", "failed"}
      BY DEF Outcomes
    <2> QED BY <1>2, <2>1, <2>2, <2>3 DEF Counted, Outcomes
  <1>4. /\ run'[r].phase = "next" /\ run'[r].pos = run[r].pos + 1
        /\ run'[r].considered = run[r].considered
    BY CountEffect
  <1>5. /\ Counted(r) = run[r].pos - 1 /\ run[r].pos >= 1
        /\ run[r].considered <= owned
    BY DEF RunOK
  <1>6. "next" \notin Working
    BY DEF Working
  <1>7. RunOK(r)'
    BY <1>2, <1>3, <1>4, <1>5, <1>6 DEF RunOK
  <1> QED BY <1>7, CountEffect

(* Going on with the book of a phase that works on one.                    *)
LEMMA GotoOK ==
  ASSUME RunTypeOK, NEW r \in Runs, NEW phase \in Working, Goto(r, phase),
         RunOK(r), run[r].phase \in Working, owned' = owned
  PROVE  /\ RunTypeOK' /\ RunOK(r)'
         /\ \A q \in Runs \ {r} : run'[q] = run[q]
  <1>1. phase \in Phases
    BY DEF Phases, Working
  <1>2. run[r] \in RunState
    BY DEF RunTypeOK
  <1>3. run'[r] = [run[r] EXCEPT !.phase = phase]
    BY <1>1, GotoEffect
  <1>4. /\ run'[r].phase = phase
        /\ run'[r].pos = run[r].pos /\ run'[r].considered = run[r].considered
        /\ run'[r].dry = run[r].dry /\ run'[r].listing = run[r].listing
        /\ run'[r].summary = run[r].summary
    BY <1>2, <1>3 DEF RunState
  <1>5. Counted(r)' = Counted(r) /\ Book(r)' = Book(r)
    BY <1>4 DEF Counted, Book
  <1>6. PresentSynced(run[r].listing, Book(r))' = PresentSynced(run[r].listing, Book(r))
    BY <1>4, <1>5 DEF PresentSynced, byISBN
  <1>7. phase \notin {"list", "library", "exit"}
    BY DEF Working
  <1>8. RunOK(r)'
    BY <1>4, <1>5, <1>6, <1>7 DEF RunOK
  <1> QED BY <1>1, <1>8, GotoEffect
-------------------------------------------------------------------------------
(* The steps of a run, one lemma for what they all have in common.         *)

Invariants == AbsOK /\ RunTypeOK /\ (\A q \in Runs : RunOK(q))
              /\ owned \in 0..Len(Catalog) /\ faults \in Nat

LEMMA IInvForm == IInv <=> Invariants
  BY DEF IInv, Invariants, TypeOK, AbsOK, RunTypeOK

LEMMA OthersOK ==
  ASSUME Invariants, NEW r \in Runs, AbsOK', RunTypeOK', RunOK(r)',
         \A q \in Runs \ {r} : run'[q] = run[q],
         owned' = owned, faults' \in Nat
  PROVE  Invariants'
  <1>1. owned \in Nat
    BY CatalogFacts DEF Invariants
  <1>2. \A q \in Runs \ {r} : RunOK(q)'
    BY <1>1, Frame DEF Invariants
  <1>3. (\A q \in Runs : RunOK(q))'
    BY <1>2
  <1> QED BY <1>3, CatalogFacts DEF Invariants

LEMMA FaultsType ==
  ASSUME faults \in Nat, NEW r \in Runs, Answered(r) \/ Fails(r)
  PROVE  faults' \in Nat
  BY DEF Answered, Fails

(* The book of a run that works on one.                                    *)
LEMMA AtWork ==
  ASSUME Invariants, NEW r \in Runs, run[r].phase \in Working
  PROVE  /\ run[r].pos \in BookIds /\ run[r].pos <= owned
         /\ run[r].pos <= run[r].considered
         /\ ~ run[r].dry /\ ~ PresentSynced(run[r].listing, Book(r))
  <1>1. run[r] \in RunState /\ RunOK(r)
    BY DEF Invariants, RunTypeOK
  <1>2. run[r].pos \in Nat /\ run[r].considered \in Nat
    BY <1>1 DEF RunState
  <1>3. owned \in Nat /\ owned <= Len(Catalog)
    BY CatalogFacts DEF Invariants
  <1> QED BY <1>1, <1>2, <1>3, CatalogFacts DEF RunOK

LEMMA CountBook ==
  ASSUME Invariants, NEW r \in Runs, run[r].phase \in Working, NEW outcome \in Outcomes,
         Count(r, outcome), AbsOK', owned' = owned, faults' \in Nat
  PROVE  Invariants'
  <1>1. RunTypeOK /\ RunOK(r) /\ run[r].pos <= run[r].considered
    BY AtWork DEF Invariants
  <1>2. RunTypeOK' /\ RunOK(r)' /\ \A q \in Runs \ {r} : run'[q] = run[q]
    BY <1>1, CountOK
  <1> QED BY <1>2, OthersOK

LEMMA GoOn ==
  ASSUME Invariants, NEW r \in Runs, run[r].phase \in Working, NEW phase \in Working,
         Goto(r, phase), AbsOK', owned' = owned, faults' \in Nat
  PROVE  Invariants'
  <1>1. RunTypeOK /\ RunOK(r)
    BY DEF Invariants
  <1>2. RunTypeOK' /\ RunOK(r)' /\ \A q \in Runs \ {r} : run'[q] = run[q]
    BY <1>1, GotoOK
  <1> QED BY <1>2, OthersOK

LEMMA GiveUp ==
  ASSUME Invariants, NEW r \in Runs, Quit(r), AbsOK', owned' = owned, faults' \in Nat
  PROVE  Invariants'
  <1>1. RunTypeOK /\ owned \in Nat
    BY CatalogFacts DEF Invariants
  <1>2. RunTypeOK' /\ RunOK(r)' /\ \A q \in Runs \ {r} : run'[q] = run[q]
    BY <1>1, QuitEffect
  <1> QED BY <1>2, OthersOK
-------------------------------------------------------------------------------
(* Every action keeps the invariant.                                       *)

LEMMA StartRunStep ==
  ASSUME Invariants, NEW r \in Runs, StartRun(r)
  PROVE  Invariants'
  <1>1. PICK dry \in DryRuns :
           run' = [run EXCEPT ![r] = [Idle EXCEPT !.phase = "list", !.dry = dry]]
    BY DEF StartRun
  <1> DEFINE started == [Idle EXCEPT !.phase = "list", !.dry = dry]
  <1>2. dry \in BOOLEAN
    BY ReconcileAssumption
  <1>3. started \in RunState
    BY <1>2, IdleType DEF RunState, Phases
  <1>4. /\ started.phase = "list" /\ started.pos = 1 /\ started.considered = 0
        /\ \A o \in Outcomes : started.summary[o] = 0
    BY DEF Idle
  <1> HIDE DEF started
  <1>5. RunTypeOK' /\ run'[r] = started /\ \A q \in Runs \ {r} : run'[q] = run[q]
    BY <1>1, <1>3 DEF RunTypeOK, Invariants, started
  <1>6. owned' = owned /\ owned \in Nat /\ faults' \in Nat /\ AbsOK'
    BY UnchangedType, CatalogFacts DEF StartRun, Invariants
  <1>7. RunOK(r)'
    BY <1>4, <1>5, <1>6 DEF RunOK, Counted, Outcomes, Working
  <1> QED BY <1>5, <1>6, <1>7, OthersOK

LEMMA ListingType ==
  ASSUME AbsOK, NEW listing \in SetToSeqs(items)
  PROVE  listing \in Seq(Items) /\ \A i \in DOMAIN listing : listing[i] \in items
  <1>1. Cardinality(items) \in Nat
    BY FS_CardinalityType DEF AbsOK
  <1>2. listing \in [1..Cardinality(items) -> items]
    BY DEF SetToSeqs
  <1>3. listing \in Seq(items)
    BY <1>1, <1>2
  <1>4. items \subseteq Items
    BY DEF AbsOK, AbsTypeOK
  <1> QED BY <1>1, <1>2, <1>3, <1>4

LEMMA ListItemsStep ==
  ASSUME Invariants, NEW r \in Runs, ListItems(r)
  PROVE  Invariants'
  <1>1. owned' = owned /\ AbsOK' /\ faults' \in Nat
    BY UnchangedType, FaultsType DEF ListItems, Invariants
  <1>2. CASE \E listing \in SetToSeqs(items) :
                run' = [run EXCEPT ![r].phase = "library", ![r].listing = listing]
    <2>1. PICK listing \in SetToSeqs(items) :
                run' = [run EXCEPT ![r].phase = "library", ![r].listing = listing]
      BY <1>2
    <2>2. listing \in Seq(Items)
      BY ListingType DEF Invariants
    <2>3. run[r] \in RunState /\ RunOK(r) /\ run[r].phase = "list"
      BY DEF Invariants, RunTypeOK, ListItems
    <2>4. /\ RunTypeOK' /\ \A q \in Runs \ {r} : run'[q] = run[q]
          /\ run'[r].phase = "library" /\ run'[r].pos = run[r].pos
          /\ run'[r].considered = run[r].considered /\ run'[r].summary = run[r].summary
      BY <2>1, <2>2, <2>3 DEF Invariants, RunTypeOK, RunState, Phases
    <2>5. RunOK(r)'
      BY <1>1, <2>3, <2>4 DEF RunOK, Counted, Working
    <2> QED BY <1>1, <2>4, <2>5, OthersOK
  <1>3. CASE Quit(r)
    BY <1>1, <1>3, GiveUp
  <1> QED BY <1>2, <1>3 DEF ListItems

LEMMA FetchLibraryStep ==
  ASSUME Invariants, NEW r \in Runs, FetchLibrary(r)
  PROVE  Invariants'
  <1>1. owned' = owned /\ AbsOK' /\ faults' \in Nat
    BY UnchangedType, FaultsType DEF FetchLibrary, Invariants
  <1>2. CASE run' = [run EXCEPT ![r].phase = "next", ![r].considered = Considered]
    <2>1. Considered \in Nat /\ Considered <= owned
      BY ReconcileAssumption, CatalogFacts DEF Invariants, Considered
    <2>2. run[r] \in RunState /\ RunOK(r) /\ run[r].phase = "library"
      BY DEF Invariants, RunTypeOK, FetchLibrary
    <2>3. /\ RunTypeOK' /\ \A q \in Runs \ {r} : run'[q] = run[q]
          /\ run'[r].phase = "next" /\ run'[r].pos = run[r].pos
          /\ run'[r].considered = Considered /\ run'[r].summary = run[r].summary
      BY <1>2, <2>1, <2>2 DEF Invariants, RunTypeOK, RunState, Phases
    <2>4. RunOK(r)'
      BY <1>1, <2>1, <2>2, <2>3 DEF RunOK, Counted, Working
    <2> QED BY <1>1, <2>3, <2>4, OthersOK
  <1>3. CASE Quit(r)
    BY <1>1, <1>3, GiveUp
  <1> QED BY <1>2, <1>3 DEF FetchLibrary
(* What classify returns with PresentNoMetadata is an item of the listing  *)
(* that has one of the book's keys.                                        *)
LEMMA FuzzMatchIsListed ==
  ASSUME NEW listing, NEW b, FuzzHits(listing, b) # {}
  PROVE  \E i \in DOMAIN listing :
            /\ FuzzMatch(listing, b) = listing[i]
            /\ \E k \in DOMAIN BookKeys(b) : BookKeys(b)[k] \in Keys(listing[i])
  <1> DEFINE k == CHOOSE j \in FuzzHits(listing, b) : TRUE
             key == BookKeys(b)[k]
             i == CHOOSE j \in byFuzz(listing, key) : TRUE
  <1>1. k \in FuzzHits(listing, b)
    OBVIOUS
  <1>2. k \in DOMAIN BookKeys(b) /\ byFuzz(listing, key) # {}
    BY <1>1 DEF FuzzHits
  <1>3. i \in byFuzz(listing, key)
    BY <1>2
  <1>4. i \in DOMAIN listing /\ key \in Keys(listing[i])
    BY <1>3 DEF byFuzz
  <1>5. FuzzMatch(listing, b) = listing[i]
    BY DEF FuzzMatch
  <1> QED BY <1>2, <1>4, <1>5

LEMMA NextBookStep ==
  ASSUME Invariants, NEW r \in Runs, NextBook(r)
  PROVE  Invariants'
  <1> DEFINE listing == run[r].listing
             target == FuzzMatch(listing, Book(r)).id
  <1>1. owned' = owned /\ owned \in Nat /\ AbsOK' /\ faults' \in Nat
    BY UnchangedType, CatalogFacts DEF NextBook, Invariants
  <1>2. /\ run[r] \in RunState /\ RunOK(r) /\ RunTypeOK
        /\ run[r].phase = "next" /\ run[r].pos <= run[r].considered
    BY DEF Invariants, RunTypeOK, NextBook
  <1>3. ASSUME NEW outcome \in Outcomes, Count(r, outcome)
        PROVE  Invariants'
    BY <1>1, <1>2, <1>3, CountOK, OthersOK
  <1>4. ASSUME PresentNoMetadata(listing, Book(r)), ~ run[r].dry,
               run' = [run EXCEPT ![r].phase = "patch", ![r].repair = TRUE, ![r].target = target]
        PROVE  Invariants'
    <2>1. target \in Nat
      <3>1. PICK i \in DOMAIN listing : FuzzMatch(listing, Book(r)) = listing[i]
        BY <1>4, FuzzMatchIsListed DEF PresentNoMetadata
      <3>2. listing[i] \in Items
        BY <1>2 DEF RunState
      <3> QED BY <3>1, <3>2 DEF Items
    <2> HIDE DEF target
    <2>2. /\ RunTypeOK' /\ \A q \in Runs \ {r} : run'[q] = run[q]
          /\ run'[r].phase = "patch" /\ run'[r].pos = run[r].pos
          /\ run'[r].dry = run[r].dry /\ run'[r].listing = run[r].listing
          /\ run'[r].considered = run[r].considered /\ run'[r].summary = run[r].summary
      BY <1>2, <1>4, <2>1 DEF RunTypeOK, RunState, Phases
    <2>3. Book(r)' = Book(r) /\ Counted(r)' = Counted(r)
      BY <2>2 DEF Book, Counted
    <2>4. ~ PresentSynced(run[r].listing, Book(r))'
      BY <1>4, <2>2, <2>3 DEF PresentNoMetadata, PresentSynced, byISBN
    <2>5. RunOK(r)'
      BY <1>1, <1>2, <1>4, <2>2, <2>3, <2>4 DEF RunOK
    <2> QED BY <1>1, <2>2, <2>5, OthersOK
  <1>5. ASSUME NotPresent(listing, Book(r)), ~ run[r].dry, Goto(r, "m4b")
        PROVE  Invariants'
    <2>1. "m4b" \in Phases
      BY DEF Phases
    <2>2. run'[r] = [run[r] EXCEPT !.phase = "m4b"]
      BY <1>2, <1>5, <2>1, GotoEffect
    <2>3. /\ RunTypeOK' /\ \A q \in Runs \ {r} : run'[q] = run[q]
      BY <1>2, <1>5, <2>1, GotoEffect
    <2>4. /\ run'[r].phase = "m4b" /\ run'[r].pos = run[r].pos
          /\ run'[r].dry = run[r].dry /\ run'[r].listing = run[r].listing
          /\ run'[r].considered = run[r].considered /\ run'[r].summary = run[r].summary
      BY <1>2, <2>2 DEF RunState
    <2>5. Book(r)' = Book(r) /\ Counted(r)' = Counted(r)
      BY <2>4 DEF Book, Counted
    <2>6. ~ PresentSynced(run[r].listing, Book(r))'
      BY <1>5, <2>4, <2>5 DEF NotPresent, PresentSynced, byISBN
    <2>7. RunOK(r)'
      BY <1>1, <1>2, <1>5, <2>4, <2>5, <2>6 DEF RunOK
    <2> QED BY <1>1, <2>3, <2>7, OthersOK
  <1>6. "already" \in Outcomes /\ "repaired" \in Outcomes /\ "synced" \in Outcomes
    BY DEF Outcomes
  <1> QED BY <1>3, <1>4, <1>5, <1>6 DEF NextBook, SkipBook, RepairBook, SyncBook

LEMMA FinishStep ==
  ASSUME Invariants, NEW r \in Runs, Finish(r)
  PROVE  Invariants'
  <1>1. owned' = owned /\ owned \in Nat /\ AbsOK' /\ faults' \in Nat
    BY UnchangedType, CatalogFacts DEF Finish, Invariants
  <1>2. run[r] \in RunState /\ RunOK(r) /\ run[r].pos > run[r].considered
    BY DEF Invariants, RunTypeOK, Finish
  <1>3. /\ RunTypeOK' /\ \A q \in Runs \ {r} : run'[q] = run[q]
        /\ run'[r].phase = "exit" /\ run'[r].pos = run[r].pos
        /\ run'[r].considered = run[r].considered /\ run'[r].summary = run[r].summary
    <2>1. run' = [run EXCEPT ![r].phase = "exit", ![r].listing = <<>>]
      BY DEF Finish
    <2>2. "exit" \in Phases /\ <<>> \in Seq(Items)
      BY DEF Phases
    <2> QED BY <1>2, <2>1, <2>2 DEF Invariants, RunTypeOK, RunState
  <1>4. run[r].pos \in Nat /\ run[r].considered \in Nat
    BY <1>2 DEF RunState
  <1>5. RunOK(r)'
    BY <1>1, <1>2, <1>3, <1>4 DEF RunOK, Counted, Working
  <1> QED BY <1>1, <1>3, <1>5, OthersOK
LEMMA DownloadStep ==
  ASSUME Invariants, NEW r \in Runs, DownloadM4B(r) \/ DownloadMP3(r)
  PROVE  Invariants'
  <1>1. owned' = owned /\ AbsOK' /\ faults' \in Nat
    BY UnchangedType, FaultsType DEF DownloadM4B, DownloadMP3, Invariants
  <1>2. run[r].phase \in Working
    BY DEF DownloadM4B, DownloadMP3, Working
  <1>3. "mp3" \in Working /\ "upload" \in Working /\ "failed" \in Outcomes
    BY DEF Working, Outcomes
  <1>4. Count(r, "failed") \/ Goto(r, "mp3") \/ Goto(r, "upload")
    BY DEF DownloadM4B, DownloadMP3
  <1> QED BY <1>1, <1>2, <1>3, <1>4, CountBook, GoOn

LEMMA UploadItemStep ==
  ASSUME Invariants, NEW r \in Runs, UploadItem(r)
  PROVE  Invariants'
  <1>1. run[r].phase \in Working
    BY DEF UploadItem, Working
  <1>2. owned' = owned /\ faults' \in Nat
    BY FaultsType DEF UploadItem, Invariants
  <1>3. Receive(run[r].pos) \/ UNCHANGED absVars
    BY DEF UploadItem
  <1>4. AbsOK'
    BY <1>1, <1>3, AtWork, ReceiveType, UnchangedType DEF Invariants
  <1>5. "scan" \in Working /\ "failed" \in Outcomes
    BY DEF Working, Outcomes
  <1>6. Count(r, "failed") \/ Goto(r, "scan")
    BY DEF UploadItem
  <1> QED BY <1>1, <1>2, <1>4, <1>5, <1>6, CountBook, GoOn

LEMMA TriggerScanStep ==
  ASSUME Invariants, NEW r \in Runs, TriggerScan(r)
  PROVE  Invariants'
  <1>1. run[r].phase \in Working /\ "discover" \in Working
    BY DEF TriggerScan, Working
  <1>2. owned' = owned /\ faults' \in Nat /\ Goto(r, "discover")
    BY FaultsType DEF TriggerScan, Invariants
  <1>3. AcceptScan \/ UNCHANGED absVars
    BY DEF TriggerScan
  <1>4. AbsOK'
    BY <1>3, AcceptScanType, UnchangedType DEF Invariants
  <1> QED BY <1>1, <1>2, <1>4, GoOn

LEMMA DiscoverStep ==
  ASSUME Invariants, NEW r \in Runs, Discover(r)
  PROVE  Invariants'
  <1>1. run[r].phase \in Working /\ run[r].phase = "discover"
    BY DEF Discover, Working
  <1>2. owned' = owned /\ AbsOK' /\ faults' \in Nat
    BY UnchangedType, FaultsType DEF Discover, Invariants
  <1>3. run[r] \in RunState /\ RunOK(r) /\ RunTypeOK
    BY DEF Invariants, RunTypeOK
  <1>4. ASSUME NEW phase \in {"patch", "discover"}, NEW target \in Nat, NEW polls \in Nat,
               run' = [run EXCEPT ![r].phase = phase, ![r].target = target, ![r].polls = polls]
        PROVE  Invariants'
    <2>1. phase \in Phases /\ phase \in Working /\ phase \notin {"list", "library", "exit"}
      BY DEF Phases, Working
    <2>2. /\ RunTypeOK' /\ \A q \in Runs \ {r} : run'[q] = run[q]
          /\ run'[r].phase = phase /\ run'[r].pos = run[r].pos
          /\ run'[r].dry = run[r].dry /\ run'[r].listing = run[r].listing
          /\ run'[r].considered = run[r].considered /\ run'[r].summary = run[r].summary
      BY <1>3, <1>4, <2>1 DEF RunTypeOK, RunState
    <2>3. Book(r)' = Book(r) /\ Counted(r)' = Counted(r)
      BY <2>2 DEF Book, Counted
    <2>4. PresentSynced(run[r].listing, Book(r))' = PresentSynced(run[r].listing, Book(r))
      BY <2>2, <2>3 DEF PresentSynced, byISBN
    <2>5. RunOK(r)'
      BY <1>1, <1>2, <1>3, <2>1, <2>2, <2>3, <2>4 DEF RunOK
    <2> QED BY <1>2, <2>2, <2>5, OthersOK
  <1>5. CASE \E it \in items : run' = [run EXCEPT ![r].phase = "patch", ![r].target = it.id]
    <2>1. PICK it \in items : run' = [run EXCEPT ![r].phase = "patch", ![r].target = it.id]
      BY <1>5
    <2>2. it.id \in Nat /\ run[r].polls \in Nat
      BY <1>3 DEF Invariants, AbsOK, AbsTypeOK, Items, RunState
    <2>3. run' = [run EXCEPT ![r].phase = "patch", ![r].target = it.id,
                             ![r].polls = run[r].polls]
      BY <1>3, <2>1, <2>2 DEF RunTypeOK, RunState
    <2> QED BY <1>4, <2>2, <2>3
  <1>6. CASE run' = [run EXCEPT ![r].polls = @ + 1]
    <2>1. run[r].target \in Nat /\ run[r].polls + 1 \in Nat
      BY <1>3 DEF RunState
    <2>2. run' = [run EXCEPT ![r].phase = "discover", ![r].target = run[r].target,
                             ![r].polls = run[r].polls + 1]
      BY <1>1, <1>3, <1>6 DEF RunTypeOK, RunState
    <2> QED BY <1>4, <2>1, <2>2
  <1>7. CASE Count(r, "failed")
    BY <1>1, <1>2, <1>7, CountBook DEF Outcomes
  <1> QED BY <1>5, <1>6, <1>7 DEF Discover, Hits, GiveUpPolling

LEMMA PatchTargetType ==
  ASSUME Invariants, NEW r \in Runs, run[r].phase \in Working, PatchTarget(r)
  PROVE  AbsOK'
  <1>1. PICK it \in ItemsWith(run[r].target) : Replace(it, Patched(it, Book(r)))
    BY DEF PatchTarget
  <1>2. it \in items /\ it \in Items
    BY DEF ItemsWith, Invariants, AbsOK, AbsTypeOK
  <1>3. Patched(it, Book(r)) \in Items
    BY <1>2, AtWork, PatchedType DEF Book
  <1> QED BY <1>1, <1>2, <1>3, ReplaceType DEF Invariants

LEMMA patchMetadataStep ==
  ASSUME Invariants, NEW r \in Runs, patchMetadata(r)
  PROVE  Invariants'
  <1>1. run[r].phase \in Working /\ "cover" \in Working /\ "failed" \in Outcomes
    BY DEF patchMetadata, Working, Outcomes
  <1>2. owned' = owned /\ faults' \in Nat
    BY FaultsType DEF patchMetadata, PatchFails, Invariants
  <1>3. PatchTarget(r) \/ UNCHANGED absVars
    BY DEF patchMetadata, PatchFails
  <1>4. AbsOK'
    BY <1>1, <1>3, PatchTargetType, UnchangedType DEF Invariants
  <1>5. Count(r, "failed") \/ Goto(r, "cover")
    BY DEF patchMetadata, PatchFails
  <1> QED BY <1>1, <1>2, <1>4, <1>5, CountBook, GoOn

LEMMA setCoverStep ==
  ASSUME Invariants, NEW r \in Runs, setCover(r)
  PROVE  Invariants'
  <1>1. run[r].phase \in Working /\ "repaired" \in Outcomes /\ "synced" \in Outcomes
    BY DEF setCover, Working, Outcomes
  <1>2. owned' = owned /\ faults' \in Nat
    BY FaultsType DEF setCover, Invariants
  <1>3. \/ \E it \in ItemsWith(run[r].target) : Replace(it, [it EXCEPT !.cover = TRUE])
        \/ UNCHANGED absVars
    BY DEF setCover
  <1>4. AbsOK'
    <2>1. ASSUME NEW it \in ItemsWith(run[r].target), Replace(it, [it EXCEPT !.cover = TRUE])
          PROVE  AbsOK'
      <3>1. it \in items /\ it \in Items
        BY DEF ItemsWith, Invariants, AbsOK, AbsTypeOK
      <3>2. [it EXCEPT !.cover = TRUE] \in Items
        BY <3>1 DEF Items
      <3> QED BY <2>1, <3>1, <3>2, ReplaceType DEF Invariants
    <2> QED BY <1>3, <2>1, UnchangedType DEF Invariants
  <1>5. Count(r, "repaired") \/ Count(r, "synced")
    BY DEF setCover
  <1> QED BY <1>1, <1>2, <1>4, <1>5, CountBook

LEMMA InterruptStep ==
  ASSUME Invariants, NEW r \in Runs, Interrupt(r)
  PROVE  Invariants'
  <1>1. owned' = owned /\ AbsOK' /\ faults' \in Nat
    BY UnchangedType DEF Interrupt, Invariants
  <1>2. run[r] \in RunState /\ RunOK(r) /\ RunTypeOK
    BY DEF Invariants, RunTypeOK
  <1>3. /\ RunTypeOK' /\ \A q \in Runs \ {r} : run'[q] = run[q]
        /\ run'[r].phase = run[r].phase /\ run'[r].pos = run[r].pos
        /\ run'[r].dry = run[r].dry /\ run'[r].listing = run[r].listing
        /\ run'[r].considered = run[r].considered /\ run'[r].summary = run[r].summary
    BY <1>2 DEF Interrupt, RunTypeOK, RunState
  <1>4. Book(r)' = Book(r) /\ Counted(r)' = Counted(r)
    BY <1>3 DEF Book, Counted
  <1>5. PresentSynced(run[r].listing, Book(r))' = PresentSynced(run[r].listing, Book(r))
    BY <1>3, <1>4 DEF PresentSynced, byISBN
  <1>6. RunOK(r)'
    BY <1>1, <1>2, <1>3, <1>4, <1>5 DEF RunOK
  <1> QED BY <1>1, <1>3, <1>6, OthersOK

LEMMA KillStep ==
  ASSUME Invariants, NEW r \in Runs, Kill(r)
  PROVE  Invariants'
  <1>1. owned' = owned /\ AbsOK' /\ faults' \in Nat /\ Quit(r)
    BY UnchangedType DEF Kill, Invariants
  <1> QED BY <1>1, GiveUp

(* The scanner, the user, a purchase: no run moves.                        *)
LEMMA NoRunStep ==
  ASSUME Invariants, AbsOK', UNCHANGED <<run, faults>>,
         owned' \in 0..Len(Catalog), owned <= owned'
  PROVE  Invariants'
  <1>1. owned \in Nat /\ owned' \in Nat
    BY CatalogFacts DEF Invariants
  <1>2. ASSUME NEW q \in Runs PROVE RunOK(q)'
    BY <1>1, Frame DEF Invariants
  <1> QED BY <1>2 DEF Invariants, RunTypeOK

LEMMA EnvironmentStep ==
  ASSUME Invariants, Server \/ User \/ Purchase
  PROVE  Invariants'
  <1>1. CASE Server
    BY <1>1, ScanFolderType, NoRunStep, CatalogFacts DEF Server, Invariants
  <1>2. CASE User
    BY <1>2, UserAddsType, UserDeletesType, NoRunStep, CatalogFacts DEF User, Invariants
  <1>3. CASE Purchase
    <2>1. AbsOK'
      BY <1>3, UnchangedType DEF Purchase, Invariants
    <2>2. owned' \in 0..Len(Catalog) /\ owned <= owned'
      BY <1>3, CatalogFacts DEF Purchase, Invariants
    <2> QED BY <1>3, <2>1, <2>2, NoRunStep DEF Purchase
  <1> QED BY <1>1, <1>2, <1>3
-------------------------------------------------------------------------------
(* The invariant holds initially and is kept by every step.                *)

LEMMA InitIInv ==
  ASSUME Init
  PROVE  Invariants
  <1>1. AbsOK
    BY FS_EmptySet DEF Init, AbsInit, AbsOK, AbsTypeOK
  <1>2. owned \in 0..Len(Catalog) /\ owned \in Nat /\ faults \in Nat
    BY CatalogFacts DEF Init, BookIds
  <1>3. RunTypeOK /\ \A r \in Runs : run[r] = Idle
    BY IdleType DEF Init, RunTypeOK
  <1>4. /\ Idle.phase = "idle" /\ Idle.pos = 1 /\ Idle.considered = 0
        /\ \A o \in Outcomes : Idle.summary[o] = 0
    BY DEF Idle
  <1>5. \A r \in Runs : RunOK(r)
    BY <1>2, <1>3, <1>4 DEF RunOK, Counted, Outcomes, Working
  <1> QED BY <1>1, <1>2, <1>3, <1>5 DEF Invariants

LEMMA RunStep ==
  ASSUME Invariants, NEW r \in Runs, Step(r)
  PROVE  Invariants'
  BY ListItemsStep, FetchLibraryStep, NextBookStep, FinishStep, DownloadStep,
     UploadItemStep, TriggerScanStep, DiscoverStep, patchMetadataStep, setCoverStep
     DEF Step

LEMMA NextIInv ==
  ASSUME Invariants, [Next]_vars
  PROVE  Invariants'
  <1>1. CASE \E r \in Runs : StartRun(r) \/ Step(r) \/ Interrupt(r) \/ Kill(r)
    BY <1>1, StartRunStep, RunStep, InterruptStep, KillStep
  <1>2. CASE Server \/ User \/ Purchase
    BY <1>2, EnvironmentStep
  <1>3. CASE UNCHANGED vars
    <2>1. AbsOK'
      BY <1>3, UnchangedType DEF vars, Invariants
    <2> QED BY <1>3, <2>1, NoRunStep, CatalogFacts DEF vars, Invariants
  <1> QED BY <1>1, <1>2, <1>3 DEF Next

(* The inductive invariant of every execution.                             *)
THEOREM Invariance == Spec => []IInv
  <1>1. Init => IInv
    BY InitIInv, IInvForm
  <1>2. IInv /\ [Next]_vars => IInv'
    <2> SUFFICES ASSUME IInv, [Next]_vars PROVE IInv'
      OBVIOUS
    <2>1. Invariants
      BY IInvForm
    <2>2. Invariants'
      BY <2>1, NextIInv
    <2> QED BY <2>2 DEF IInv, Invariants, TypeOK, AbsOK, RunTypeOK
  <1> QED BY <1>1, <1>2, PTL DEF Spec

(* Every variable has its type in every reachable state, whatever the      *)
(* catalog, the number of runs and the faults.                             *)
THEOREM TypeCorrect == Spec => []TypeOK
  <1>1. IInv => TypeOK
    BY DEF IInv
  <1> QED BY <1>1, Invariance, PTL

(* Run counts every book it considers exactly once.                        *)
THEOREM AccountingHolds == Spec => []Accounting
  <1>1. IInv => Accounting
    <2> SUFFICES ASSUME IInv, NEW r \in Runs
                 PROVE  /\ Counted(r) = run[r].pos - 1
                        /\ run[r].phase = "exit" => Counted(r) = run[r].considered
      BY DEF Accounting
    <2>1. RunOK(r) /\ run[r] \in RunState
      BY DEF IInv, TypeOK
    <2>2. run[r].pos \in Nat /\ run[r].considered \in Nat
      BY <2>1 DEF RunState
    <2> QED BY <2>1, <2>2 DEF RunOK
  <1> QED BY <1>1, Invariance, PTL

(* The step rule of MutationsJustified: only a run at work on a book       *)
(* writes to the library.                                                  *)
LEMMA OnlyWorkWrites ==
  ASSUME Invariants, [Next]_vars, NEW r \in Runs, run'[r] # run[r], absVars' # absVars
  PROVE  run[r].phase \in Working
  <1>1. PICK q \in Runs : StartRun(q) \/ Step(q) \/ Interrupt(q) \/ Kill(q)
    <2>1. ~ (Server \/ User \/ Purchase \/ UNCHANGED vars)
      BY DEF Server, User, Purchase, vars
    <2> QED BY <2>1 DEF Next
  <1>2. Step(q) /\ ~ ListItems(q) /\ ~ FetchLibrary(q) /\ ~ NextBook(q) /\ ~ Finish(q)
    BY <1>1 DEF StartRun, Interrupt, Kill, ListItems, FetchLibrary, NextBook, Finish
  <1>3. run[q].phase \in Working
    BY <1>2 DEF Step, DownloadM4B, DownloadMP3, UploadItem, TriggerScan, Discover,
                patchMetadata, setCover, Working
  <1>4. q = r
    <2>1. run \in [Runs -> RunState]
      BY DEF Invariants, RunTypeOK
    <2>2. \A p \in Runs \ {q} : run'[p] = run[p]
      BY <1>2, <2>1 DEF Step, DownloadM4B, DownloadMP3, UploadItem, TriggerScan,
                        Discover, GiveUpPolling, patchMetadata, PatchFails, setCover,
                        Goto, Count
    <2> QED BY <2>2
  <1> QED BY <1>3, <1>4

(* A run changes the library only when it is not dry, and only on behalf   *)
(* of an owned book that its listing did not show with its ISBN.           *)
THEOREM MutationsAreJustified == Spec => MutationsJustified
  <1> DEFINE Justified ==
        \A r \in Runs :
           run'[r] # run[r] /\ absVars' # absVars =>
              /\ ~ run[r].dry
              /\ run[r].pos <= owned
              /\ ~ PresentSynced(run[r].listing, Book(r))
  <1>1. IInv /\ [Next]_vars => [Justified]_vars
    <2> SUFFICES ASSUME IInv, [Next]_vars, NEW r \in Runs,
                        run'[r] # run[r], absVars' # absVars
                 PROVE  /\ ~ run[r].dry
                        /\ run[r].pos <= owned
                        /\ ~ PresentSynced(run[r].listing, Book(r))
      OBVIOUS
    <2>1. Invariants
      BY IInvForm
    <2>2. run[r].phase \in Working
      BY <2>1, OnlyWorkWrites
    <2> QED BY <2>1, <2>2, AtWork
  <1> QED BY <1>1, Invariance, PTL DEF Spec, MutationsJustified

-------------------------------------------------------------------------------
(* --limit.  Nothing of a book past the limit is sent: no file lands, and  *)
(* no item gets an ISBN but that of a book within the limit.               *)

LandedWithin == \A n \in landed : n <= Limit
LoopWithin(r) == run[r].considered <= Limit
IsbnWithin(it) == it.isbn # "" => \E n \in BookIds : n <= Limit /\ it.isbn = Catalog[n].isbn

LimitInv ==
    Limit > 0 =>
        /\ LandedWithin
        /\ \A r \in Runs : LoopWithin(r)
        /\ \A it \in items : IsbnWithin(it)

LEMMA IdleConsiders == Idle.considered = 0
  BY DEF Idle

LEMMA LoopStep ==
  ASSUME Invariants, Limit > 0, \A r \in Runs : LoopWithin(r), [Next]_vars, NEW r \in Runs
  PROVE  LoopWithin(r)'
  <1>0. run \in [Runs -> RunState] /\ run[r].considered <= Limit /\ Limit \in Nat /\ owned \in Nat
    BY ReconcileAssumption, CatalogFacts DEF Invariants, RunTypeOK, LoopWithin
  <1>1. CASE run'[r] = run[r]
    BY <1>0, <1>1 DEF LoopWithin
  <1>2. ASSUME NEW q \in Runs, \E outcome \in Outcomes : Count(q, outcome)
        PROVE  LoopWithin(r)'
    BY <1>0, <1>2, CountEffect DEF LoopWithin, Invariants
  <1>3. ASSUME NEW q \in Runs, Quit(q) \/ StartRun(q)
        PROVE  LoopWithin(r)'
    <2>1. CASE run' = [run EXCEPT ![q] = Idle]
      BY <1>0, <2>1, IdleConsiders DEF LoopWithin
    <2>2. ASSUME NEW dry, run' = [run EXCEPT ![q] = [Idle EXCEPT !.phase = "list", !.dry = dry]]
          PROVE  LoopWithin(r)'
      <3>1. PICK fresh : fresh = [Idle EXCEPT !.phase = "list", !.dry = dry]
        OBVIOUS
      <3>2. fresh.considered = 0
        BY <3>1 DEF Idle
      <3>3. run' = [run EXCEPT ![q] = fresh]
        BY <2>2, <3>1
      <3> QED BY <1>0, <3>2, <3>3 DEF LoopWithin
    <2> QED BY <1>3, <2>1, <2>2 DEF Quit, StartRun
  <1>4. ASSUME NEW q \in Runs, \E phase \in Phases : Goto(q, phase)
        PROVE  LoopWithin(r)'
    BY <1>0, <1>4 DEF LoopWithin, Goto, RunState
  <1>5. ASSUME NEW q \in Runs, Step(q)
        PROVE  LoopWithin(r)'
    <2>0. run[q] \in RunState
      BY <1>0
    <2>1. CASE ListItems(q) \/ Finish(q)
      <3>1. CASE Quit(q)
        BY <1>3, <3>1
      <3>2. ASSUME NEW listing,
                   run' = [run EXCEPT ![q].phase = "library", ![q].listing = listing]
            PROVE  LoopWithin(r)'
        BY <1>0, <2>0, <3>2 DEF LoopWithin, RunState
      <3>3. CASE run' = [run EXCEPT ![q].phase = "exit", ![q].listing = <<>>]
        BY <1>0, <2>0, <3>3 DEF LoopWithin, RunState
      <3> QED BY <2>1, <3>1, <3>2, <3>3 DEF ListItems, Finish
    <2>6. CASE FetchLibrary(q)
      <3>1. CASE Quit(q)
        BY <1>3, <3>1
      <3>2. Considered <= Limit
        BY <1>0 DEF Considered
      <3>3. CASE run' = [run EXCEPT ![q].phase = "next", ![q].considered = Considered]
        BY <1>0, <2>0, <3>2, <3>3 DEF LoopWithin, RunState
      <3> QED BY <2>6, <3>1, <3>3 DEF FetchLibrary
    <2>2. CASE NextBook(q)
      <3>1. ASSUME NEW target,
                   run' = [run EXCEPT ![q].phase = "patch", ![q].repair = TRUE, ![q].target = target]
            PROVE  LoopWithin(r)'
        BY <1>0, <2>0, <3>1 DEF LoopWithin, RunState
      <3>2. {"already", "repaired", "synced"} \subseteq Outcomes /\ "m4b" \in Phases
        BY DEF Outcomes, Phases
      <3> QED BY <1>2, <1>4, <2>2, <3>1, <3>2 DEF NextBook, SkipBook, RepairBook, SyncBook
    <2>3. CASE DownloadM4B(q) \/ DownloadMP3(q) \/ UploadItem(q) \/ TriggerScan(q)
      BY <1>2, <1>4, <2>3 DEF DownloadM4B, DownloadMP3, UploadItem, TriggerScan, Outcomes, Phases
    <2>4. CASE Discover(q)
      BY <1>0, <1>2, <2>4 DEF LoopWithin, Discover, GiveUpPolling, RunState, Outcomes
    <2>5. CASE patchMetadata(q) \/ setCover(q)
      BY <1>2, <1>4, <2>5 DEF patchMetadata, PatchFails, setCover, Outcomes, Phases
    <2> QED BY <1>5, <2>1, <2>2, <2>3, <2>4, <2>5, <2>6 DEF Step
  <1>6. ASSUME NEW q \in Runs, Interrupt(q)
        PROVE  LoopWithin(r)'
    BY <1>0, <1>6 DEF LoopWithin, Interrupt, RunState
  <1>7. CASE Server \/ User \/ Purchase \/ UNCHANGED vars
    BY <1>1, <1>7 DEF Server, User, Purchase, vars
  <1> QED BY <1>3, <1>5, <1>6, <1>7 DEF Next, Kill

(* The book a run is at work on lies within the limit.                     *)
LEMMA BookWithin ==
  ASSUME Invariants, Limit > 0, NEW r \in Runs, LoopWithin(r), run[r].phase \in Working
  PROVE  \E n \in BookIds : n = run[r].pos /\ n <= Limit /\ Book(r) = Catalog[n]
  <1>1. run[r].pos \in BookIds
    BY AtWork
  <1>2. run[r].pos <= run[r].considered /\ run[r].considered \in Nat /\ run[r].pos \in Nat
    BY DEF Invariants, RunTypeOK, RunOK, RunState
  <1>3. run[r].pos <= Limit
    BY <1>2, ReconcileAssumption DEF LoopWithin
  <1> QED BY <1>1, <1>3 DEF Book

LEMMA LandedStep ==
  ASSUME Invariants, Limit > 0, \A r \in Runs : LoopWithin(r), LandedWithin, [Next]_vars
  PROVE  LandedWithin'
  <1>1. ASSUME NEW r \in Runs, UploadItem(r)
        PROVE  LandedWithin'
    <2>1. PICK n \in BookIds : n = run[r].pos /\ n <= Limit
      BY <1>1, BookWithin DEF UploadItem, Working
    <2> QED BY <1>1, <2>1 DEF UploadItem, Receive, absVars, LandedWithin
  <1>2. CASE landed' \subseteq landed
    BY <1>2 DEF LandedWithin
  <1>3. ASSUME NEW r \in Runs, Step(r), ~ UploadItem(r)
        PROVE  landed' = landed
    BY <1>3 DEF Step, ListItems, FetchLibrary, NextBook, Finish, DownloadM4B, DownloadMP3,
                TriggerScan, AcceptScan, Discover, patchMetadata, PatchTarget, PatchFails,
                setCover, Replace, absVars
  <1>4. ASSUME NEW r \in Runs, StartRun(r) \/ Interrupt(r) \/ Kill(r)
        PROVE  landed' = landed
    BY <1>4 DEF StartRun, Interrupt, Kill, absVars
  <1>5. CASE Server \/ User \/ Purchase \/ UNCHANGED vars
    BY <1>2, <1>5 DEF Server, ScanFolder, User, UserAdds, UserDeletes, Purchase, vars, absVars
  <1> QED BY <1>1, <1>2, <1>3, <1>4, <1>5 DEF Next

(* An ISBN comes from a PATCH only; the scanner and the user give none.    *)
LEMMA IsbnStep ==
  ASSUME Invariants, Limit > 0, \A r \in Runs : LoopWithin(r),
         \A it \in items : IsbnWithin(it), [Next]_vars
  PROVE  \A it \in items' : IsbnWithin(it)
  <1>0. \A it \in items : it \in Items
    BY DEF Invariants, AbsOK, AbsTypeOK
  <1>1. CASE items' \subseteq items
    BY <1>1
  <1>2. ASSUME NEW r \in Runs, run[r].phase = "patch", PatchTarget(r)
        PROVE  \A it \in items' : IsbnWithin(it)
    <2>1. PICK it \in items : items' = (items \ {it}) \union {Patched(it, Book(r))}
      BY <1>2 DEF PatchTarget, Replace, ItemsWith
    <2>2. PICK n \in BookIds : n <= Limit /\ Book(r) = Catalog[n]
      BY <1>2, BookWithin DEF Working
    <2>3. Patched(it, Book(r)).isbn = Catalog[n].isbn
      BY <1>0, <2>2 DEF Patched, Items
    <2>4. IsbnWithin(Patched(it, Book(r)))
      BY <2>2, <2>3 DEF IsbnWithin
    <2> QED BY <2>1, <2>4
  <1>3. ASSUME NEW it \in items, NEW new, items' = (items \ {it}) \union {new}, new.isbn = it.isbn
        PROVE  \A other \in items' : IsbnWithin(other)
    BY <1>3 DEF IsbnWithin
  <1>4. ASSUME NEW new, items' = items \union {new}, new.isbn = ""
        PROVE  \A it \in items' : IsbnWithin(it)
    BY <1>4 DEF IsbnWithin
  <1>5. ASSUME NEW r \in Runs, setCover(r)
        PROVE  \A it \in items' : IsbnWithin(it)
    <2>1. CASE UNCHANGED absVars
      BY <1>1, <2>1 DEF absVars
    <2>2. ASSUME NEW it \in ItemsWith(run[r].target), Replace(it, [it EXCEPT !.cover = TRUE])
          PROVE  \A other \in items' : IsbnWithin(other)
      <3>1. it \in items /\ [it EXCEPT !.cover = TRUE].isbn = it.isbn
        BY <1>0 DEF ItemsWith, Items
      <3> QED BY <1>3, <2>2, <3>1 DEF Replace
    <2> QED BY <1>5, <2>1, <2>2 DEF setCover
  <1>6. ASSUME NEW r \in Runs, Step(r), ~ patchMetadata(r), ~ setCover(r)
        PROVE  items' = items
    BY <1>6 DEF Step, ListItems, FetchLibrary, NextBook, Finish, DownloadM4B, DownloadMP3,
                UploadItem, Receive, TriggerScan, AcceptScan, Discover, absVars
  <1>7. ASSUME NEW r \in Runs, patchMetadata(r)
        PROVE  \A it \in items' : IsbnWithin(it)
    BY <1>1, <1>2, <1>7 DEF patchMetadata, PatchFails, absVars
  <1>8. ASSUME NEW n \in BookIds, ScanFolder(n)
        PROVE  \A it \in items' : IsbnWithin(it)
    <2>1. ASSUME NEW it \in ItemsIn(Folder(Catalog[n])),
                 items' = (items \ {it}) \union {[it EXCEPT !.holds = @ \union {n}]}
          PROVE  \A other \in items' : IsbnWithin(other)
      <3>1. it \in items /\ [it EXCEPT !.holds = @ \union {n}].isbn = it.isbn
        BY <1>0 DEF ItemsIn, Items
      <3> QED BY <1>3, <2>1, <3>1
    <2>2. ASSUME NEW title,
                 items' = items \union
                   {[id |-> nextId, folder |-> Folder(Catalog[n]), title |-> title,
                     author |-> uploadAuthor(Catalog[n]), series |-> uploadSeries(Catalog[n]),
                     isbn |-> "", cover |-> FALSE, holds |-> {n}]}
          PROVE  \A it \in items' : IsbnWithin(it)
      BY <1>4, <2>2
    <2> QED BY <1>8, <2>1, <2>2 DEF ScanFolder
  <1>9. ASSUME NEW m \in Manual, UserAdds(m)
        PROVE  \A it \in items' : IsbnWithin(it)
    <2>1. PICK new : new =
             [id |-> nextId, folder |-> m.folder, title |-> m.title, author |-> m.author,
              series |-> <<>>, isbn |-> "", cover |-> FALSE, holds |-> {m.recording}]
      OBVIOUS
    <2> QED BY <1>4, <1>9, <2>1 DEF UserAdds
  <1>10. ASSUME NEW r \in Runs, StartRun(r) \/ Interrupt(r) \/ Kill(r)
         PROVE  items' = items
    BY <1>10 DEF StartRun, Interrupt, Kill, absVars
  <1>11. CASE Server \/ User \/ Purchase \/ UNCHANGED vars
    BY <1>1, <1>8, <1>9, <1>11 DEF Server, User, UserDeletes, Purchase, vars, absVars
  <1> QED BY <1>1, <1>5, <1>6, <1>7, <1>10, <1>11 DEF Next

(* With --limit nothing of a book past the limit is uploaded and no item   *)
(* gets such a book's ISBN by a run, on every catalog.                     *)
THEOREM LimitInvariance == Spec => []LimitInv
  <1>1. Init => LimitInv
    <2> SUFFICES ASSUME Init, Limit > 0 PROVE \A r \in Runs : LoopWithin(r)
      BY DEF Init, AbsInit, LimitInv, LandedWithin
    <2>1. \A r \in Runs : run[r] = Idle
      BY DEF Init
    <2> QED BY <2>1, IdleConsiders, ReconcileAssumption DEF LoopWithin
  <1>2. IInv /\ LimitInv /\ [Next]_vars => LimitInv'
    <2> SUFFICES ASSUME IInv, LimitInv, [Next]_vars, Limit > 0 PROVE LimitInv'
      BY DEF LimitInv
    <2>1. Invariants
      BY IInvForm
    <2>2. (\A r \in Runs : LoopWithin(r))' /\ LandedWithin'
      BY <2>1, LoopStep, LandedStep DEF LimitInv
    <2>3. \A it \in items' : IsbnWithin(it)
      BY <2>1, IsbnStep DEF LimitInv
    <2> QED BY <2>2, <2>3 DEF LimitInv, IsbnWithin
  <1> QED BY <1>1, <1>2, Invariance, PTL DEF Spec

(* No book past the limit shares its ISBN with one within it.              *)
LimitApart ==
    \A n, m \in BookIds :
        n <= Limit /\ m > Limit /\ Catalog[m].isbn # "" => Catalog[n].isbn # Catalog[m].isbn

(* WithinLimit, on every catalog where an ISBN tells the books past the    *)
(* limit from those within it.                                             *)
THEOREM LimitHolds == ASSUME LimitApart PROVE Spec => []WithinLimit
  <1>1. LimitInv /\ IInv => WithinLimit
    <2> SUFFICES ASSUME LimitInv, IInv, Limit > 0, NEW n \in BookIds, n > Limit
                 PROVE  n \notin landed /\ ~ Mirrored(n)
      BY DEF WithinLimit
    <2>1. n \in Nat /\ Limit \in Nat
      BY CatalogFacts, ReconcileAssumption
    <2>2. n \notin landed
      BY <2>1 DEF LimitInv, LandedWithin
    <2>3. ASSUME NEW it \in items, it.isbn = Catalog[n].isbn, it.isbn # ""
          PROVE  FALSE
      BY <2>3 DEF LimitInv, IsbnWithin, LimitApart
    <2> QED BY <2>2, <2>3 DEF Mirrored
  <1> QED BY <1>1, LimitInvariance, Invariance, PTL
===============================================================================
