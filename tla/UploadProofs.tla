----------------------------- MODULE UploadProofs ------------------------------
(***************************************************************************)
(* What audiobookshelf takes in is the book, whole and in order: for any   *)
(* number of runs, archives and tracks, as long as the archives name their *)
(* files in the order of the story (InOrder) and overlapping runs do not   *)
(* share a --work-dir (NotShared).                                         *)
(*                                                                         *)
(* The invariant follows every file from the archive entry over the        *)
(* listing, the tag and the body to the accepted upload.  That the n-th    *)
(* name in the listing is track n, and the n-th of the sorted chapters     *)
(* chapter n, is the same fact twice: a strictly increasing map of 1 .. n  *)
(* onto itself is the identity.                                            *)
(***************************************************************************)
EXTENDS TransferProofs, WellFoundedInduction

-------------------------------------------------------------------------------
(* Order.                                                                  *)

Smaller == {p \in Nat \X Nat : p[1] < p[2]}

LEMMA SmallerWF == IsWellFoundedOn(Smaller, Nat)
<1>1. OpToRel(<, Nat) = Smaller
  BY DEF OpToRel, Smaller
<1> QED BY <1>1, NatLessThanWellFounded

LEMMA HasSmallest ==
    ASSUME NEW S \in SUBSET Nat, S # {}
    PROVE  \E least \in S : \A n \in S : least <= n
<1>1. PICK least \in S : \A n \in S : <<n, least>> \notin Smaller
  BY SmallerWF, WFMin
<1>2. ASSUME NEW n \in S PROVE least <= n
  <2>1. n \in Nat /\ least \in Nat
    OBVIOUS
  <2>2. ~ (n < least)
    BY <1>1, <2>1 DEF Smaller
  <2> QED BY <2>1, <2>2
<1> QED BY <1>2

(* A strictly increasing map of 1 .. n onto itself is the identity.        *)
LEMMA InPlace ==
    ASSUME NEW n \in Nat, NEW f \in [1 .. n -> 1 .. n],
           \A i, j \in 1 .. n : i < j => f[i] < f[j],
           \A m \in 1 .. n : \E i \in 1 .. n : f[i] = m
    PROVE  \A k \in 1 .. n : f[k] = k
<1> DEFINE moved == {k \in 1 .. n : f[k] # k}
<1> SUFFICES ASSUME moved # {} PROVE FALSE
  OBVIOUS
<1>1. moved \in SUBSET Nat
  OBVIOUS
<1>2. PICK k \in moved : \A m \in moved : k <= m
  <2> HIDE DEF moved
  <2> QED BY <1>1, HasSmallest
<1>3. \A m \in 1 .. n : m < k => f[m] = m
  BY <1>2
<1>4. f[k] > k
  <2>1. f[k] \in 1 .. n /\ k \in 1 .. n /\ f[k] # k
    BY <1>2
  <2>2. CASE f[k] < k
    <3>1. f[f[k]] = f[k] /\ f[f[k]] < f[k]
      BY <1>3, <2>1, <2>2
    <3> QED BY <2>1, <3>1
  <2> QED BY <2>1, <2>2
<1>5. PICK m \in 1 .. n : f[m] = k
  BY <1>2
<1>6. CASE m < k
  BY <1>3, <1>5, <1>6
<1>7. CASE m = k
  BY <1>4, <1>5, <1>7
<1>8. CASE m > k
  <2>1. f[m] > f[k] /\ f[m] \in 1 .. n /\ f[k] \in 1 .. n /\ k \in 1 .. n
    BY <1>2, <1>8
  <2> QED BY <1>4, <1>5, <2>1
<1> QED BY <1>2, <1>6, <1>7, <1>8

-------------------------------------------------------------------------------
(* The chapters.                                                           *)

LEMMA TracksTyped ==
    /\ Len(Tracks) \in Nat /\ DOMAIN Tracks = 1 .. Len(Tracks)
    /\ \A i \in DOMAIN Tracks : /\ Tracks[i] \in [number : Nat \ {0}, title : Nat]
                                /\ Tracks[i].number \in Nat /\ Tracks[i].title \in Nat
<1>1. Len(Tracks) \in Nat /\ DOMAIN Tracks = 1 .. Len(Tracks)
  BY TracksAreTracks, LenProperties
<1>2. \A i \in DOMAIN Tracks : Tracks[i] \in [number : Nat \ {0}, title : Nat]
  BY <1>1, TracksAreTracks, ElementOfSeq
<1> QED BY <1>1, <1>2

(* sort.Slice brings chapter n to the n-th place.                          *)
LEMMA SortedInPlace ==
    ASSUME InOrder
    PROVE  /\ DOMAIN sortedTracks = 1 .. Len(Tracks)
           /\ \A n \in 1 .. Len(Tracks) :
                 \E i \in DOMAIN Tracks : sortedTracks[n] = Tracks[i] /\ Tracks[i].number = n
<1> DEFINE L == Len(Tracks)
           Places == Bijection(DOMAIN Tracks, DOMAIN Tracks)
<1>1. L \in Nat /\ DOMAIN Tracks = 1 .. L /\ \A i \in 1 .. L : Tracks[i].number \in Nat
  BY TracksTyped
<1>2. /\ \A i, j \in 1 .. L : Tracks[i].number = Tracks[j].number => i = j
      /\ \A i \in 1 .. L : Tracks[i].number \in 1 .. L
      /\ \A n \in 1 .. L : \E i \in 1 .. L : Tracks[i].number = n
  BY <1>1 DEF InOrder
<1> HIDE DEF L
<1>3. \E f \in Places : InNumberOrder(f)
  <2> DEFINE f == [n \in 1 .. L |-> CHOOSE i \in 1 .. L : Tracks[i].number = n]
  <2>1. \A n \in 1 .. L : f[n] \in 1 .. L /\ Tracks[f[n]].number = n
    BY <1>2
  <2>2. f \in [1 .. L -> 1 .. L]
    BY <2>1
  <2> HIDE DEF f
  <2>3. f \in Injection(1 .. L, 1 .. L)
    BY <2>1, <2>2 DEF Injection, IsInjective
  <2>4. ASSUME NEW i \in 1 .. L PROVE \E n \in 1 .. L : f[n] = i
    <3>1. PICK n \in 1 .. L : n = Tracks[i].number
      BY <1>2
    <3>2. f[n] \in 1 .. L /\ Tracks[f[n]].number = Tracks[i].number
      BY <2>1, <3>1
    <3>3. f[n] = i
      BY <1>2, <3>2
    <3> QED BY <3>3
  <2>5. f \in Surjection(1 .. L, 1 .. L)
    BY <2>2, <2>4 DEF Surjection
  <2>6. InNumberOrder(f)
    BY <1>1, <2>1 DEF InNumberOrder
  <2> QED BY <1>1, <2>3, <2>5, <2>6 DEF Bijection
<1> DEFINE place == CHOOSE f \in Places : InNumberOrder(f)
<1>4. place \in Places /\ InNumberOrder(place)
  BY <1>3
<1>5. sortedTracks = [n \in 1 .. L |-> Tracks[place[n]]]
  BY <1>1 DEF sortedTracks
<1> HIDE DEF place, Places
<1>6. /\ place \in [1 .. L -> 1 .. L]
      /\ \A i, j \in 1 .. L : place[i] = place[j] => i = j
      /\ \A i \in 1 .. L : \E n \in 1 .. L : place[n] = i
  BY <1>1, <1>4 DEF Places, Bijection, Injection, IsInjective, Surjection
<1> DEFINE g == [n \in 1 .. L |-> Tracks[place[n]].number]
<1>7. g \in [1 .. L -> 1 .. L]
  BY <1>2, <1>6
<1>8. ASSUME NEW i \in 1 .. L, NEW j \in 1 .. L, i < j PROVE g[i] < g[j]
  <2>1. g[i] <= g[j]
    <3>1. Tracks[place[i]].number <= Tracks[place[j]].number
      <4>1. i \in DOMAIN Tracks /\ j \in DOMAIN Tracks
        BY <1>1
      <4> QED BY <1>4, <1>8, <4>1 DEF InNumberOrder
    <3> QED BY <3>1
  <2>2. g[i] # g[j]
    <3>1. place[i] # place[j] /\ place[i] \in 1 .. L /\ place[j] \in 1 .. L
      <4>1. i # j
        BY <1>1, <1>8
      <4>2. place[i] \in 1 .. L /\ place[j] \in 1 .. L
        BY <1>6
      <4> QED BY <1>6, <4>1, <4>2
    <3> QED BY <1>2, <3>1
  <2>3. g[i] \in 1 .. L /\ g[j] \in 1 .. L
    BY <1>7
  <2> QED BY <2>1, <2>2, <2>3
<1>9. ASSUME NEW m \in 1 .. L PROVE \E n \in 1 .. L : g[n] = m
  <2>1. PICK i \in 1 .. L : Tracks[i].number = m
    BY <1>2
  <2>2. PICK n \in 1 .. L : place[n] = i
    BY <1>6
  <2> QED BY <2>1, <2>2
<1> HIDE DEF g
<1>10. \A n \in 1 .. L : g[n] = n
  BY <1>1, <1>7, <1>8, <1>9, InPlace
<1>11. ASSUME NEW n \in 1 .. L
       PROVE  \E i \in DOMAIN Tracks : sortedTracks[n] = Tracks[i] /\ Tracks[i].number = n
  <2>1. place[n] \in DOMAIN Tracks /\ sortedTracks[n] = Tracks[place[n]]
    BY <1>1, <1>5, <1>6
  <2>2. Tracks[place[n]].number = n
    BY <1>10 DEF g
  <2> QED BY <2>1, <2>2
<1>12. DOMAIN sortedTracks = 1 .. L
  BY <1>5
<1> QED BY <1>11, <1>12 DEF L

(* The n-th file has the title of the chapter numbered n, if there is one. *)
LEMMA TagsMatch ==
    ASSUME InOrder, NEW n \in Nat \ {0}, NEW total \in Nat
    PROVE  /\ buildTags(n, total)[3] = n /\ buildTags(n, total)[4] = total
           /\ n \in Numbers => Titled(buildTags(n, total)) = TitleOf(n)
<1>1. Len(Tracks) \in Nat /\ DOMAIN Tracks = 1 .. Len(Tracks) /\ Len(sortedTracks) = Len(Tracks)
  <2>1. DOMAIN sortedTracks = 1 .. Len(Tracks)
    BY SortedInPlace
  <2>2. \A i \in 1 .. Len(Tracks) : sortedTracks[i] \in [number : Nat \ {0}, title : Nat]
    BY TracksTyped, SortedInPlace
  <2> QED BY <2>1, TracksTyped
<1>2. CASE n > Len(Tracks)
  <2>1. n \notin Numbers
    <3>1. \A i \in DOMAIN Tracks : Tracks[i].number \in 1 .. Len(Tracks)
      BY DEF InOrder
    <3> QED BY <1>1, <1>2, <3>1 DEF ToSet, Numbers
  <2>2. buildTags(n, total) = <<"book", 0, n, total>>
    BY <1>1, <1>2 DEF buildTags
  <2> QED BY <2>1, <2>2
<1>3. CASE ~ (n > Len(Tracks))
  <2>1. n \in 1 .. Len(Tracks)
    BY <1>1, <1>3
  <2>2. PICK i \in DOMAIN Tracks : sortedTracks[n] = Tracks[i] /\ Tracks[i].number = n
    BY <2>1, SortedInPlace
  <2>3. Tracks[i] \in ToSet(Tracks) /\ \A t \in ToSet(Tracks) : t.number = n => t = Tracks[i]
    BY <2>2 DEF ToSet, InOrder
  <2>4. (CHOOSE t \in ToSet(Tracks) : t.number = n) = Tracks[i]
    BY <2>2, <2>3
  <2>5. CASE Tracks[i].title = 0
    <3>1. TitleOf(n) = <<"part", n>>
      BY <2>2, <2>3, <2>5 DEF TitleOf
    <3>2. buildTags(n, total) = <<"part", n, n, total>>
      BY <1>1, <1>3, <2>2, <2>5 DEF buildTags
    <3> QED BY <3>1, <3>2 DEF Titled
  <2>6. CASE Tracks[i].title # 0
    <3>1. TitleOf(n) = <<"chapter", Tracks[i].title>>
      BY <2>2, <2>3, <2>4, <2>6 DEF TitleOf
    <3>2. buildTags(n, total) = <<"chapter", Tracks[i].title, n, total>>
      BY <1>1, <1>3, <2>2, <2>6 DEF buildTags
    <3> QED BY <3>1, <3>2 DEF Titled
  <2> QED BY <2>5, <2>6
<1> QED BY <1>2, <1>3

-------------------------------------------------------------------------------
(* The listing.                                                            *)

(* The k-th name is that of track k.                                       *)
Story(f) ==
    /\ f # <<>> /\ Len(f) = Cardinality(Tracked)
    /\ \A k \in 1 .. Len(f) : \E i \in Tracked : Entries[i].name = f[k] /\ Entries[i].track = k

LEMMA TrackedTyped ==
    /\ IsFiniteSet(Tracked) /\ Cardinality(Tracked) \in Nat
    /\ \A i \in Tracked : /\ i \in Nat /\ i >= 1 /\ i <= Len(Entries)
                          /\ Entries[i] \in [name : Nat \ {0}, track : Nat \ {0}, mp3 : BOOLEAN]
                          /\ Entries[i].name \in Nat \ {0} /\ Entries[i].name \in Names \ {0}
                          /\ Entries[i].track \in Nat \ {0} /\ Entries[i].mp3 = TRUE
<1>1. IsFiniteSet(DOMAIN Entries) /\ DOMAIN Entries = 1 .. Len(Entries) /\ Len(Entries) \in Nat
  BY EntriesAreEntries, LenProperties, FS_Interval
<1>2. IsFiniteSet(Tracked) /\ Cardinality(Tracked) \in Nat
  BY <1>1, FS_Subset, FS_CardinalityType DEF Tracked
<1>3. ASSUME NEW i \in Tracked
      PROVE  /\ i \in Nat /\ i >= 1 /\ i <= Len(Entries)
             /\ Entries[i] \in [name : Nat \ {0}, track : Nat \ {0}, mp3 : BOOLEAN]
             /\ Entries[i].mp3 = TRUE
  <2>1. i \in 1 .. Len(Entries) /\ Entries[i].mp3
    BY <1>1 DEF Tracked
  <2>2. Entries[i] \in [name : Nat \ {0}, track : Nat \ {0}, mp3 : BOOLEAN]
    BY <2>1, EntriesAreEntries, ElementOfSeq
  <2> QED BY <1>1, <2>1, <2>2
<1> QED BY <1>2, <1>3, TrackedEntries

(* Entries of one name are one, and of one track.                          *)
LEMMA NamesTell ==
    ASSUME InOrder, NEW i \in Tracked, NEW j \in Tracked
    PROVE  /\ Entries[i].name = Entries[j].name => i = j
           /\ Entries[i].track = Entries[j].track => i = j
           /\ Entries[i].name < Entries[j].name => Entries[i].track < Entries[j].track
<1>1. /\ Entries[i].name \in Nat /\ Entries[j].name \in Nat
      /\ Entries[i].track \in Nat /\ Entries[j].track \in Nat
  BY TrackedTyped
<1>2. /\ i # j => Entries[i].track # Entries[j].track
      /\ Entries[i].name < Entries[j].name <=> Entries[i].track < Entries[j].track
      /\ Entries[j].name < Entries[i].name <=> Entries[j].track < Entries[i].track
  BY DEF InOrder
<1> QED BY <1>1, <1>2

(* What the archives held, listed in the order of names, is the story.     *)
LEMMA ListsTheStory ==
    ASSUME InOrder, NEW h \in Homes, Mp3s(h) = {Entries[i].name : i \in Tracked}, Mp3s(h) # {},
           NEW s \in listMP3s(h)
    PROVE  Story(s)
<1> DEFINE N == Cardinality(Tracked)
           names == {Entries[i].name : i \in Tracked}
           named == [i \in Tracked |-> Entries[i].name]
<1>1. N \in Nat /\ IsFiniteSet(Tracked)
  BY TrackedTyped
<1>2. named \in Bijection(Tracked, names)
  <2>1. named \in [Tracked -> names]
    OBVIOUS
  <2>2. named \in Injection(Tracked, names)
    BY <2>1, NamesTell DEF Injection, IsInjective
  <2>3. named \in Surjection(Tracked, names)
    BY <2>1 DEF Surjection
  <2> QED BY <2>2, <2>3 DEF Bijection
<1>3. Cardinality(names) = N
  <2>1. ExistsBijection(Tracked, names)
    BY <1>2 DEF ExistsBijection
  <2> HIDE DEF names
  <2> QED BY <1>1, <2>1, FS_Bijection
<1>4. /\ s \in [1 .. N -> names]
      /\ \A nm \in names : \E k \in 1 .. N : s[k] = nm
      /\ \A k, l \in 1 .. N : k < l => s[k] < s[l]
  <2>1. Mp3s(h) = names
    OBVIOUS
  <2>2. s \in [1 .. Cardinality(Mp3s(h)) -> Mp3s(h)]
    BY DEF listMP3s
  <2>3. /\ \A nm \in Mp3s(h) : \E k \in DOMAIN s : s[k] = nm
        /\ \A k, l \in DOMAIN s : k < l => s[k] < s[l]
    BY DEF listMP3s
  <2> HIDE DEF names
  <2>4. DOMAIN s = 1 .. N
    BY <1>3, <2>1, <2>2
  <2> QED BY <1>3, <2>1, <2>2, <2>3, <2>4
<1> HIDE DEF N
<1> DEFINE entry == [k \in 1 .. N |-> CHOOSE i \in Tracked : Entries[i].name = s[k]]
<1>5. \A k \in 1 .. N : entry[k] \in Tracked /\ Entries[entry[k]].name = s[k]
  <2> SUFFICES ASSUME NEW k \in 1 .. N PROVE entry[k] \in Tracked /\ Entries[entry[k]].name = s[k]
    OBVIOUS
  <2>1. \E i \in Tracked : Entries[i].name = s[k]
    BY <1>4
  <2> QED BY <2>1
<1> HIDE DEF entry
<1> DEFINE g == [k \in 1 .. N |-> Entries[entry[k]].track]
<1>6. {Entries[i].track : i \in Tracked} = 1 .. N
  BY DEF InOrder, N
<1>7. g \in [1 .. N -> 1 .. N]
  BY <1>5, <1>6
<1>8. ASSUME NEW k \in 1 .. N, NEW l \in 1 .. N, k < l PROVE g[k] < g[l]
  <2>1. Entries[entry[k]].name < Entries[entry[l]].name
    BY <1>4, <1>5, <1>8
  <2>2. Entries[entry[k]].track < Entries[entry[l]].track
    BY <1>5, <2>1, NamesTell
  <2> QED BY <2>2
<1>9. ASSUME NEW m \in 1 .. N PROVE \E k \in 1 .. N : g[k] = m
  <2>1. PICK i \in Tracked : Entries[i].track = m
    BY <1>6
  <2>2. PICK k \in 1 .. N : s[k] = Entries[i].name
    BY <1>4
  <2>3. entry[k] = i
    BY <1>5, <2>2, NamesTell
  <2> QED BY <2>1, <2>3
<1> HIDE DEF g
<1>10. \A k \in 1 .. N : g[k] = k
  BY <1>1, <1>7, <1>8, <1>9, InPlace
<1>11. \A k \in 1 .. N : Entries[entry[k]].track = k
  BY <1>10 DEF g
<1>12. Len(s) = N /\ s # <<>>
  <2>1. s \in Seq(names) /\ Len(s) = N
    <3> HIDE DEF names
    <3> QED BY <1>1, <1>4
  <2>2. N # 0
    <3> HIDE DEF names
    <3>1. IsFiniteSet(names) /\ Mp3s(h) = names
      BY <1>1, <1>2, FS_Bijection DEF ExistsBijection, names
    <3> QED BY <1>3, <3>1, FS_EmptySet DEF N
  <2>3. Len(<<>>) = 0
    BY SMT
  <2> HIDE DEF names
  <2> QED BY <2>1, <2>2, <2>3
<1> QED BY <1>5, <1>11, <1>12 DEF Story, N

-------------------------------------------------------------------------------
(* From the entry to the body.                                             *)

M4BFile     == File(0, TRUE, Untagged)
Plain(i)    == File(Entries[i].track, TRUE, Untagged)
Final(k, n) == File(k, TRUE, buildTags(k, n))

(* The entries passed are unpacked, the files passed tagged; what is ready *)
(* is the M4B or the story.                                                *)
Staged(p) ==
    /\ phase[p] \in {"mp3", "mp3 body"} =>
          \A i \in Tracked : i < pos[p] => disk[Home(p)][Entries[i].name] = Plain(i)
    /\ phase[p] = "tag" =>
          /\ Story(files[p])
          /\ \A k \in 1 .. Len(files[p]) :
                disk[Home(p)][files[p][k]] =
                   IF k < pos[p] THEN Final(k, Len(files[p])) ELSE File(k, TRUE, Untagged)
    /\ phase[p] \in {"ready", "upload"} =>
          \/ files[p] = <<0>> /\ disk[Home(p)][0] = M4BFile
          \/ /\ Story(files[p])
             /\ \A k \in 1 .. Len(files[p]) : disk[Home(p)][files[p][k]] = Final(k, Len(files[p]))

Part(f, k) == [name |-> f[k], file |-> IF f = <<0>> THEN M4BFile ELSE Final(k, Len(f))]

SentRight(p) == \A k \in 1 .. Len(sent[p]) : sent[p][k] = Part(files[p], k)

UInv == SInv /\ UploadIsWhole /\ \A p \in Procs : Staged(p) /\ SentRight(p)

(* The files of a story are all different, and none is the M4B.            *)
LEMMA StoryNames ==
    ASSUME InOrder, NEW f \in Seq(Names), Story(f)
    PROVE  /\ Len(f) \in Nat /\ Len(f) >= 1 /\ f # <<0>>
           /\ \A k \in 1 .. Len(f) : f[k] \in Names
           /\ \A k, l \in 1 .. Len(f) : f[k] = f[l] => k = l
<1>1. Len(f) \in Nat /\ \A k \in 1 .. Len(f) : f[k] \in Names
  BY LenProperties, ElementOfSeq
<1>2. Len(f) # 0
  <2> HIDE DEF Names
  <2> QED BY EmptySeq DEF Story
<1>3. ASSUME NEW k \in 1 .. Len(f), NEW l \in 1 .. Len(f), f[k] = f[l] PROVE k = l
  <2>1. PICK i \in Tracked : Entries[i].name = f[k] /\ Entries[i].track = k
    BY DEF Story
  <2>2. PICK j \in Tracked : Entries[j].name = f[l] /\ Entries[j].track = l
    BY DEF Story
  <2>3. i = j
    BY <1>3, <2>1, <2>2, NamesTell
  <2> QED BY <2>1, <2>2, <2>3
<1>4. f # <<0>>
  <2>1. f = <<0>> => Len(f) = 1 /\ f[1] = 0
    BY SMT
  <2>2. ASSUME Len(f) = 1, f[1] = 0 PROVE FALSE
    <3>1. PICK i \in Tracked : Entries[i].name = f[1]
      BY <2>2 DEF Story
    <3> QED BY <2>2, <3>1, TrackedTyped
  <2> QED BY <2>1, <2>2
<1> QED BY <1>1, <1>2, <1>3, <1>4

LEMMA StoreEffect ==
    ASSUME Types, NEW h \in Homes, NEW n \in Names, NEW f, disk' = [disk EXCEPT ![h][n] = f]
    PROVE  disk'[h][n] = f /\ \A m \in Names \ {n} : disk'[h][m] = disk[h][m]
BY DEF Types

LEMMA UnpackingStaged ==
    ASSUME NotShared, InOrder, SInv, NEW q \in Procs, Staged(q),
           Begin(q) \/ SkipEntry(q) \/ CreateEntry(q) \/ FillEntry(q)
    PROVE  Staged(q)'
<1> DEFINE h == Home(q)
<1>0. IInv /\ Types /\ Cursor(q) /\ Lies(q) /\ h \in Homes /\ pos[q] \in Nat
  BY HomeIsHome DEF SInv, IInv, Types
<1>h. Home(q)' = h
  BY <1>0, StaysHome DEF StepOf, Stage, Home
<1> HIDE DEF h
<1>1. CASE Begin(q)
  <2>1. phase'[q] \in {"m4b", "mp3"} /\ pos'[q] = 1
    BY <1>0, <1>1 DEF Types, Begin, Goto
  <2>2. \A i \in Tracked : ~(i < pos'[q])
    BY <2>1, TrackedTyped
  <2> QED BY <2>1, <2>2 DEF Staged
<1>2. CASE SkipEntry(q)
  <2>1. phase'[q] = "mp3" /\ phase[q] = "mp3" /\ pos'[q] = pos[q] + 1 /\ disk' = disk /\ pos[q] \notin Tracked
    BY <1>0, <1>2 DEF Types, SkipEntry, AtEntry, At, Entry, Tracked
  <2>2. \A i \in Tracked : i < pos[q] => disk[h][Entries[i].name] = Plain(i)
    BY <2>1 DEF Staged, h
  <2>3. ASSUME NEW i \in Tracked, i < pos'[q] PROVE i < pos[q]
    <3>1. i \in Nat /\ i # pos[q]
      BY <2>1, TrackedTyped
    <3> QED BY <1>0, <2>1, <2>3, <3>1
  <2>4. \A i \in Tracked : i < pos'[q] => disk'[h][Entries[i].name] = Plain(i)
    BY <2>1, <2>2, <2>3
  <2> QED BY <1>h, <2>1, <2>4 DEF Staged
<1>3. CASE CreateEntry(q)
  <2>1. /\ phase'[q] = "mp3 body" /\ phase[q] = "mp3" /\ pos' = pos
        /\ disk' = [disk EXCEPT ![h][Entries[pos[q]].name] = File(Entries[pos[q]].track, FALSE, Untagged)]
    BY <1>0, <1>3 DEF Types, CreateEntry, Create, Goto, Store, At, Entry, h
  <2>2. pos[q] \in Tracked
    BY <1>0, <1>3, EntriesAreEntries, LenProperties DEF CreateEntry, AtEntry, At, Cursor, Entry, Tracked
  <2> DEFINE n == Entries[pos[q]].name
  <2>3. n \in Names /\ \A i \in Tracked : Entries[i].name \in Names
    BY <2>2, TrackedTyped
  <2>4. \A m \in Names \ {n} : disk'[h][m] = disk[h][m]
    BY <1>0, <2>1, <2>3, StoreEffect
  <2>5. \A i \in Tracked : i < pos[q] => disk[h][Entries[i].name] = Plain(i)
    BY <2>1 DEF Staged, h
  <2>6. ASSUME NEW i \in Tracked, i < pos[q] PROVE disk'[h][Entries[i].name] = Plain(i)
    <3>1. i # pos[q]
      BY <2>6, TrackedTyped
    <3>2. Entries[i].name # n
      BY <2>2, <3>1, NamesTell
    <3> HIDE DEF n
    <3> QED BY <2>3, <2>4, <2>5, <2>6, <3>2
  <2> QED BY <1>h, <2>1, <2>6 DEF Staged
<1>4. CASE FillEntry(q)
  <2>1. /\ phase'[q] = "mp3" /\ phase[q] = "mp3 body" /\ pos'[q] = pos[q] + 1
        /\ Fill(q, Entries[pos[q]].name, Entries[pos[q]].track)
    BY <1>0, <1>4 DEF Types, FillEntry, Goto, At, Entry
  <2> DEFINE n == Entries[pos[q]].name
  <2>2. disk' = [disk EXCEPT ![h][n] = Plain(pos[q])]
    BY <1>0, <2>1 DEF Lies, Fill, Plain, h
  <2>3. pos[q] \in Tracked /\ n \in Names /\ \A i \in Tracked : Entries[i].name \in Names /\ i \in Nat
    BY <1>0, <2>1, TrackedTyped DEF Cursor
  <2> HIDE DEF n
  <2>4. disk'[h][n] = Plain(pos[q]) /\ \A m \in Names \ {n} : disk'[h][m] = disk[h][m]
    BY <1>0, <2>2, <2>3, StoreEffect
  <2>5. \A i \in Tracked : i < pos[q] => disk[h][Entries[i].name] = Plain(i)
    BY <2>1 DEF Staged, h
  <2>6. ASSUME NEW i \in Tracked, i < pos'[q] PROVE disk'[h][Entries[i].name] = Plain(i)
    <3>1. CASE i = pos[q]
      BY <2>4, <3>1 DEF n
    <3>2. CASE i # pos[q]
      <4>1. i < pos[q]
        <5>1. i \in Nat /\ pos[q] \in Nat /\ pos'[q] = pos[q] + 1
          BY <1>0, <2>1, <2>3
        <5> QED BY <2>6, <3>2, <5>1, SMT
      <4>2. Entries[i].name # n
        BY <2>3, <3>2, NamesTell DEF n
      <4> QED BY <2>3, <2>4, <2>5, <4>1, <4>2
    <3> QED BY <3>1, <3>2
  <2> QED BY <1>h, <2>1, <2>6 DEF Staged
<1> QED BY <1>1, <1>2, <1>3, <1>4

LEMMA ListingStaged ==
    ASSUME NotShared, InOrder, SInv, NEW q \in Procs, Staged(q), List(q)
    PROVE  Staged(q)'
<1> DEFINE h == Home(q)
<1>0. IInv /\ Types /\ Lies(q) /\ h \in Homes /\ pos[q] \in Nat
  BY HomeIsHome DEF SInv, IInv, Types
<1>h. Home(q)' = h
  BY <1>0, StaysHome DEF StepOf, Stage, Home
<1> HIDE DEF h
<1>1. PICK s \in listMP3s(h) : files' = [files EXCEPT ![q] = s]
  BY DEF List, h
<1>2. /\ phase'[q] = "tag" /\ phase[q] = "mp3" /\ files'[q] = s /\ pos'[q] = 1
      /\ disk' = disk /\ pos[q] > Len(Entries) /\ Mp3s(h) # {}
  BY <1>0, <1>1 DEF Types, List, Goto, At, h
<1>3. \A i \in Tracked : disk[h][Entries[i].name] = Plain(i)
  <2> SUFFICES ASSUME NEW i \in Tracked PROVE disk[h][Entries[i].name] = Plain(i)
    OBVIOUS
  <2>1. i < pos[q]
    <3>1. i \in Nat /\ i <= Len(Entries) /\ Len(Entries) \in Nat
      BY TrackedTyped, EntriesAreEntries, LenProperties
    <3> QED BY <1>0, <1>2, <3>1
  <2> QED BY <1>2, <2>1 DEF Staged, h
<1>4. Mp3s(h) = {Entries[i].name : i \in Tracked}
  <2>1. \A i \in Tracked : Entries[i].name \in Names \ {0} /\ disk[h][Entries[i].name] # Absent
    BY <1>3, TrackedTyped, PresentFiles DEF Plain
  <2> QED BY <2>1 DEF Mp3s, Names
<1>5. Story(s)
  BY <1>0, <1>1, <1>2, <1>4, ListsTheStory
<1>6. s \in Seq(Names)
  BY <1>0, <1>1, <1>2, ListedAreNames
<1>7. ASSUME NEW k \in 1 .. Len(s) PROVE disk[h][s[k]] = File(k, TRUE, Untagged) /\ ~ (k < 1)
  <2>1. PICK i \in Tracked : Entries[i].name = s[k] /\ Entries[i].track = k
    BY <1>5 DEF Story
  <2>2. k \in Nat /\ k >= 1
    BY <1>5, <1>6, StoryNames
  <2>3. disk[h][s[k]] = Plain(i) /\ Plain(i) = File(k, TRUE, Untagged)
    BY <1>3, <2>1 DEF Plain
  <2>4. ~ (k < 1)
    BY <2>2
  <2> QED BY <2>3, <2>4
<1> QED BY <1>h, <1>2, <1>5, <1>7 DEF Staged

LEMMA TaggingStaged ==
    ASSUME NotShared, InOrder, SInv, NEW q \in Procs, Staged(q), WriteTags(q)
    PROVE  Staged(q)'
<1> DEFINE h == Home(q)
           f == files[q]
<1>0. IInv /\ Types /\ Cursor(q) /\ h \in Homes /\ pos[q] \in Nat /\ f \in Seq(Names)
  BY HomeIsHome DEF SInv, IInv, Types
<1>h. Home(q)' = h
  BY <1>0, StaysHome DEF StepOf, Stage, Home
<1>1. /\ phase[q] = "tag" /\ files' = files
      /\ disk' = [disk EXCEPT ![h][f[pos[q]]] = Tagged(q)]
      /\ \/ pos[q] = Len(f) /\ phase'[q] = "ready"
         \/ pos[q] # Len(f) /\ pos'[q] = pos[q] + 1 /\ phase'[q] = "tag"
  BY <1>0 DEF Types, WriteTags, Goto, At, Store
<1>2. Story(f) /\ \A k \in 1 .. Len(f) :
         disk[h][f[k]] = IF k < pos[q] THEN Final(k, Len(f)) ELSE File(k, TRUE, Untagged)
  BY <1>1 DEF Staged
<1>3. pos[q] \in 1 .. Len(f)
  BY <1>0, <1>1, LenProperties DEF Cursor
<1>4. Tagged(q) = Final(pos[q], Len(f))
  <2>1. disk[h][f[pos[q]]] = File(pos[q], TRUE, Untagged)
    <3>1. ~ (pos[q] < pos[q])
      BY <1>0
    <3> HIDE DEF h, f
    <3> QED BY <1>2, <1>3, <3>1
  <2>2. Tagged(q) = File(disk[h][f[pos[q]]].track, disk[h][f[pos[q]]].whole, buildTags(pos[q], Len(f)))
    BY DEF Tagged
  <2> QED BY <2>1, <2>2 DEF File, Final
<1> HIDE DEF h, f
<1>5. /\ Len(f) \in Nat /\ \A k \in 1 .. Len(f) : f[k] \in Names
      /\ \A k, l \in 1 .. Len(f) : f[k] = f[l] => k = l
  BY <1>0, <1>2, StoryNames
<1>6. /\ disk'[h][f[pos[q]]] = Final(pos[q], Len(f))
      /\ \A m \in Names \ {f[pos[q]]} : disk'[h][m] = disk[h][m]
  <2> DEFINE n == f[pos[q]]  new == Final(pos[q], Len(f))
  <2>1. n \in Names /\ h \in Homes /\ Types
    BY <1>0, <1>3, <1>5
  <2>2. disk' = [disk EXCEPT ![h][n] = new]
    BY <1>1, <1>4
  <2> HIDE DEF n, new
  <2>3. disk'[h][n] = new /\ \A m \in Names \ {n} : disk'[h][m] = disk[h][m]
    BY <2>1, <2>2, StoreEffect
  <2> QED BY <2>3 DEF n, new
<1>7. ASSUME NEW k \in 1 .. Len(f)
      PROVE  disk'[h][f[k]] = IF k < pos[q] + 1 THEN Final(k, Len(f)) ELSE File(k, TRUE, Untagged)
  <2>1. CASE k = pos[q]
    <3>1. k < pos[q] + 1
      BY <1>0, <2>1
    <3>2. disk'[h][f[k]] = Final(k, Len(f))
      BY <1>6, <2>1
    <3> QED BY <3>1, <3>2
  <2>2. CASE k # pos[q]
    <3>1. disk'[h][f[k]] = disk[h][f[k]]
      BY <1>3, <1>5, <1>6, <2>2
    <3>2. k < pos[q] <=> k < pos[q] + 1
      BY <1>0, <1>5, <2>2
    <3> QED BY <1>2, <3>1, <3>2
  <2> QED BY <2>1, <2>2
<1>8. CASE pos[q] = Len(f) /\ phase'[q] = "ready"
  <2>1. \A k \in 1 .. Len(f) : disk'[h][f[k]] = Final(k, Len(f))
    <3> SUFFICES ASSUME NEW k \in 1 .. Len(f) PROVE disk'[h][f[k]] = Final(k, Len(f))
      OBVIOUS
    <3>1. k < pos[q] + 1
      BY <1>5, <1>8
    <3> QED BY <1>7, <3>1
  <2> QED BY <1>h, <1>1, <1>2, <1>8, <2>1 DEF Staged, f
<1>9. CASE pos'[q] = pos[q] + 1 /\ phase'[q] = "tag"
  BY <1>h, <1>1, <1>2, <1>7, <1>9 DEF Staged, f
<1> QED BY <1>1, <1>8, <1>9

LEMMA StagingStaged ==
    ASSUME NotShared, InOrder, SInv, NEW q \in Procs, Staged(q),
           Begin(q) \/ Stage(q) \/ Fail(q) \/ RemoveAll(q) \/ Exit(q) \/ Kill(q)
    PROVE  Staged(q)'
<1>0. IInv /\ Types /\ Lies(q) /\ Home(q) \in Homes
  BY HomeIsHome DEF SInv, IInv
<1>h. Home(q)' = Home(q)
  BY <1>0, StaysHome DEF StepOf, Home
<1>1. CASE Begin(q) \/ SkipEntry(q) \/ CreateEntry(q) \/ FillEntry(q)
  BY <1>1, UnpackingStaged
<1>2. CASE List(q)
  BY <1>2, ListingStaged
<1>3. CASE WriteTags(q)
  BY <1>3, TaggingStaged
<1>4. CASE Fail(q) \/ RemoveAll(q) \/ Exit(q) \/ Kill(q) \/ CreateM4B(q)
  <2>1. phase'[q] \in {"cleanup", "done", "idle", "m4b body"}
    BY <1>0, <1>4 DEF Types, Fail, RemoveAll, Exit, Kill, Ends, CreateM4B, Create, Goto
  <2> QED BY <2>1 DEF Staged
<1>5. CASE FillM4B(q)
  <2>1. phase'[q] = "ready" /\ phase[q] = "m4b body" /\ files'[q] = <<0>> /\ Fill(q, 0, 0)
    BY <1>0, <1>5 DEF Types, FillM4B, Goto, At
  <2>2. disk' = [disk EXCEPT ![Home(q)][0] = M4BFile]
    BY <1>0, <2>1 DEF Lies, Fill, M4BFile
  <2>3. disk'[Home(q)][0] = M4BFile
    <3> HIDE DEF M4BFile
    <3>1. 0 \in Names
      BY TrackedEntries
    <3> QED BY ONLY <1>0, <2>2, <3>1, StoreEffect
  <2> QED BY <1>h, <2>1, <2>3 DEF Staged
<1> QED BY <1>1, <1>2, <1>3, <1>4, <1>5 DEF Stage

LEMMA UploadStaged ==
    ASSUME SInv, NEW q \in Procs, Staged(q),
           UploadItem(q) \/ Writer(q) \/ Accept(q) \/ BodyFails(q) \/ Refuse(q)
    PROVE  Staged(q)'
<1>0. Types
  BY DEF SInv, IInv
<1>1. CASE UploadItem(q)
  <2>1. phase[q] = "ready" /\ phase'[q] = "upload" /\ UNCHANGED <<setup, files, disk>>
    BY <1>0, <1>1 DEF Types, UploadItem, Goto, At
  <2>2. Home(q)' = Home(q)
    BY <2>1 DEF Home
  <2> QED BY <2>1, <2>2 DEF Staged
<1>2. CASE Writer(q)
  <2>1. UNCHANGED <<setup, phase, pos, files, disk>>
    BY <1>2 DEF Writer, WriteFields, WriteFile, FileFails, NoMoreFiles, WriteTrailer, CloseWithError, StagedIs
  <2>2. Home(q)' = Home(q)
    BY <2>1 DEF Home
  <2> QED BY <2>1, <2>2 DEF Staged
<1>3. CASE Accept(q) \/ BodyFails(q) \/ Refuse(q)
  <2>1. phase'[q] = "cleanup"
    BY <1>0, <1>3 DEF Types, Accept, BodyFails, Refuse, Hangup, Goto
  <2> QED BY <2>1 DEF Staged
<1> QED BY <1>1, <1>2, <1>3

-------------------------------------------------------------------------------
(* The body.                                                               *)

LEMMA NothingSent ==
    ASSUME NEW p \in Procs, sent'[p] = <<>>
    PROVE  SentRight(p)'
<1>1. Len(sent'[p]) = 0
  BY SMT
<1>2. 1 .. Len(sent'[p]) = {}
  BY <1>1, SMT
<1> QED BY <1>2 DEF SentRight

LEMMA StagingSentRight ==
    ASSUME SInv, NEW q \in Procs, SentRight(q),
           Begin(q) \/ Stage(q) \/ Fail(q) \/ RemoveAll(q) \/ Exit(q) \/ Kill(q)
    PROVE  SentRight(q)'
<1>0. Types /\ Body(q)
  BY DEF SInv, IInv
<1>1. CASE Exit(q) \/ Kill(q)
  <2>1. sent'[q] = <<>>
    BY <1>0, <1>1 DEF Types, Exit, Kill, Ends
  <2> QED BY <2>1, NothingSent
<1>2. CASE RemoveAll(q)
  <2>1. UNCHANGED <<files, sent>>
    BY <1>2 DEF RemoveAll, request
  <2> QED BY <2>1 DEF SentRight
<1>3. CASE Begin(q) \/ Stage(q) \/ Fail(q)
  <2>1. phase[q] \notin {"upload", "cleanup", "done"} /\ UNCHANGED sent
    BY <1>3 DEF Begin, Stage, Fail, CreateM4B, FillM4B, SkipEntry, CreateEntry, AtEntry, Create, FillEntry,
                List, WriteTags, At, request
  <2>2. sent'[q] = <<>>
    BY <1>0, <2>1 DEF Body
  <2> QED BY <2>2, NothingSent
<1> QED BY <1>1, <1>2, <1>3

(* A part is written while its file lies on the disk as it was tagged.     *)
LEMMA WrittenIsRight ==
    ASSUME InOrder, SInv, NEW q \in Procs, Staged(q), WriteFile(q)
    PROVE  /\ writer[q].i \in 1 .. Len(files[q])
           /\ NextFile(q) = Part(files[q], writer[q].i) /\ NextFile(q) \in SentSet
           /\ sent'[q] = Append(sent[q], NextFile(q)) /\ Len(sent[q]) = writer[q].i - 1
           /\ files' = files
<1> DEFINE f == files[q]  k == writer[q].i
<1>0. Types /\ Cursor(q) /\ Body(q) /\ SentWhole(q)
  BY DEF SInv, IInv
<1>1. /\ writer[q].at = "files" /\ k <= Len(f) /\ ~ Broken(q) /\ files' = files
  BY Zenon DEF WriteFile, StagedIs
<1>2. phase[q] = "upload"
  BY <1>0, <1>1 DEF Body, SentWhole, Broken
<1>3. k \in Nat /\ k # 0 /\ Len(f) \in Nat /\ f \in Seq(Names)
  BY <1>0, <1>1, LenProperties DEF Types, Cursor
<1>4. k \in 1 .. Len(f)
  BY <1>1, <1>3
<1>5. f[k] \in Names
  BY <1>3, <1>4, ElementOfSeq
<1>6. NextFile(q) \in SentSet
  <2> HIDE DEF Names, FileSet
  <2> QED BY <1>0, <1>5, HomeIsHome DEF NextFile, SentSet, Types
<1>7. sent'[q] = Append(sent[q], NextFile(q)) /\ Len(sent[q]) = k - 1
  BY <1>0, <1>1 DEF Types, WriteFile, Body
<1>8. disk[Home(q)][f[k]] = IF f = <<0>> THEN M4BFile ELSE Final(k, Len(f))
  <2>1. CASE f = <<0>> /\ disk[Home(q)][0] = M4BFile
    <3>1. Len(f) = 1 /\ f[1] = 0
      BY <2>1, SMT
    <3>2. k = 1
      BY <1>3, <1>4, <3>1
    <3> QED BY <2>1, <3>1, <3>2
  <2>2. CASE Story(f) /\ \A l \in 1 .. Len(f) : disk[Home(q)][f[l]] = Final(l, Len(f))
    <3>1. f # <<0>>
      BY <1>3, <2>2, StoryNames
    <3> QED BY <1>4, <2>2, <3>1
  <2> QED BY <1>2, <2>1, <2>2 DEF Staged
<1>9. NextFile(q) = Part(f, k)
  BY <1>8 DEF NextFile, Part
<1> QED BY <1>1, <1>4, <1>6, <1>7, <1>9

LEMMA UploadSentRight ==
    ASSUME InOrder, SInv, NEW q \in Procs, Staged(q), SentRight(q),
           UploadItem(q) \/ Writer(q) \/ Accept(q) \/ BodyFails(q) \/ Refuse(q)
    PROVE  SentRight(q)'
<1>0. Types
  BY DEF SInv, IInv
<1>1. CASE ~ WriteFile(q)
  <2>1. UNCHANGED <<files, sent>>
    BY <1>1 DEF UploadItem, Accept, BodyFails, Refuse, Writer, WriteFields, FileFails, NoMoreFiles,
                WriteTrailer, CloseWithError, StagedIs
  <2> QED BY <2>1 DEF SentRight
<1>2. CASE WriteFile(q)
  <2>1. /\ NextFile(q) = Part(files[q], writer[q].i) /\ NextFile(q) \in SentSet
        /\ sent'[q] = Append(sent[q], NextFile(q)) /\ Len(sent[q]) = writer[q].i - 1
        /\ writer[q].i \in 1 .. Len(files[q]) /\ files' = files
    BY <1>2, WrittenIsRight
  <2>2. sent[q] \in Seq(SentSet) /\ Len(sent[q]) \in Nat /\ writer[q].i \in Nat
    BY <1>0, LenProperties DEF Types
  <2> DEFINE k == writer[q].i
  <2>3. /\ Len(sent'[q]) = k
        /\ \A l \in 1 .. Len(sent[q]) : sent'[q][l] = sent[q][l]
        /\ sent'[q][k] = NextFile(q)
    <3>1. /\ Len(sent'[q]) = Len(sent[q]) + 1
          /\ \A l \in 1 .. Len(sent[q]) : sent'[q][l] = sent[q][l]
          /\ sent'[q][Len(sent[q]) + 1] = NextFile(q)
      <4> HIDE DEF SentSet, NextFile
      <4> QED BY <2>1, <2>2, AppendProperties
    <3>2. Len(sent[q]) + 1 = k
      BY <2>1, <2>2
    <3> QED BY <3>1, <3>2
  <2>4. ASSUME NEW l \in 1 .. Len(sent'[q]) PROVE sent'[q][l] = Part(files'[q], l)
    <3>1. l \in 1 .. Len(sent[q]) \/ l = k
      BY <2>1, <2>2, <2>3
    <3>2. CASE l \in 1 .. Len(sent[q])
      BY <2>1, <2>3, <3>2 DEF SentRight
    <3>3. CASE l = k
      BY <2>1, <2>3, <3>3
    <3> QED BY <3>1, <3>2, <3>3
  <2> QED BY <2>4 DEF SentRight
<1> QED BY <1>1, <1>2

LEMMA OthersStay ==
    ASSUME NotShared, SInv, NEW q \in Procs, StepOf(q), NEW p \in Procs \ {q}, Staged(p), SentRight(p)
    PROVE  Staged(p)' /\ SentRight(p)'
<1>0. IInv /\ Types /\ Home(p) \in Homes
  BY HomeIsHome DEF SInv, IInv
<1>1. phase'[p] = phase[p] /\ pos'[p] = pos[p] /\ files'[p] = files[p] /\ sent'[p] = sent[p]
  BY <1>0, StagingMoves, UploadMoves DEF StepOf, OnlyMoves
<1>2. SentRight(p)'
  BY <1>1 DEF SentRight
<1>3. CASE phase[p] = "idle"
  BY <1>1, <1>2, <1>3 DEF Staged
<1>4. CASE phase[p] # "idle"
  <2>1. Home(p) # Home(q)
    BY <1>4, Apart
  <2>2. setup' = setup /\ disk'[Home(p)] = disk[Home(p)]
    BY <1>0, <2>1, StaysHome
  <2>3. Home(p)' = Home(p)
    BY <2>2 DEF Home
  <2>4. Staged(p)'
    BY <1>1, <2>2, <2>3 DEF Staged
  <2> QED BY <1>2, <2>4
<1> QED BY <1>3, <1>4

-------------------------------------------------------------------------------
(* What is accepted.                                                       *)

LEMMA AcceptedIsWhole ==
    ASSUME InOrder, UInv, NEW q \in Procs, Accept(q)
    PROVE  sent[q] = TheM4B \/ TheMP3s(sent[q])
<1> DEFINE f == files[q]  u == sent[q]
<1>0. Types /\ Body(q) /\ Staged(q) /\ SentRight(q)
  BY DEF UInv, SInv, IInv
<1>1. phase[q] = "upload" /\ pipe[q] = "eof"
  BY DEF Accept, At
<1>2. writer[q].at = "gone" /\ writer[q].firstErr = "nil"
  BY <1>0, <1>1 DEF Body
<1>3. /\ f \in Seq(Names) /\ u \in Seq(SentSet)
      /\ Len(u) = Len(f) /\ DOMAIN u = 1 .. Len(f) /\ Len(f) \in Nat
  BY <1>0, <1>2, LenProperties DEF Types, Body
<1>4. \A k \in 1 .. Len(f) : u[k] = Part(f, k)
  BY <1>0, <1>3 DEF SentRight
<1>5. CASE f = <<0>>
  <2>1. Len(f) = 1 /\ f[1] = 0
    BY <1>5, SMT
  <2>2. u[1] = [name |-> 0, file |-> M4BFile]
    BY <1>4, <1>5, <2>1 DEF Part
  <2> DEFINE one == [name |-> 0, file |-> M4BFile]
  <2>3. one \in SentSet /\ Len(u) = 1
    <3> HIDE DEF SentSet, one
    <3>1. 1 \in 1 .. Len(u)
      BY <1>3, <2>1
    <3> QED BY <1>3, <2>1, <2>2, <3>1, ElementOfSeq DEF one
  <2>4. <<one>> \in Seq(SentSet) /\ Len(<<one>>) = 1 /\ <<one>>[1] = one
    <3> HIDE DEF SentSet, one
    <3> QED BY <2>3, SMT
  <2>5. u = <<one>>
    <3> HIDE DEF SentSet, one, u
    <3>1. \A k \in 1 .. Len(u) : u[k] = <<one>>[k]
      <4>1. \A k \in 1 .. Len(u) : k = 1
        BY <2>3
      <4> QED BY <2>2, <2>4, <4>1 DEF one
    <3> QED BY <1>3, <2>3, <2>4, <3>1, SeqEqual
  <2> QED BY <2>5 DEF TheM4B, M4BFile
<1>6. CASE f # <<0>>
  <2>1. Story(f)
    BY <1>0, <1>1, <1>6 DEF Staged
  <2>2. ASSUME NEW k \in 1 .. Len(f) PROVE u[k].name = f[k] /\ u[k].file = Final(k, Len(f))
    <3> HIDE DEF f, u
    <3>1. u[k] = [name |-> f[k], file |-> Final(k, Len(f))]
      BY <1>4, <1>6 DEF Part
    <3> QED BY ONLY <3>1
  <2>3. ASSUME NEW k \in 1 .. Len(f)
        PROVE  /\ u[k].file.track = k /\ u[k].file.whole
               /\ u[k].file.tag[3] = k /\ u[k].file.tag[4] = Len(f)
               /\ k \in Numbers => Titled(u[k].file.tag) = TitleOf(k)
    <3>1. k \in Nat \ {0}
      BY <1>3
    <3> DEFINE tag == buildTags(k, Len(f))
    <3>2. tag[3] = k /\ tag[4] = Len(f) /\ (k \in Numbers => Titled(tag) = TitleOf(k))
      BY <1>3, <3>1, TagsMatch
    <3>3. u[k].file = File(k, TRUE, tag)
      BY <2>2 DEF Final
    <3> HIDE DEF tag, u, f
    <3>4. u[k].file.track = k /\ u[k].file.whole = TRUE /\ u[k].file.tag = tag
      BY <3>3 DEF File
    <3> QED BY ONLY <3>2, <3>4
  <2>4. ASSUME NEW k \in 1 .. Len(f)
        PROVE  [name |-> u[k].name, track |-> k, mp3 |-> TRUE] \in ToSet(Entries)
    <3>1. PICK i \in Tracked : Entries[i].name = f[k] /\ Entries[i].track = k
      BY <2>1 DEF Story
    <3>2. u[k].name = f[k]
      BY <2>2
    <3>3. Entries[i] \in [name : Nat \ {0}, track : Nat \ {0}, mp3 : BOOLEAN] /\ Entries[i].mp3 = TRUE
      BY TrackedTyped
    <3>4. Entries[i] = [name |-> f[k], track |-> k, mp3 |-> TRUE]
      BY <3>1, <3>3
    <3>5. Entries[i] \in ToSet(Entries)
      BY DEF Tracked, ToSet
    <3> QED BY <3>2, <3>4, <3>5
  <2>5. Len(f) = Cardinality(Tracked) /\ {Entries[i].track : i \in Tracked} = 1 .. Len(f)
    BY <2>1 DEF Story, InOrder
  <2>6. {u[k].file.track : k \in 1 .. Len(f)} = 1 .. Len(f)
    BY <2>3
  <2> QED BY <1>3, <2>3, <2>4, <2>5, <2>6 DEF TheMP3s
<1> QED BY <1>5, <1>6

LEMMA UploadsStep ==
    ASSUME InOrder, UInv, NEW q \in Procs, StepOf(q)
    PROVE  UploadIsWhole'
<1>1. CASE Accept(q)
  <2>1. uploads' = uploads \union {sent[q]}
    BY <1>1 DEF Accept
  <2> QED BY <1>1, <2>1, AcceptedIsWhole DEF UInv, UploadIsWhole
<1>2. CASE ~ Accept(q)
  <2>1. uploads' = uploads
    <3>1. CASE Writer(q)
      BY <3>1 DEF Writer, WriteFields, WriteFile, FileFails, NoMoreFiles, WriteTrailer, CloseWithError, StagedIs
    <3>2. CASE UploadItem(q) \/ BodyFails(q) \/ Refuse(q)
      BY <3>2 DEF UploadItem, BodyFails, Refuse
    <3> QED BY <1>2, <3>1, <3>2, StagingSent DEF StepOf, UInv
  <2> QED BY <2>1 DEF UInv, UploadIsWhole
<1> QED BY <1>1, <1>2

LEMMA InitUInv == Init => UInv
<1> SUFFICES ASSUME Init PROVE UInv
  OBVIOUS
<1>1. UploadIsWhole
  BY DEF Init, UploadIsWhole
<1>2. ASSUME NEW p \in Procs PROVE Staged(p) /\ SentRight(p)
  <2>1. phase[p] = "idle" /\ sent[p] = <<>>
    BY DEF Init
  <2>2. 1 .. Len(sent[p]) = {}
    <3>1. Len(sent[p]) = 0
      BY <2>1, SMT
    <3> QED BY <3>1, SMT
  <2> QED BY <2>1, <2>2 DEF Staged, SentRight
<1> QED BY <1>1, <1>2, InitSInv DEF UInv

LEMMA NextUInv ==
    ASSUME NotShared, InOrder PROVE UInv /\ [Next]_vars => UInv'
<1> SUFFICES ASSUME UInv, [Next]_vars PROVE UInv'
  OBVIOUS
<1>0. SInv /\ SInv'
  BY NextSInv DEF UInv
<1>1. ASSUME NEW q \in Procs, StepOf(q) PROVE UInv'
  <2>1. Staged(q)' /\ SentRight(q)'
    BY <1>0, <1>1, StagingStaged, UploadStaged, StagingSentRight, UploadSentRight DEF StepOf, UInv
  <2>2. \A p \in Procs \ {q} : Staged(p)' /\ SentRight(p)'
    BY <1>0, <1>1, OthersStay DEF UInv
  <2> QED BY <1>0, <1>1, <2>1, <2>2, UploadsStep DEF UInv
<1>2. CASE Package \/ UNCHANGED vars
  <2>1. UNCHANGED <<setup, phase, pos, files, disk, sent, uploads>>
    BY <1>2 DEF Package, vars, request
  <2>2. UploadIsWhole'
    BY <2>1 DEF UInv, UploadIsWhole
  <2>3. ASSUME NEW p \in Procs PROVE Staged(p)' /\ SentRight(p)'
    <3>1. Home(p)' = Home(p)
      BY <2>1 DEF Home
    <3>2. Staged(p) /\ SentRight(p)
      BY DEF UInv
    <3> QED BY <2>1, <3>1, <3>2 DEF Staged, SentRight
  <2> QED BY <1>0, <2>2, <2>3 DEF UInv
<1> QED BY <1>1, <1>2 DEF Next, StepOf

(* UploadIsWhole, for however many runs, archives and tracks: whatever     *)
(* died before it and whatever it left, an upload audiobookshelf accepts   *)
(* is the M4B or all the tracks, each complete, in the order of the story  *)
(* and under its own chapter's title.                                      *)
THEOREM TheUploadIsWhole ==
    ASSUME NotShared, InOrder PROVE Spec => []UploadIsWhole
<1>1. UInv => UploadIsWhole
  BY DEF UInv
<1> QED BY <1>1, InitUInv, NextUInv, PTL DEF Spec

===============================================================================
