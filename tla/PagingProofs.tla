----------------------------- MODULE PagingProofs -----------------------------
(***************************************************************************)
(* What a finished listing is worth, for shelves and pages of any size and *)
(* any number of additions during the listing.                             *)
(***************************************************************************)
EXTENDS Paging, Integers, FiniteSetTheorems, SequenceTheorems, TLAPS

(* Everything that was on the shelf at the start has been listed or lies   *)
(* on a page still to come; only a removal can move it past the reader.    *)
Ahead(t) == \E j \in DOMAIN shelf : j > Offset /\ shelf[j] = t

NothingSkipped ==
    left = {} =>
        \A k \in DOMAIN first :
            /\ phase = "get" => first[k] \in Elements(all) \/ Ahead(first[k])
            /\ phase = "done" => first[k] \in Elements(all)

(* listAllItems compares what it has with the total: that is right because *)
(* it turns no page that was not full.                                     *)
FullPages == api = "abs" /\ phase = "get" => Len(all) = Offset

IInv == TypeOK /\ FullPages /\ NothingSkipped

-------------------------------------------------------------------------------
LEMMA CeilDiv ==
    ASSUME NEW L \in Nat, NEW P \in Nat \ {0}, NEW n \in Nat,
           n >= (L + P - 1) \div P
    PROVE  n * P >= L
<1> DEFINE q == (L + P - 1) \div P
<1>1. q \in Int /\ P * q <= L + P - 1 /\ L + P - 1 < P * q + P
  BY Z3
<1>2. n * P >= P * q
  BY <1>1, Z3
<1> QED BY <1>1, <1>2, Z3

LEMMA PartLength ==
    ASSUME NEW n \in Nat, NEW i \in Nat, i <= n
    PROVE  (IF i + 1 <= n THEN n - (i + 1) + 1 ELSE 0) = n - i
BY Z3

LEMMA OffsetNat == ASSUME TypeOK PROVE Offset \in Nat /\ (page + 1) * PageSize = Offset + PageSize
BY PageSizePositive, Z3 DEF TypeOK, Offset

(* A part of a sequence, also one that begins or ends outside of it.       *)
LEMMA PartOf ==
    ASSUME NEW S, NEW s \in Seq(S), NEW m \in Nat, NEW n \in Nat, m >= 1, n <= Len(s)
    PROVE  /\ SubSeq(s, m, n) \in Seq(S)
           /\ Len(SubSeq(s, m, n)) = IF m <= n THEN n - m + 1 ELSE 0
           /\ \A i \in 1 .. Len(SubSeq(s, m, n)) : SubSeq(s, m, n)[i] = s[m + i - 1]
<1>1. \A i \in m .. n : s[i] \in S
  BY LenProperties, ElementOfSeq
<1> QED BY <1>1, SubSeqProperties, LenProperties

LEMMA ElementsOfConcat ==
    ASSUME NEW S, NEW s \in Seq(S), NEW t \in Seq(S)
    PROVE  /\ s \o t \in Seq(S)
           /\ Len(s \o t) = Len(s) + Len(t)
           /\ \A i \in DOMAIN s : s[i] \in Elements(s \o t)
           /\ \A i \in DOMAIN t : t[i] \in Elements(s \o t)
<1>1. /\ s \o t \in Seq(S)
      /\ Len(s \o t) = Len(s) + Len(t)
      /\ \A i \in 1 .. Len(s) + Len(t) : (s \o t)[i] = IF i <= Len(s) THEN s[i] ELSE t[i - Len(s)]
  BY ConcatProperties
<1>2. /\ Len(s) \in Nat /\ DOMAIN s = 1 .. Len(s)
      /\ Len(t) \in Nat /\ DOMAIN t = 1 .. Len(t)
      /\ DOMAIN (s \o t) = 1 .. Len(s) + Len(t)
  BY <1>1, LenProperties
<1>3. ASSUME NEW i \in DOMAIN s PROVE s[i] \in Elements(s \o t)
  <2>1. i \in DOMAIN (s \o t) /\ (s \o t)[i] = s[i]
    BY <1>1, <1>2
  <2> QED BY <2>1 DEF Elements
<1>4. ASSUME NEW i \in DOMAIN t PROVE t[i] \in Elements(s \o t)
  <2>1. Len(s) + i \in DOMAIN (s \o t) /\ (s \o t)[Len(s) + i] = t[i]
    BY <1>1, <1>2
  <2> QED BY <2>1 DEF Elements
<1> QED BY <1>1, <1>3, <1>4

LEMMA SliceFacts ==
    ASSUME TypeOK
    PROVE  /\ Slice \in Seq(Things)
           /\ Len(Slice) \in Nat
           /\ Len(Slice) <= PageSize
           /\ Len(Slice) = IF Offset + PageSize <= Len(shelf) THEN PageSize
                           ELSE IF Offset <= Len(shelf) THEN Len(shelf) - Offset ELSE 0
           /\ \A i \in 1 .. Len(Slice) : Slice[i] = shelf[Offset + i]
<1> DEFINE end == IF Offset + PageSize <= Len(shelf) THEN Offset + PageSize ELSE Len(shelf)
<1>1. shelf \in Seq(Things) /\ Len(shelf) \in Nat /\ Offset \in Nat /\ PageSize \in Nat /\ PageSize > 0
  BY OffsetNat, LenProperties, PageSizePositive DEF TypeOK
<1>2. end \in Nat /\ end <= Len(shelf) /\ Offset + 1 \in Nat /\ Offset + 1 >= 1
  BY <1>1
<1>3. Slice = SubSeq(shelf, Offset + 1, end)
  BY DEF Slice
<1> HIDE DEF end
<1>4. /\ Slice \in Seq(Things)
      /\ Len(Slice) = IF Offset + 1 <= end THEN end - (Offset + 1) + 1 ELSE 0
      /\ \A i \in 1 .. Len(Slice) : Slice[i] = shelf[Offset + 1 + i - 1]
  BY <1>1, <1>2, <1>3, PartOf
<1>5. \A i \in 1 .. Len(Slice) : Slice[i] = shelf[Offset + i]
  BY <1>1, <1>4, LenProperties
<1> QED BY <1>1, <1>4, <1>5 DEF end

-------------------------------------------------------------------------------
(* The shelf, one thing more or one less.                                  *)

LEMMA Inserted ==
    ASSUME TypeOK, NEW t \in Things, NEW i \in 0 .. Len(shelf), Arrive(t, i)
    PROVE  /\ shelf' \in Seq(Things)
           /\ DOMAIN shelf = 1 .. Len(shelf) /\ DOMAIN shelf' = 1 .. Len(shelf) + 1
           /\ \A k \in DOMAIN shelf' :
                 shelf'[k] = IF k <= i THEN shelf[k] ELSE IF k = i + 1 THEN t ELSE shelf[k - 1]
<1> DEFINE before == SubSeq(shelf, 1, i)
           after  == SubSeq(shelf, i + 1, Len(shelf))
           one    == <<t>>
<1>1. shelf \in Seq(Things) /\ Len(shelf) \in Nat /\ DOMAIN shelf = 1 .. Len(shelf) /\ i \in Nat /\ i <= Len(shelf)
  BY LenProperties DEF TypeOK
<1>2. /\ before \in Seq(Things) /\ Len(before) = i
      /\ \A k \in 1 .. i : before[k] = shelf[k]
  BY <1>1, PartOf
<1>3. /\ after \in Seq(Things) /\ Len(after) = Len(shelf) - i
      /\ \A k \in 1 .. Len(shelf) - i : after[k] = shelf[i + k]
  <2>1. /\ after \in Seq(Things)
        /\ Len(after) = IF i + 1 <= Len(shelf) THEN Len(shelf) - (i + 1) + 1 ELSE 0
        /\ \A k \in 1 .. Len(after) : after[k] = shelf[(i + 1) + k - 1]
    BY <1>1, PartOf
  <2> HIDE DEF after
  <2>2. Len(after) = Len(shelf) - i
    BY <1>1, <2>1, PartLength
  <2>3. ASSUME NEW k \in 1 .. Len(shelf) - i PROVE after[k] = shelf[i + k]
    <3>1. k \in Int /\ (i + 1) + k - 1 = i + k
      BY <1>1
    <3> QED BY <2>1, <2>2, <3>1
  <2> QED BY <2>1, <2>2, <2>3
<1>4. one \in Seq(Things) /\ Len(one) = 1 /\ one[1] = t
  OBVIOUS
<1>5. shelf' = before \o one \o after
  BY DEF Arrive
<1> HIDE DEF before, after, one
<1>6. /\ before \o one \in Seq(Things) /\ Len(before \o one) = i + 1
      /\ \A k \in 1 .. i : (before \o one)[k] = before[k]
      /\ (before \o one)[i + 1] = t
  <2>1. /\ before \o one \in Seq(Things) /\ Len(before \o one) = Len(before) + Len(one)
        /\ \A k \in 1 .. Len(before) + Len(one) :
              (before \o one)[k] = IF k <= Len(before) THEN before[k] ELSE one[k - Len(before)]
    BY <1>2, <1>4, ConcatProperties
  <2>2. i + 1 \in 1 .. Len(before) + Len(one) /\ ~ (i + 1 <= Len(before)) /\ i + 1 - Len(before) = 1
    BY <1>1, <1>2, <1>4
  <2>3. (before \o one)[i + 1] = t
    BY <1>4, <2>1, <2>2
  <2>4. \A k \in 1 .. i : (before \o one)[k] = before[k]
    BY <1>1, <1>2, <1>4, <2>1
  <2> QED BY <1>2, <1>4, <2>1, <2>3, <2>4
<1>7. /\ shelf' \in Seq(Things) /\ Len(shelf') = Len(shelf) + 1
      /\ \A k \in 1 .. Len(shelf) + 1 :
            shelf'[k] = IF k <= i + 1 THEN (before \o one)[k] ELSE after[k - (i + 1)]
  <2>1. /\ shelf' \in Seq(Things) /\ Len(shelf') = Len(before \o one) + Len(after)
        /\ \A k \in 1 .. Len(before \o one) + Len(after) :
              shelf'[k] = IF k <= Len(before \o one) THEN (before \o one)[k] ELSE after[k - Len(before \o one)]
    <3> DEFINE head == before \o one
    <3>1. head \in Seq(Things) /\ shelf' = head \o after
      BY <1>5, <1>6
    <3> HIDE DEF head
    <3>2. /\ head \o after \in Seq(Things) /\ Len(head \o after) = Len(head) + Len(after)
          /\ \A k \in 1 .. Len(head) + Len(after) :
                (head \o after)[k] = IF k <= Len(head) THEN head[k] ELSE after[k - Len(head)]
      BY <1>3, <3>1, ConcatProperties
    <3> QED BY <3>1, <3>2 DEF head
  <2>2. Len(before \o one) + Len(after) = Len(shelf) + 1
    BY <1>1, <1>3, <1>6
  <2> QED BY <1>6, <2>1, <2>2
<1>8. DOMAIN shelf' = 1 .. Len(shelf) + 1
  BY <1>7, LenProperties
<1>9. ASSUME NEW k \in DOMAIN shelf'
      PROVE  shelf'[k] = IF k <= i THEN shelf[k] ELSE IF k = i + 1 THEN t ELSE shelf[k - 1]
  <2>1. k \in 1 .. Len(shelf) + 1 /\ k \in Int
    BY <1>8
  <2>2. CASE k <= i
    BY <1>1, <1>2, <1>6, <1>7, <2>1, <2>2
  <2>3. CASE k = i + 1
    <3>1. i + 1 \in 1 .. Len(shelf) + 1 /\ i + 1 <= i + 1 /\ ~ (i + 1 <= i)
      BY <1>1
    <3>2. shelf'[i + 1] = t
      BY <1>6, <1>7, <3>1
    <3> QED BY <2>3, <3>1, <3>2
  <2>4. CASE k > i + 1
    <3>1. k - (i + 1) \in 1 .. Len(shelf) - i /\ i + (k - (i + 1)) = k - 1
      BY <1>1, <2>1, <2>4
    <3>2. after[k - (i + 1)] = shelf[k - 1]
      BY <1>3, <3>1
    <3> QED BY <1>1, <1>7, <2>1, <2>4, <3>2
  <2> QED BY <1>1, <2>1, <2>2, <2>3, <2>4
<1> QED BY <1>1, <1>7, <1>8, <1>9

(* Nothing comes closer to the front by an arrival.                        *)
LEMMA InsertedBehind ==
    ASSUME TypeOK, NEW t \in Things, NEW i \in 0 .. Len(shelf), Arrive(t, i), NEW j \in DOMAIN shelf
    PROVE  \E k \in DOMAIN shelf' : k >= j /\ shelf'[k] = shelf[j]
<1>1. Len(shelf) \in Nat /\ i \in Nat /\ i <= Len(shelf) /\ j \in 1 .. Len(shelf)
  BY LenProperties DEF TypeOK
<1>2. CASE j <= i
  <2>1. j \in DOMAIN shelf' /\ shelf'[j] = shelf[j] /\ j >= j
    BY <1>1, <1>2, Inserted
  <2> QED BY <2>1
<1>3. CASE j > i
  <2> DEFINE k == j + 1
  <2>1. k \in 1 .. Len(shelf) + 1 /\ ~ (k <= i) /\ k # i + 1 /\ k - 1 = j /\ k >= j
    BY <1>1, <1>3
  <2> HIDE DEF k
  <2>2. k \in DOMAIN shelf' /\ shelf'[k] = shelf[j]
    BY <2>1, Inserted
  <2> QED BY <2>1, <2>2
<1> QED BY <1>1, <1>2, <1>3

LEMMA Taken ==
    ASSUME TypeOK, NEW i \in DOMAIN shelf, Remove(i)
    PROVE  /\ shelf' \in Seq(Things) /\ shelf[i] \in Things
           /\ DOMAIN shelf = 1 .. Len(shelf) /\ DOMAIN shelf' = 1 .. Len(shelf) - 1
           /\ \A k \in DOMAIN shelf' : shelf'[k] = IF k < i THEN shelf[k] ELSE shelf[k + 1]
<1> DEFINE before == SubSeq(shelf, 1, i - 1)
           after  == SubSeq(shelf, i + 1, Len(shelf))
<1>1. shelf \in Seq(Things) /\ Len(shelf) \in Nat /\ DOMAIN shelf = 1 .. Len(shelf) /\ i \in 1 .. Len(shelf)
  BY LenProperties DEF TypeOK
<1>2. /\ before \in Seq(Things) /\ Len(before) = i - 1
      /\ \A k \in 1 .. i - 1 : before[k] = shelf[k]
  BY <1>1, PartOf
<1>3. /\ after \in Seq(Things) /\ Len(after) = Len(shelf) - i
      /\ \A k \in 1 .. Len(shelf) - i : after[k] = shelf[i + k]
  <2>1. /\ after \in Seq(Things)
        /\ Len(after) = IF i + 1 <= Len(shelf) THEN Len(shelf) - (i + 1) + 1 ELSE 0
        /\ \A k \in 1 .. Len(after) : after[k] = shelf[(i + 1) + k - 1]
    BY <1>1, PartOf
  <2> HIDE DEF after
  <2>2. Len(after) = Len(shelf) - i
    BY <1>1, <2>1, PartLength
  <2>3. ASSUME NEW k \in 1 .. Len(shelf) - i PROVE after[k] = shelf[i + k]
    <3>1. k \in Int /\ (i + 1) + k - 1 = i + k
      BY <1>1
    <3> QED BY <2>1, <2>2, <3>1
  <2> QED BY <2>1, <2>2, <2>3
<1>4. shelf' = before \o after
  BY DEF Remove
<1> HIDE DEF before, after
<1>5. /\ shelf' \in Seq(Things) /\ Len(shelf') = Len(shelf) - 1
      /\ \A k \in 1 .. Len(shelf) - 1 :
            shelf'[k] = IF k <= i - 1 THEN before[k] ELSE after[k - (i - 1)]
  <2>1. /\ before \o after \in Seq(Things) /\ Len(before \o after) = Len(before) + Len(after)
        /\ \A k \in 1 .. Len(before) + Len(after) :
              (before \o after)[k] = IF k <= Len(before) THEN before[k] ELSE after[k - Len(before)]
    BY <1>2, <1>3, ConcatProperties
  <2>2. Len(before) + Len(after) = Len(shelf) - 1
    BY <1>1, <1>2, <1>3
  <2> QED BY <1>2, <1>4, <2>1, <2>2
<1>6. DOMAIN shelf' = 1 .. Len(shelf) - 1
  BY <1>5, LenProperties
<1>7. ASSUME NEW k \in DOMAIN shelf' PROVE shelf'[k] = IF k < i THEN shelf[k] ELSE shelf[k + 1]
  <2>1. k \in 1 .. Len(shelf) - 1 /\ k \in Int
    BY <1>1, <1>6
  <2>2. CASE k < i
    BY <1>1, <1>2, <1>5, <2>1, <2>2
  <2>3. CASE ~ (k < i)
    <3>1. k - (i - 1) \in 1 .. Len(shelf) - i /\ i + (k - (i - 1)) = k + 1 /\ ~ (k <= i - 1)
      BY <1>1, <2>1, <2>3
    <3>2. after[k - (i - 1)] = shelf[k + 1]
      BY <1>3, <3>1
    <3> QED BY <1>5, <2>1, <2>3, <3>1, <3>2
  <2> QED BY <2>2, <2>3
<1> QED BY <1>1, <1>5, <1>6, <1>7, ElementOfSeq

-------------------------------------------------------------------------------
(* The pages.                                                              *)

(* Whatever the slice did not reach lies behind the next page's offset.    *)
LEMMA GetPageReads ==
    ASSUME IInv, GetPage, NEW t
    PROVE  /\ all' \in Seq(Things)
           /\ t \in Elements(all) => t \in Elements(all')
           /\ Ahead(t) => \/ t \in Elements(all')
                          \/ \E j \in DOMAIN shelf : j > Offset + PageSize /\ shelf[j] = t
<1>1. /\ shelf \in Seq(Things) /\ Len(shelf) \in Nat /\ DOMAIN shelf = 1 .. Len(shelf)
      /\ all \in Seq(Things) /\ Offset \in Nat /\ PageSize \in Nat /\ TypeOK
  BY OffsetNat, LenProperties, PageSizePositive DEF IInv, TypeOK
<1>2. all' = all \o Slice
  BY DEF GetPage
<1>3. /\ all' \in Seq(Things)
      /\ \A i \in DOMAIN all : all[i] \in Elements(all')
      /\ \A i \in DOMAIN Slice : Slice[i] \in Elements(all')
  BY <1>1, <1>2, SliceFacts, ElementsOfConcat
<1>4. ASSUME Ahead(t)
      PROVE  \/ t \in Elements(all')
             \/ \E j \in DOMAIN shelf : j > Offset + PageSize /\ shelf[j] = t
  <2>1. PICK j \in DOMAIN shelf : j > Offset /\ shelf[j] = t
    BY <1>4 DEF Ahead
  <2>2. CASE j <= Offset + PageSize
    <3>1. Len(Slice) = IF Offset + PageSize <= Len(shelf) THEN PageSize
                       ELSE IF Offset <= Len(shelf) THEN Len(shelf) - Offset ELSE 0
      BY <1>1, SliceFacts
    <3>2. j - Offset \in 1 .. Len(Slice) /\ Offset + (j - Offset) = j
      <4> DEFINE n == Len(shelf)
      <4>1. n \in Nat /\ j \in 1 .. n /\ j > Offset /\ Offset <= n
        BY <1>1, <2>1
      <4> HIDE DEF n
      <4>2. j - Offset >= 1 /\ j - Offset <= PageSize /\ j - Offset <= n - Offset /\ j - Offset \in Int
            /\ Offset + (j - Offset) = j
        BY <1>1, <2>2, <4>1
      <4>3. Len(Slice) = PageSize \/ Len(Slice) = n - Offset
        BY <3>1, <4>1 DEF n
      <4>4. n - Offset \in Int /\ PageSize \in Int
        BY <1>1, <4>1
      <4> QED BY <4>2, <4>3, <4>4
    <3>3. Slice[j - Offset] = t /\ j - Offset \in DOMAIN Slice
      BY <1>1, <2>1, <3>2, SliceFacts, LenProperties
    <3> QED BY <1>3, <3>3
  <2> QED BY <1>1, <2>1, <2>2
<1> QED BY <1>3, <1>4 DEF Elements

LEMMA LastPageReachesTheEnd ==
    ASSUME IInv, phase = "get", LastPage, NEW j \in DOMAIN shelf
    PROVE  j <= Offset + PageSize
<1>1. /\ Len(shelf) \in Nat /\ j \in 1 .. Len(shelf) /\ Offset \in Nat /\ PageSize \in Nat \ {0}
      /\ page \in Nat /\ (page + 1) * PageSize = Offset + PageSize /\ TypeOK
  BY OffsetNat, LenProperties, PageSizePositive DEF IInv, TypeOK
<1>2. /\ Len(Slice) \in Nat
      /\ Len(Slice) = IF Offset + PageSize <= Len(shelf) THEN PageSize
                      ELSE IF Offset <= Len(shelf) THEN Len(shelf) - Offset ELSE 0
  BY <1>1, SliceFacts
<1>3. CASE api = "abs" /\ Len(Slice) < PageSize
  BY <1>1, <1>2, <1>3
<1>4. CASE api = "abs" /\ Len(all) + Len(Slice) >= Len(shelf)
  <2>1. Len(all) = Offset
    BY <1>4 DEF IInv, FullPages
  <2> QED BY <1>1, <1>2, <1>4, <2>1
<1>5. CASE LastBooks
  <2>1. 0 * PageSize = 0
    BY <1>1
  <2>2. CASE TotalPages <= 0
    <3>1. 0 * PageSize >= Len(shelf)
      BY <1>1, <2>2, CeilDiv DEF TotalPages
    <3> QED BY <1>1, <2>1, <3>1
  <2>3. CASE page + 1 >= TotalPages
    <3> DEFINE n == page + 1
    <3>1. n \in Nat /\ n >= TotalPages
      BY <1>1, <2>3
    <3> HIDE DEF n
    <3>2. n * PageSize >= Len(shelf)
      BY <1>1, <3>1, CeilDiv DEF TotalPages
    <3>3. (page + 1) * PageSize >= Len(shelf)
      BY <3>2 DEF n
    <3> QED BY <1>1, <3>3
  <2> QED BY <1>5, <2>2, <2>3 DEF LastBooks
<1> QED BY <1>3, <1>4, <1>5 DEF LastPage, LastItems

-------------------------------------------------------------------------------
LEMMA InitIInv == Init => IInv
<1> SUFFICES ASSUME Init PROVE IInv
  OBVIOUS
<1>1. first \in Seq(Things) /\ Len(first) \in Nat /\ DOMAIN first = 1 .. Len(first)
  BY StartsAreShelves, LenProperties DEF Init
<1>2. TypeOK
  BY <1>1 DEF Init, TypeOK
<1>3. Offset = 0
  BY PageSizePositive DEF Init, Offset
<1>4. FullPages
  BY <1>3 DEF Init, FullPages
<1>5. ASSUME NEW k \in DOMAIN first PROVE Ahead(first[k])
  <2>1. k \in DOMAIN shelf /\ k > Offset /\ shelf[k] = first[k]
    BY <1>1, <1>3 DEF Init
  <2> QED BY <2>1 DEF Ahead
<1>6. NothingSkipped
  BY <1>5 DEF Init, NothingSkipped
<1> QED BY <1>2, <1>4, <1>6 DEF IInv

LEMMA GetPageIInv == ASSUME IInv, GetPage PROVE IInv'
<1>1. /\ TypeOK /\ phase = "get" /\ page' = page + 1 /\ all' = all \o Slice
      /\ phase' = IF LastPage THEN "done" ELSE "get"
      /\ UNCHANGED <<api, first, shelf, arrived, left>>
  BY DEF IInv, GetPage
<1>2. TypeOK'
  <2>1. all' \in Seq(Things)
    BY GetPageReads
  <2> QED BY <1>1, <2>1 DEF TypeOK
<1>3. Offset \in Nat /\ PageSize \in Nat /\ Offset' = Offset + PageSize
  BY <1>1, OffsetNat, PageSizePositive DEF Offset
<1>4. FullPages'
  <2> SUFFICES ASSUME api = "abs", ~ LastPage PROVE Len(all') = Offset'
    BY <1>1 DEF FullPages
  <2>1. Len(all) = Offset
    BY <1>1 DEF IInv, FullPages
  <2>2. Len(Slice) = PageSize
    <3>1. Len(Slice) \in Nat /\ Len(Slice) <= PageSize
      BY <1>1, SliceFacts
    <3>2. ~ (Len(Slice) < PageSize)
      BY DEF LastPage, LastItems
    <3> QED BY <1>3, <3>1, <3>2
  <2>3. Len(all') = Len(all) + Len(Slice)
    <3>1. all \in Seq(Things) /\ Slice \in Seq(Things)
      BY <1>1, SliceFacts DEF TypeOK
    <3> QED BY <1>1, <3>1, ElementsOfConcat
  <2> QED BY <1>3, <2>1, <2>2, <2>3
<1>5. NothingSkipped'
  <2> SUFFICES ASSUME left = {}, NEW k \in DOMAIN first
               PROVE  /\ ~ LastPage => first[k] \in Elements(all') \/ Ahead(first[k])'
                      /\ LastPage => first[k] \in Elements(all')
    BY <1>1 DEF NothingSkipped
  <2>1. first[k] \in Elements(all) \/ Ahead(first[k])
    BY <1>1 DEF IInv, NothingSkipped
  <2>2. \/ first[k] \in Elements(all')
        \/ \E j \in DOMAIN shelf : j > Offset + PageSize /\ shelf[j] = first[k]
    BY <2>1, GetPageReads
  <2>3. ASSUME NEW j \in DOMAIN shelf, j > Offset + PageSize, shelf[j] = first[k]
        PROVE  Ahead(first[k])' /\ ~ LastPage
    <3>1. j \in Nat /\ ~ (j <= Offset + PageSize)
      BY <1>1, <1>3, <2>3, LenProperties DEF TypeOK
    <3>2. ~ LastPage
      BY <1>1, <3>1, LastPageReachesTheEnd
    <3>3. Ahead(first[k])'
      BY <1>1, <1>3, <2>3 DEF Ahead
    <3> QED BY <3>2, <3>3
  <2> QED BY <2>2, <2>3
<1> QED BY <1>2, <1>4, <1>5 DEF IInv

LEMMA ArriveIInv ==
    ASSUME IInv, NEW t \in Things, NEW i \in 0 .. Len(shelf), Arrive(t, i) PROVE IInv'
<1>1. /\ TypeOK /\ arrived' = arrived \union {t}
      /\ UNCHANGED <<api, first, page, all, phase, left>>
  BY DEF IInv, Arrive
<1>2. TypeOK'
  BY <1>1, Inserted DEF TypeOK
<1>3. Offset' = Offset /\ Offset \in Nat
  BY <1>1, OffsetNat DEF Offset
<1>4. FullPages'
  BY <1>1, <1>3 DEF IInv, FullPages
<1>5. ASSUME NEW u, Ahead(u) PROVE Ahead(u)'
  <2>1. PICK j \in DOMAIN shelf : j > Offset /\ shelf[j] = u
    BY <1>5 DEF Ahead
  <2>2. PICK k \in DOMAIN shelf' : k >= j /\ shelf'[k] = u
    BY <1>1, <2>1, InsertedBehind
  <2>3. j \in Nat /\ k \in Nat
    BY <1>1, <1>2, LenProperties DEF TypeOK
  <2>4. k > Offset'
    BY <1>3, <2>1, <2>2, <2>3
  <2> QED BY <2>2, <2>4 DEF Ahead
<1>6. NothingSkipped'
  BY <1>1, <1>5 DEF IInv, NothingSkipped, Elements
<1> QED BY <1>2, <1>4, <1>6 DEF IInv

LEMMA RemoveIInv == ASSUME IInv, NEW i \in DOMAIN shelf, Remove(i) PROVE IInv'
<1>1. /\ TypeOK /\ left' = left \union {shelf[i]}
      /\ UNCHANGED <<api, first, page, all, phase, arrived>>
  BY DEF IInv, Remove
<1>2. TypeOK'
  BY <1>1, Taken DEF TypeOK
<1>3. FullPages'
  BY <1>1 DEF IInv, FullPages, Offset
<1>4. NothingSkipped'
  BY <1>1 DEF NothingSkipped
<1> QED BY <1>2, <1>3, <1>4 DEF IInv

LEMMA FailedIInv ==
    ASSUME IInv, phase' = "failed", UNCHANGED <<api, first, shelf, page, all, arrived, left>>
    PROVE  IInv'
BY DEF IInv, TypeOK, FullPages, NothingSkipped

LEMMA NextIInv == IInv /\ [Next]_vars => IInv'
<1> SUFFICES ASSUME IInv, [Next]_vars PROVE IInv'
  OBVIOUS
<1>1. CASE GetPage
  BY <1>1, GetPageIInv
<1>2. CASE OddPage
  BY <1>2, FailedIInv DEF OddPage
<1>3. CASE PageFails
  BY <1>3, FailedIInv DEF PageFails
<1>4. ASSUME NEW t \in Things, NEW i \in 0 .. Len(shelf), Arrive(t, i) PROVE IInv'
  BY <1>4, ArriveIInv
<1>5. ASSUME NEW i \in DOMAIN shelf, Remove(i) PROVE IInv'
  BY <1>5, RemoveIInv
<1>6. CASE UNCHANGED vars
  BY <1>6 DEF vars, IInv, TypeOK, FullPages, NothingSkipped, Ahead, Offset
<1> QED BY <1>1, <1>2, <1>3, <1>4, <1>5, <1>6 DEF Next

(* listAllItems and Library lose nothing to additions: a book the shelf    *)
(* held when the listing began is in a finished listing unless something   *)
(* was taken away meanwhile, for every page size and every shelf.          *)
THEOREM NothingIsMissed == Spec => []NothingMissed
<1>1. IInv => NothingMissed
  BY DEF IInv, NothingSkipped, NothingMissed, Elements
<1> QED BY InitIInv, NextIInv, <1>1, PTL DEF Spec

-------------------------------------------------------------------------------
(* What shifts cost.  A removal among what has been listed moves one thing *)
(* past the reader, an arrival there moves one back in front of it.        *)

Passed == {shelf[j] : j \in {k \in DOMAIN shelf : k <= Offset}}
Hidden == (Elements(first) \intersect Passed) \ Elements(all)

(* Listed, and to be listed once more.                                     *)
Again == {t \in Elements(all) : Ahead(t)}

Repeats == Len(all) - Cardinality(Elements(all))

ShelfOnce == \A j, k \in DOMAIN shelf : shelf[j] = shelf[k] => j = k

Known ==
    /\ Elements(shelf) \subseteq Elements(first) \union arrived
    /\ Elements(all) \subseteq Elements(first) \union arrived
    /\ Elements(shelf) \intersect left = {} /\ left \subseteq Elements(first) \union arrived

ReachedTheEnd == phase = "done" => \A j \in DOMAIN shelf : j <= Offset

Counted ==
    /\ IsFiniteSet(arrived) /\ IsFiniteSet(left)
    /\ Cardinality(Hidden) <= Cardinality(left)
    /\ Repeats + Cardinality(Again) <= Cardinality(arrived)

ShiftInv == ShelfOnce /\ Known /\ ReachedTheEnd /\ Counted

LEMMA ElementsFinite ==
    ASSUME NEW S, NEW s \in Seq(S)
    PROVE  /\ IsFiniteSet(Elements(s)) /\ Cardinality(Elements(s)) \in Nat
           /\ Len(s) \in Nat
           /\ Cardinality(Elements(s)) <= Len(s)
           /\ (\A i, j \in DOMAIN s : s[i] = s[j] => i = j) => Cardinality(Elements(s)) = Len(s)
<1>1. Len(s) \in Nat /\ DOMAIN s = 1 .. Len(s) /\ s \in [1 .. Len(s) -> S]
  BY LenProperties
<1>2. IsFiniteSet(1 .. Len(s)) /\ Cardinality(1 .. Len(s)) = Len(s)
  BY <1>1, FS_Interval
<1>3. s \in Surjection(1 .. Len(s), Elements(s))
  BY <1>1 DEF Surjection, Elements
<1>4. /\ IsFiniteSet(Elements(s))
      /\ Cardinality(Elements(s)) <= Cardinality(1 .. Len(s))
      /\ Cardinality(Elements(s)) = Cardinality(1 .. Len(s)) <=> s \in Injection(1 .. Len(s), Elements(s))
  BY <1>2, <1>3, FS_Surjection
<1>5. ASSUME \A i, j \in DOMAIN s : s[i] = s[j] => i = j
      PROVE  s \in Injection(1 .. Len(s), Elements(s))
  BY <1>1, <1>5 DEF Injection, IsInjective, Elements
<1> QED BY <1>1, <1>2, <1>4, <1>5, FS_CardinalityType

(* The counted sets are finite, the numbers natural.                       *)
LEMMA CountsAreNat ==
    ASSUME TypeOK
    PROVE  /\ IsFiniteSet(Elements(all)) /\ Cardinality(Elements(all)) \in Nat /\ Len(all) \in Nat
           /\ IsFiniteSet(Hidden) /\ Cardinality(Hidden) \in Nat
           /\ IsFiniteSet(Again) /\ Cardinality(Again) \in Nat
<1>1. all \in Seq(Things) /\ first \in Seq(Things)
  BY DEF TypeOK
<1>2. IsFiniteSet(Elements(all)) /\ IsFiniteSet(Elements(first)) /\ Len(all) \in Nat
  BY <1>1, ElementsFinite
<1>3. Hidden \in SUBSET Elements(first) /\ Again \in SUBSET Elements(all)
  BY DEF Hidden, Again
<1>4. IsFiniteSet(Hidden) /\ IsFiniteSet(Again)
  BY <1>2, <1>3, FS_Subset
<1> QED BY <1>2, <1>4, FS_CardinalityType

(* At most one more.                                                       *)
LEMMA OneMore ==
    ASSUME NEW S, NEW T, NEW x, IsFiniteSet(S), T \subseteq S \union {x}
    PROVE  IsFiniteSet(T) /\ Cardinality(T) <= Cardinality(S) + 1
<1>1. /\ IsFiniteSet(S \union {x})
      /\ Cardinality(S \union {x}) = IF x \in S THEN Cardinality(S) ELSE Cardinality(S) + 1
  BY FS_AddElement
<1>2. T \in SUBSET (S \union {x})
  OBVIOUS
<1>3. IsFiniteSet(T) /\ Cardinality(T) <= Cardinality(S \union {x})
  BY <1>1, <1>2, FS_Subset
<1>4. Cardinality(T) \in Nat /\ Cardinality(S) \in Nat
  BY <1>3, FS_CardinalityType
<1> QED BY <1>1, <1>3, <1>4

LEMMA InitShift == Init => ShiftInv
<1> SUFFICES ASSUME Init PROVE ShiftInv
  OBVIOUS
<1>1. first \in Seq(Things) /\ first = shelf /\ all = <<>> /\ arrived = {} /\ left = {} /\ phase = "get"
  BY StartsAreShelves DEF Init
<1>2. Elements(all) = {} /\ Len(all) = 0
  BY <1>1 DEF Elements
<1>3. ShelfOnce
  BY <1>1, StartsListOnce DEF Init, ShelfOnce
<1>4. Known /\ ReachedTheEnd
  BY <1>1, <1>2 DEF Known, ReachedTheEnd
<1>5. Offset = 0
  BY PageSizePositive DEF Init, Offset
<1>6. Passed = {}
  BY <1>1, <1>5, LenProperties DEF Passed
<1>7. Hidden = {} /\ Again = {}
  BY <1>2, <1>6 DEF Hidden, Again
<1>8. Counted
  BY <1>1, <1>2, <1>7, FS_EmptySet DEF Counted, Repeats
<1> QED BY <1>3, <1>4, <1>8 DEF ShiftInv

(* A page is read once: what of it was listed before was due to appear     *)
(* again, and does so no more.                                             *)
LEMMA GetPageShift == ASSUME IInv, ShiftInv, GetPage PROVE ShiftInv'
<1>1. /\ TypeOK /\ TypeOK' /\ phase = "get" /\ page' = page + 1 /\ all' = all \o Slice
      /\ phase' = IF LastPage THEN "done" ELSE "get"
      /\ UNCHANGED <<api, first, shelf, arrived, left>>
  BY GetPageIInv DEF IInv, GetPage
<1>2. Offset \in Nat /\ PageSize \in Nat /\ PageSize > 0 /\ Offset' = Offset + PageSize
  BY <1>1, OffsetNat, PageSizePositive DEF Offset
<1>3. /\ shelf \in Seq(Things) /\ all \in Seq(Things) /\ Slice \in Seq(Things)
      /\ Len(shelf) \in Nat /\ DOMAIN shelf = 1 .. Len(shelf)
      /\ Len(all) \in Nat /\ DOMAIN all = 1 .. Len(all)
      /\ Len(Slice) \in Nat /\ DOMAIN Slice = 1 .. Len(Slice)
  BY <1>1, SliceFacts, LenProperties DEF TypeOK
<1>4. /\ Len(Slice) <= PageSize
      /\ \A i \in 1 .. Len(Slice) : Offset + i \in DOMAIN shelf /\ Slice[i] = shelf[Offset + i]
  <2>1. Len(Slice) = IF Offset + PageSize <= Len(shelf) THEN PageSize
                     ELSE IF Offset <= Len(shelf) THEN Len(shelf) - Offset ELSE 0
    BY <1>1, SliceFacts
  <2>2. ASSUME NEW i \in 1 .. Len(Slice) PROVE Offset + i \in DOMAIN shelf
    <3>1. i \in Nat /\ i >= 1 /\ i <= Len(Slice) /\ Len(Slice) >= 1
      BY <1>3
    <3>2. Offset + Len(Slice) <= Len(shelf)
      <4> DEFINE n == Len(shelf)  m == Len(Slice)
      <4>1. n \in Nat /\ m \in Nat /\ m >= 1
        BY <1>3, <3>1
      <4>2. m = IF Offset + PageSize <= n THEN PageSize ELSE IF Offset <= n THEN n - Offset ELSE 0
        BY <2>1
      <4> HIDE DEF n, m
      <4>3. Offset + m <= n
        BY <1>2, <4>1, <4>2
      <4> QED BY <4>3 DEF n, m
    <3> QED BY <1>2, <1>3, <3>1, <3>2
  <2> QED BY <1>1, <2>2, SliceFacts
<1>5. /\ Len(all') = Len(all) + Len(Slice)
      /\ Elements(all') = Elements(all) \union Elements(Slice)
  <2>1. /\ Len(all') = Len(all) + Len(Slice)
        /\ \A i \in DOMAIN all : all[i] \in Elements(all')
        /\ \A i \in DOMAIN Slice : Slice[i] \in Elements(all')
    BY <1>1, <1>3, ElementsOfConcat
  <2>2. \A i \in 1 .. Len(all) + Len(Slice) : all'[i] = IF i <= Len(all) THEN all[i] ELSE Slice[i - Len(all)]
    BY <1>1, <1>3, ConcatProperties
  <2>3. DOMAIN all' = 1 .. Len(all) + Len(Slice)
    BY <1>1, <2>1, LenProperties DEF TypeOK
  <2>4. ASSUME NEW i \in DOMAIN all' PROVE all'[i] \in Elements(all) \union Elements(Slice)
    <3>1. CASE i <= Len(all)
      <4>1. i \in DOMAIN all
        BY <1>3, <2>3, <3>1
      <4> QED BY <2>2, <2>3, <3>1, <4>1 DEF Elements
    <3>2. CASE ~ (i <= Len(all))
      <4>1. i - Len(all) \in DOMAIN Slice
        BY <1>3, <2>3, <3>2
      <4> QED BY <2>2, <2>3, <3>2, <4>1 DEF Elements
    <3> QED BY <3>1, <3>2
  <2> QED BY <2>1, <2>4 DEF Elements
<1>6. ShelfOnce /\ ShelfOnce'
  BY <1>1 DEF ShiftInv, ShelfOnce
<1>7. Elements(Slice) \subseteq Elements(shelf)
  BY <1>3, <1>4 DEF Elements
<1>8. Known'
  BY <1>1, <1>5, <1>7 DEF ShiftInv, Known, Elements
<1>9. ReachedTheEnd'
  <2>1. ASSUME LastPage, NEW j \in DOMAIN shelf PROVE j <= Offset'
    BY <1>1, <1>2, <2>1, LastPageReachesTheEnd
  <2> QED BY <1>1, <2>1 DEF ReachedTheEnd
<1>10. Hidden' \subseteq Hidden
  <2> SUFFICES ASSUME NEW t \in Hidden' PROVE t \in Hidden
    OBVIOUS
  <2>1. t \in Elements(first) /\ t \notin Elements(all) /\ t \notin Elements(Slice)
    BY <1>1, <1>5 DEF Hidden, Elements
  <2>2. PICK j \in DOMAIN shelf : j <= Offset' /\ t = shelf[j]
    BY <1>1 DEF Hidden, Passed
  <2>3. j <= Offset
    <3>1. SUFFICES ASSUME j > Offset PROVE FALSE
      BY <1>2, <1>3, <2>2
    <3>2. \E k \in DOMAIN shelf : k > Offset /\ shelf[k] = t
      BY <2>2, <3>1
    <3>3. Ahead(t)
      BY <3>2 DEF Ahead
    <3>4. \/ t \in Elements(all')
          \/ \E k \in DOMAIN shelf : k > Offset + PageSize /\ shelf[k] = t
      BY <3>3, GetPageReads
    <3>5. PICK k \in DOMAIN shelf : k > Offset + PageSize /\ shelf[k] = t
      BY <1>5, <2>1, <3>4
    <3>6. k = j
      BY <1>6, <2>2, <3>5 DEF ShelfOnce
    <3> QED BY <1>2, <1>3, <2>2, <3>5, <3>6
  <2> QED BY <2>1, <2>2, <2>3 DEF Hidden, Passed
<1>11. \A t \in Elements(Slice) : Ahead(t)
  <2> SUFFICES ASSUME NEW i \in 1 .. Len(Slice) PROVE Ahead(Slice[i])
    BY <1>3 DEF Elements
  <2>1. Offset + i > Offset
    BY <1>2, <1>3
  <2> QED BY <1>4, <2>1 DEF Ahead
<1>12. Again' \subseteq Again \ Elements(Slice)
  <2> SUFFICES ASSUME NEW t \in Again' PROVE t \in Again /\ t \notin Elements(Slice)
    OBVIOUS
  <2>1. t \in Elements(all) \union Elements(Slice)
    BY <1>5 DEF Again, Elements
  <2>2. PICK j \in DOMAIN shelf : j > Offset + PageSize /\ shelf[j] = t
    BY <1>1, <1>2 DEF Again, Ahead
  <2>3. t \notin Elements(Slice)
    <3> SUFFICES ASSUME NEW i \in 1 .. Len(Slice), Slice[i] = t PROVE FALSE
      BY <1>3 DEF Elements
    <3>1. Offset + i = j
      BY <1>4, <1>6, <2>2 DEF ShelfOnce
    <3> QED BY <1>2, <1>3, <1>4, <2>2, <3>1
  <2>4. j > Offset
    BY <1>2, <1>3, <2>2
  <2> QED BY <2>1, <2>2, <2>3, <2>4 DEF Again, Ahead
<1>13. Elements(all) \intersect Elements(Slice) \subseteq Again
  BY <1>11 DEF Again
<1> DEFINE same == Elements(all) \intersect Elements(Slice)
<1>14. Cardinality(Elements(Slice)) = Len(Slice) /\ IsFiniteSet(Elements(Slice))
  <2>1. ASSUME NEW i \in DOMAIN Slice, NEW j \in DOMAIN Slice, Slice[i] = Slice[j] PROVE i = j
    <3>1. Offset + i = Offset + j
      BY <1>3, <1>4, <1>6, <2>1 DEF ShelfOnce
    <3> QED BY <1>2, <1>3, <3>1
  <2> QED BY <1>3, <2>1, ElementsFinite
<1>15. /\ IsFiniteSet(Elements(all)) /\ Cardinality(Elements(all)) \in Nat
       /\ IsFiniteSet(Again) /\ Cardinality(Again) \in Nat
       /\ IsFiniteSet(Hidden) /\ Cardinality(Hidden) \in Nat
       /\ IsFiniteSet(Again') /\ Cardinality(Again') \in Nat
       /\ IsFiniteSet(Hidden') /\ Cardinality(Hidden') \in Nat
  <2>1. IsFiniteSet(Again') /\ IsFiniteSet(Hidden')
    <3>1. Again' \in SUBSET Again /\ Hidden' \in SUBSET Hidden
      BY <1>10, <1>12
    <3> QED BY <1>1, <3>1, CountsAreNat, FS_Subset
  <2> QED BY <1>1, <2>1, CountsAreNat, FS_CardinalityType
<1>16. Cardinality(Hidden') <= Cardinality(Hidden)
  <2>1. Hidden' \in SUBSET Hidden
    BY <1>10
  <2> QED BY <1>15, <2>1, FS_Subset
<1>17. IsFiniteSet(same) /\ Cardinality(same) \in Nat /\ Cardinality(Again') <= Cardinality(Again) - Cardinality(same)
  <2>1. IsFiniteSet(same)
    BY <1>15, FS_Intersection
  <2>2. /\ IsFiniteSet(Again \ same)
        /\ Cardinality(Again \ same) = Cardinality(Again) - Cardinality(Again \intersect same)
    BY <1>15, FS_Difference
  <2>3. Again \intersect same = same
    BY <1>13
  <2>4. Again' \in SUBSET (Again \ same)
    BY <1>12
  <2>5. Cardinality(Again') <= Cardinality(Again \ same)
    BY <2>2, <2>4, FS_Subset
  <2> HIDE DEF same
  <2> QED BY <2>1, <2>2, <2>3, <2>5, FS_CardinalityType
<1>18. Cardinality(Elements(all) \union Elements(Slice)) =
          Cardinality(Elements(all)) + Len(Slice) - Cardinality(same)
  BY <1>14, <1>15, FS_Union
<1>19. Repeats' = Repeats + Cardinality(same)
  <2>1. Repeats' = (Len(all) + Len(Slice)) - Cardinality(Elements(all) \union Elements(Slice))
    <3>1. Elements(all)' = Elements(all')
      BY DEF Elements
    <3>2. Repeats' = Len(all') - Cardinality(Elements(all)')
      BY DEF Repeats
    <3> QED BY <1>5, <3>1, <3>2
  <2>2. Repeats = Len(all) - Cardinality(Elements(all))
    BY DEF Repeats
  <2> HIDE DEF same
  <2> QED BY <1>3, <1>15, <1>17, <1>18, <2>1, <2>2
<1>20. Cardinality(Hidden)' = Cardinality(Hidden') /\ Cardinality(Again)' = Cardinality(Again')
  OBVIOUS
<1>21. /\ IsFiniteSet(arrived) /\ IsFiniteSet(left)
       /\ Cardinality(arrived) \in Nat /\ Cardinality(left) \in Nat
       /\ Cardinality(Hidden) <= Cardinality(left)
       /\ Repeats + Cardinality(Again) <= Cardinality(arrived)
  BY FS_CardinalityType DEF ShiftInv, Counted
<1>22. Repeats \in Int
  BY <1>3, <1>15 DEF Repeats
<1> HIDE DEF same
<1>23. Cardinality(Hidden') <= Cardinality(left)
  BY <1>15, <1>16, <1>21
<1>24. Repeats' + Cardinality(Again') <= Cardinality(arrived)
  BY <1>15, <1>17, <1>19, <1>21, <1>22
<1>25. Counted'
  BY <1>1, <1>21, <1>23, <1>24 DEF Counted
<1> QED BY <1>6, <1>8, <1>9, <1>25 DEF ShiftInv

(* An arrival moves everything behind it one place back: at most the last  *)
(* thing that was read comes to lie in front of the reader again.          *)
LEMMA ArriveShift ==
    ASSUME IInv, ShiftInv, NEW t \in Things, NEW i \in 0 .. Len(shelf), Arrive(t, i) PROVE ShiftInv'
<1>1. /\ TypeOK /\ TypeOK' /\ phase = "get" /\ arrived' = arrived \union {t}
      /\ t \notin Elements(first) \union arrived
      /\ UNCHANGED <<api, first, page, all, phase, left>>
  BY ArriveIInv DEF IInv, Arrive
<1>2. Offset \in Nat /\ Offset' = Offset
  BY <1>1, OffsetNat DEF Offset
<1>3. /\ Len(shelf) \in Nat /\ i \in Nat /\ i <= Len(shelf)
      /\ DOMAIN shelf = 1 .. Len(shelf) /\ DOMAIN shelf' = 1 .. Len(shelf) + 1
  BY <1>1, Inserted, LenProperties DEF TypeOK
<1>4. ASSUME NEW k \in DOMAIN shelf'
      PROVE  \/ shelf'[k] = t /\ k = i + 1
             \/ k <= i /\ k \in DOMAIN shelf /\ shelf'[k] = shelf[k]
             \/ k > i + 1 /\ k - 1 \in DOMAIN shelf /\ shelf'[k] = shelf[k - 1]
  <2>1. shelf'[k] = IF k <= i THEN shelf[k] ELSE IF k = i + 1 THEN t ELSE shelf[k - 1]
    BY <1>1, Inserted
  <2>2. k \in Nat /\ k >= 1 /\ k <= Len(shelf) + 1
    BY <1>3
  <2> QED BY <1>3, <2>1, <2>2
<1>5. t \notin Elements(shelf) /\ t \notin Elements(all) /\ ~ Ahead(t)
  BY <1>1 DEF ShiftInv, Known, Ahead, Elements
<1>6. ShelfOnce'
  <2> SUFFICES ASSUME NEW j \in DOMAIN shelf', NEW k \in DOMAIN shelf', shelf'[j] = shelf'[k] PROVE j = k
    BY DEF ShelfOnce
  <2>1. j \in Nat /\ k \in Nat
    BY <1>3
  <2>2. \A m \in DOMAIN shelf : shelf[m] # t
    BY <1>5 DEF Elements
  <2>3. \A m, n \in DOMAIN shelf : shelf[m] = shelf[n] => m = n
    BY DEF ShiftInv, ShelfOnce
  <2> QED BY <1>3, <1>4, <2>1, <2>2, <2>3
<1>7. Elements(shelf)' \subseteq Elements(shelf) \union {t}
  BY <1>4 DEF Elements
<1>8. t \notin left
  BY <1>1 DEF ShiftInv, Known
<1>9. Known'
  BY <1>1, <1>7, <1>8 DEF ShiftInv, Known, Elements
<1>10. ReachedTheEnd'
  BY <1>1 DEF ReachedTheEnd
<1>11. Hidden' \subseteq Hidden
  <2> SUFFICES ASSUME NEW u \in Hidden' PROVE u \in Hidden
    OBVIOUS
  <2>1. u \in Elements(first) /\ u \notin Elements(all) /\ u # t
    BY <1>1 DEF Hidden, Elements
  <2>2. PICK k \in DOMAIN shelf' : k <= Offset /\ u = shelf'[k]
    BY <1>2 DEF Hidden, Passed
  <2>3. k \in Nat
    BY <1>3
  <2>4. \E j \in DOMAIN shelf : j <= Offset /\ u = shelf[j]
    BY <1>2, <1>3, <1>4, <2>1, <2>2, <2>3
  <2> QED BY <2>1, <2>4 DEF Hidden, Passed
<1>12. Again' \subseteq Again \union {shelf[Offset]}
  <2> SUFFICES ASSUME NEW u \in Again', u # shelf[Offset] PROVE u \in Again
    OBVIOUS
  <2>1. u \in Elements(all) /\ u # t
    BY <1>1, <1>5 DEF Again, Elements
  <2>2. PICK k \in DOMAIN shelf' : k > Offset /\ u = shelf'[k]
    BY <1>2 DEF Again, Ahead
  <2>3. k \in Nat
    BY <1>3
  <2>4. \E j \in DOMAIN shelf : j > Offset /\ shelf[j] = u
    <3>1. CASE k \in DOMAIN shelf /\ shelf'[k] = shelf[k]
      BY <2>2, <3>1
    <3>2. CASE k - 1 \in DOMAIN shelf /\ shelf'[k] = shelf[k - 1]
      <4>1. k - 1 # Offset
        BY <2>2, <3>2
      <4>2. k - 1 > Offset
        BY <1>2, <2>2, <2>3, <4>1
      <4> QED BY <2>2, <3>2, <4>2
    <3> QED BY <1>4, <2>1, <2>2, <3>1, <3>2
  <2> QED BY <2>1, <2>4 DEF Again, Ahead
<1>13. /\ IsFiniteSet(Again) /\ Cardinality(Again) \in Nat
       /\ IsFiniteSet(Hidden) /\ Cardinality(Hidden) \in Nat
       /\ Cardinality(Elements(all)) \in Nat /\ Len(all) \in Nat
  BY <1>1, CountsAreNat
<1>14. IsFiniteSet(Again') /\ Cardinality(Again') <= Cardinality(Again) + 1
  BY <1>12, <1>13, OneMore
<1>15. Cardinality(Hidden') <= Cardinality(Hidden)
  <2>1. Hidden' \in SUBSET Hidden
    BY <1>11
  <2> QED BY <1>13, <2>1, FS_Subset
<1>16. /\ IsFiniteSet(arrived) /\ IsFiniteSet(left)
       /\ Cardinality(arrived) \in Nat /\ Cardinality(left) \in Nat
       /\ Cardinality(Hidden) <= Cardinality(left)
       /\ Repeats + Cardinality(Again) <= Cardinality(arrived)
  BY FS_CardinalityType DEF ShiftInv, Counted
<1>17. IsFiniteSet(arrived') /\ Cardinality(arrived') = Cardinality(arrived) + 1
  BY <1>1, <1>16, FS_AddElement
<1>18. Repeats \in Int /\ Repeats' = Repeats
  BY <1>1, <1>13 DEF Repeats, Elements
<1>19. Cardinality(Hidden') \in Nat /\ Cardinality(Again') \in Nat
  <2>1. Hidden' \in SUBSET Hidden
    BY <1>11
  <2> QED BY <1>13, <1>14, <2>1, FS_Subset, FS_CardinalityType
<1>20. Cardinality(Hidden') <= Cardinality(left)
  BY <1>13, <1>15, <1>16, <1>19
<1>21. Repeats' + Cardinality(Again') <= Cardinality(arrived')
  BY <1>13, <1>14, <1>16, <1>17, <1>18, <1>19
<1>22. Counted'
  BY <1>1, <1>16, <1>17, <1>20, <1>21 DEF Counted
<1> QED BY <1>6, <1>9, <1>10, <1>22 DEF ShiftInv

(* A removal moves everything behind it one place forward: at most the     *)
(* first thing not yet read comes to lie behind the reader.                *)
LEMMA RemoveShift == ASSUME IInv, ShiftInv, NEW i \in DOMAIN shelf, Remove(i) PROVE ShiftInv'
<1>1. /\ TypeOK /\ TypeOK' /\ phase = "get" /\ left' = left \union {shelf[i]}
      /\ UNCHANGED <<api, first, page, all, phase, arrived>>
  BY RemoveIInv DEF IInv, Remove
<1>2. Offset \in Nat /\ Offset' = Offset
  BY <1>1, OffsetNat DEF Offset
<1>3. /\ Len(shelf) \in Nat /\ i \in 1 .. Len(shelf) /\ i \in Nat
      /\ DOMAIN shelf = 1 .. Len(shelf) /\ DOMAIN shelf' = 1 .. Len(shelf) - 1
  BY <1>1, Taken, LenProperties DEF TypeOK
<1>4. ASSUME NEW k \in DOMAIN shelf'
      PROVE  \/ k < i /\ k \in DOMAIN shelf /\ shelf'[k] = shelf[k]
             \/ k >= i /\ k + 1 \in DOMAIN shelf /\ shelf'[k] = shelf[k + 1]
  <2>1. shelf'[k] = IF k < i THEN shelf[k] ELSE shelf[k + 1]
    BY <1>1, Taken
  <2>2. k \in Nat /\ k >= 1 /\ k <= Len(shelf) - 1
    BY <1>3
  <2> QED BY <1>3, <2>1, <2>2
<1>5. \A m, n \in DOMAIN shelf : shelf[m] = shelf[n] => m = n
  BY DEF ShiftInv, ShelfOnce
<1>6. ShelfOnce'
  <2> SUFFICES ASSUME NEW j \in DOMAIN shelf', NEW k \in DOMAIN shelf', shelf'[j] = shelf'[k] PROVE j = k
    BY DEF ShelfOnce
  <2>1. j \in Nat /\ k \in Nat
    BY <1>3
  <2> QED BY <1>3, <1>4, <1>5, <2>1
<1>7. shelf[i] \notin left /\ shelf[i] \in Elements(shelf)
  BY DEF ShiftInv, Known, Elements
<1>8. Elements(shelf)' \subseteq Elements(shelf) \ {shelf[i]}
  <2> SUFFICES ASSUME NEW k \in DOMAIN shelf' PROVE shelf'[k] \in Elements(shelf) /\ shelf'[k] # shelf[i]
    BY DEF Elements
  <2>1. k \in Nat
    BY <1>3
  <2> QED BY <1>3, <1>4, <1>5, <2>1 DEF Elements
<1>9. Known'
  BY <1>1, <1>8 DEF ShiftInv, Known, Elements
<1>10. ReachedTheEnd'
  BY <1>1 DEF ReachedTheEnd
<1>11. Hidden' \subseteq Hidden \union {shelf[Offset + 1]}
  <2> SUFFICES ASSUME NEW u \in Hidden', u # shelf[Offset + 1] PROVE u \in Hidden
    OBVIOUS
  <2>1. u \in Elements(first) /\ u \notin Elements(all)
    BY <1>1 DEF Hidden, Elements
  <2>2. PICK k \in DOMAIN shelf' : k <= Offset /\ u = shelf'[k]
    BY <1>2 DEF Hidden, Passed
  <2>3. k \in Nat
    BY <1>3
  <2>4. \E j \in DOMAIN shelf : j <= Offset /\ u = shelf[j]
    <3>1. CASE k \in DOMAIN shelf /\ shelf'[k] = shelf[k]
      BY <2>2, <3>1
    <3>2. CASE k + 1 \in DOMAIN shelf /\ shelf'[k] = shelf[k + 1]
      <4>1. k + 1 # Offset + 1
        BY <2>2, <3>2
      <4>2. k + 1 <= Offset
        BY <1>2, <2>2, <2>3, <4>1
      <4> QED BY <2>2, <3>2, <4>2
    <3> QED BY <1>4, <3>1, <3>2
  <2> QED BY <2>1, <2>4 DEF Hidden, Passed
<1>12. Again' \subseteq Again
  <2> SUFFICES ASSUME NEW u \in Again' PROVE u \in Again
    OBVIOUS
  <2>1. u \in Elements(all)
    BY <1>1 DEF Again, Elements
  <2>2. PICK k \in DOMAIN shelf' : k > Offset /\ u = shelf'[k]
    BY <1>2 DEF Again, Ahead
  <2>3. k \in Nat /\ k + 1 > Offset
    BY <1>2, <1>3, <2>2
  <2>4. \E j \in DOMAIN shelf : j > Offset /\ shelf[j] = u
    BY <1>4, <2>2, <2>3
  <2> QED BY <2>1, <2>4 DEF Again, Ahead
<1>13. /\ IsFiniteSet(Again) /\ Cardinality(Again) \in Nat
       /\ IsFiniteSet(Hidden) /\ Cardinality(Hidden) \in Nat
       /\ Cardinality(Elements(all)) \in Nat /\ Len(all) \in Nat
  BY <1>1, CountsAreNat
<1>14. IsFiniteSet(Hidden') /\ Cardinality(Hidden') <= Cardinality(Hidden) + 1
  BY <1>11, <1>13, OneMore
<1>15. IsFiniteSet(Again') /\ Cardinality(Again') <= Cardinality(Again)
  <2>1. Again' \in SUBSET Again
    BY <1>12
  <2> QED BY <1>13, <2>1, FS_Subset
<1>16. /\ IsFiniteSet(arrived) /\ IsFiniteSet(left)
       /\ Cardinality(arrived) \in Nat /\ Cardinality(left) \in Nat
       /\ Cardinality(Hidden) <= Cardinality(left)
       /\ Repeats + Cardinality(Again) <= Cardinality(arrived)
  BY FS_CardinalityType DEF ShiftInv, Counted
<1>17. IsFiniteSet(left') /\ Cardinality(left') = Cardinality(left) + 1
  BY <1>1, <1>7, <1>16, FS_AddElement
<1>18. Repeats \in Int /\ Repeats' = Repeats
  BY <1>1, <1>13 DEF Repeats, Elements
<1>19. Cardinality(Hidden') \in Nat /\ Cardinality(Again') \in Nat
  BY <1>14, <1>15, FS_CardinalityType
<1>20. Cardinality(Hidden') <= Cardinality(left')
  BY <1>13, <1>14, <1>16, <1>17, <1>19
<1>21. Repeats' + Cardinality(Again') <= Cardinality(arrived)
  BY <1>13, <1>15, <1>16, <1>18, <1>19
<1>22. Counted'
  BY <1>1, <1>16, <1>17, <1>20, <1>21 DEF Counted
<1> QED BY <1>6, <1>9, <1>10, <1>22 DEF ShiftInv

LEMMA SameShelfShift ==
    ASSUME ShiftInv, phase' \in {phase, "failed"}, UNCHANGED <<api, first, shelf, page, all, arrived, left>>
    PROVE  ShiftInv'
BY DEF ShiftInv, ShelfOnce, Known, ReachedTheEnd, Counted, Hidden, Passed, Again, Ahead, Repeats,
       Offset, Elements

LEMMA NextShift == IInv /\ ShiftInv /\ [Next]_vars => ShiftInv'
<1> SUFFICES ASSUME IInv, ShiftInv, [Next]_vars PROVE ShiftInv'
  OBVIOUS
<1>1. CASE GetPage
  BY <1>1, GetPageShift
<1>2. CASE OddPage \/ PageFails
  BY <1>2, SameShelfShift DEF OddPage, PageFails
<1>3. ASSUME NEW t \in Things, NEW i \in 0 .. Len(shelf), Arrive(t, i) PROVE ShiftInv'
  BY <1>3, ArriveShift
<1>4. ASSUME NEW i \in DOMAIN shelf, Remove(i) PROVE ShiftInv'
  BY <1>4, RemoveShift
<1>5. CASE UNCHANGED vars
  BY <1>5, SameShelfShift DEF vars
<1> QED BY <1>1, <1>2, <1>3, <1>4, <1>5 DEF Next

(* A finished listing hides no more of what is still there than was taken  *)
(* away meanwhile, and shows no more twice than was added, for every page  *)
(* size and every shelf: the price of asking page after page.              *)
THEOREM ShiftsAreAccountedFor == Spec => []ShiftsAccountFor
<1>1. IInv /\ ShiftInv => ShiftsAccountFor
  <2> SUFFICES ASSUME IInv, ShiftInv, phase = "done" PROVE ShiftsAccountFor
    BY DEF ShiftsAccountFor
  <2> DEFINE unseen == (Elements(first) \intersect Elements(shelf)) \ Elements(all)
  <2>1. unseen = Hidden
    BY DEF ShiftInv, ReachedTheEnd, Hidden, Passed, Elements
  <2>2. Cardinality(unseen) <= Cardinality(left)
    BY <2>1 DEF ShiftInv, Counted
  <2>3. Repeats <= Cardinality(arrived)
    <3>1. /\ Cardinality(Again) \in Nat /\ Cardinality(Elements(all)) \in Nat /\ Len(all) \in Nat
      BY CountsAreNat DEF IInv
    <3>2. Repeats \in Int
      BY <3>1 DEF Repeats
    <3>3. Cardinality(arrived) \in Nat /\ Repeats + Cardinality(Again) <= Cardinality(arrived)
      BY FS_CardinalityType DEF ShiftInv, Counted
    <3> QED BY <3>1, <3>2, <3>3
  <2> QED BY <2>2, <2>3 DEF ShiftsAccountFor, Repeats
<1> QED BY InitIInv, NextIInv, InitShift, NextShift, <1>1, PTL DEF Spec

===============================================================================
