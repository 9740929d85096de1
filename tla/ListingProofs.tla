--------------------------- MODULE ListingProofs ---------------------------
(***************************************************************************)
(* Paging shows everything that stays, and DeletePrefix deletes everything *)
(* that was there, for any set of keys and folders, any size of the pages  *)
(* and any number of changes by others.                                    *)
(***************************************************************************)
EXTENDS Listing, ListsProofs

\* k has been listed, or it is the directory, which is skipped.
Shown(k) == EntryOf(k) \in Range(ret) \/ (EntryOf(k) = PrefixKey /\ ~recursive)

Types ==
  /\ bucket \subseteq Key
  /\ kept \subseteq bucket
  /\ recursive \in BOOLEAN
  /\ maxCount \in Int
  /\ marker \in Nat
  /\ ret \in Seq(Nat)
  /\ todo \in 0 .. Len(ret)

\* What is listed ends at the marker, and up to there nothing is missing.
PagedInv ==
  op = "paged" =>
    /\ Ascending(ret)
    /\ pc \in {"list", "returned"}
    /\ pc = "list" =>
         /\ result # "nil"
         /\ \A n \in DOMAIN ret : ret[n] <= marker
         /\ \A k \in kept : EntryOf(k) <= marker => Shown(k)
    /\ result = "nil" => \A k \in kept : Shown(k)

\* What is still there of the first objects is among those to delete.
DeleteInv ==
  op = "delete" =>
    /\ recursive = TRUE
    /\ marker = NoMarker
    /\ pc \in {"list", "delete", "returned"}
    /\ pc = "list" => todo = 0
    /\ pc = "delete" => \A k \in bucket \cap old : \E n \in todo + 1 .. Len(ret) : ret[n] = k
    /\ pc # "returned" => result # "nil"
    /\ result = "nil" => bucket \cap old = {}

ListingInv == Types /\ PagedInv /\ DeleteInv

-----------------------------------------------------------------------------
(* A page.                                                                 *)

\* The greatest entry of a page.
LEMMA MaxFacts ==
  ASSUME NEW S \in SUBSET Nat, IsFiniteSet(S), S # {}
  PROVE  Max(S) \in S /\ \A e \in S : e <= Max(S)
<1>1. PICK x \in S : \A e \in S : e <= x
  BY GreatestMember
<1>2. \A y \in S : x >= y
  BY <1>1
<1>3. Max(S) \in S /\ \A y \in S : Max(S) >= y
  BY <1>2 DEF Max
<1> QED
  BY <1>3

Rest == {e \in {EntryOf(k) : k \in bucket} : e > marker}
Page == ListObjects(marker, ClampCount(maxCount))
MarkerOf == MarkerAfter(marker, Page)

\* The entries are numbers after NoMarker, and finitely many.
LEMMA RestFacts ==
  ASSUME Types
  PROVE  /\ \A k \in Key : EntryOf(k) \in Nat \ {0} /\ (recursive => EntryOf(k) \in Key)
         /\ Rest \in SUBSET Nat
         /\ 0 \notin Rest
         /\ IsFiniteSet(Rest)
<1>1. ASSUME NEW k \in Key PROVE EntryOf(k) \in Nat \ {0} /\ (recursive => EntryOf(k) \in Key)
  <2>1. k \in Nat \ {0} /\ (Folder[k] = k \/ Folder[k] \in 1 .. k - 1)
    BY ListingAssumption DEF NoMarker
  <2> QED
    BY <2>1 DEF EntryOf
<1>2. bucket \subseteq Key
  BY DEF Types
<1> DEFINE S == {EntryOf(k) : k \in bucket}
           f == [k \in bucket |-> EntryOf(k)]
<1>3. f \in Surjection(bucket, S)
  BY DEF Surjection
<1>4. IsFiniteSet(bucket)
  BY <1>2, ListingAssumption, FS_Subset
<1>5. IsFiniteSet(S)
  <2> HIDE DEF S, f
  <2> QED
    BY <1>3, <1>4, FS_Surjection
<1>6. Rest \in SUBSET S
  BY DEF Rest
<1>7. IsFiniteSet(Rest)
  <2> HIDE DEF S
  <2> QED
    BY <1>5, <1>6, FS_Subset
<1>8. S \in SUBSET (Nat \ {0})
  BY <1>1, <1>2
<1> QED
  BY <1>1, <1>6, <1>7, <1>8

\* A page is a first part of the rest.  The marker that it gives is its last
\* entry, and none is given only when nothing is left.
LEMMA PageFacts ==
  ASSUME Types
  PROVE  /\ Page.entries \in SUBSET Rest
         /\ IsFiniteSet(Page.entries)
         /\ MarkerOf = NoMarker => Page.entries = Rest
         /\ MarkerOf # NoMarker =>
              /\ MarkerOf \in Nat /\ MarkerOf > marker
              /\ \A e \in Page.entries : e <= MarkerOf
              /\ \A e \in Rest : e <= MarkerOf => e \in Page.entries
<1> DEFINE n == ClampCount(maxCount)
           P == FirstOf(Rest, n)
<1>1. n \in Nat /\ n >= 1
  BY ListingAssumption DEF ClampCount, Types
<1>2. Rest \in SUBSET Nat /\ 0 \notin Rest /\ IsFiniteSet(Rest)
  BY RestFacts
<1>3. /\ Page.entries = P
      /\ Page.isTruncated = (P # Rest)
      /\ Page.nextMarker = IF P # Rest /\ (givesMarker \/ ~recursive) THEN Max(P) ELSE NoMarker
  BY DEF Page, ListObjects, Rest
<1>4. \A e \in Rest : e \in P <=> Rank(Rest, e) <= n
  BY DEF FirstOf, Rank
<1>5. P \in SUBSET Rest
  BY DEF FirstOf
<1> HIDE DEF P, n
<1>6. IsFiniteSet(P) /\ P \in SUBSET Nat /\ 0 \notin P
  BY <1>2, <1>5, FS_Subset
<1>7. CASE P = Rest
  <2>1. MarkerOf = NoMarker
    BY <1>3, <1>7 DEF MarkerOf, MarkerAfter
  <2> QED
    BY <1>2, <1>3, <1>7, <2>1
<1>8. CASE P # Rest
  <2>1. P # {}
    <3>1. Cardinality(Rest) \in Nat /\ Cardinality(Rest) # 0
      BY <1>2, <1>5, <1>8, FS_CardinalityType, FS_EmptySet
    <3>2. 1 \in 1 .. Cardinality(Rest)
      BY <3>1
    <3>3. PICK e \in Rest : Rank(Rest, e) = 1
      BY <1>2, <3>2, RankFacts
    <3> QED
      BY <1>1, <1>4, <3>3
  <2>2. Max(P) \in P /\ \A e \in P : e <= Max(P)
    BY <1>6, <2>1, MaxFacts
  <2>3. Max(P) \in Nat /\ Max(P) # NoMarker /\ Max(P) > marker
    BY <1>5, <1>6, <2>2 DEF NoMarker, Rest
  <2>4. MarkerOf = Max(P)
    <3>1. CASE givesMarker \/ ~recursive
      BY <1>3, <1>8, <2>3, <3>1 DEF MarkerOf, MarkerAfter
    <3>2. CASE ~givesMarker /\ recursive
      <4>1. P \in SUBSET Key
        BY <1>5, <3>2, RestFacts DEF Rest, Types
      <4>2. {e \in P \cap Key : recursive \/ e # PrefixKey} = P
        BY <3>2, <4>1
      <4>3. Page.nextMarker = NoMarker /\ Page.isTruncated
        BY <1>3, <1>8, <3>2
      <4> QED
        BY <1>3, <2>1, <4>2, <4>3 DEF MarkerOf, MarkerAfter
    <3> QED
      BY <3>1, <3>2 DEF Types
  <2>5. ASSUME NEW e \in Rest, e <= Max(P) PROVE e \in P
    <3>1. CASE e = Max(P)
      BY <2>2, <3>1
    <3>2. CASE e < Max(P)
      <4>1. Rank(Rest, e) < Rank(Rest, Max(P)) /\ Rank(Rest, Max(P)) <= n
        BY <1>2, <1>4, <1>5, <2>2, <3>2, RankFacts
      <4>2. Rank(Rest, e) \in 1 .. Cardinality(Rest) /\ Rank(Rest, Max(P)) \in 1 .. Cardinality(Rest)
            /\ Cardinality(Rest) \in Nat
        BY <1>2, <1>5, <2>2, RankFacts
      <4> QED
        BY <1>1, <1>4, <4>1, <4>2
    <3> QED
      BY <1>2, <2>3, <2>5, <3>1, <3>2
  <2> QED
    BY <1>3, <1>5, <1>6, <2>2, <2>3, <2>4, <2>5
<1> QED
  BY <1>7, <1>8

-----------------------------------------------------------------------------
(* The steps.                                                              *)

Entries == {e \in Page.entries : recursive \/ e # PrefixKey}

\* The sequence with the next page joined to it.
LEMMA JoinedPage ==
  ASSUME Types
  PROVE  /\ Entries \in SUBSET Nat /\ IsFiniteSet(Entries)
         /\ \A e \in Entries : e > marker
         /\ ret \o Listed(Page) = ret \o Sorted(Entries)
         /\ ret \o Listed(Page) \in Seq(Nat)
         /\ todo \in 0 .. Len(ret \o Listed(Page))
         /\ \A e \in Range(ret) \cup Entries : e \in Range(ret \o Listed(Page))
         /\ \A n \in DOMAIN (ret \o Listed(Page)) : (ret \o Listed(Page))[n] \in Range(ret) \cup Entries
<1>1. Listed(Page) = Sorted(Entries)
  BY DEF Listed, Entries
<1>2. Entries \in SUBSET Page.entries
  BY DEF Entries
<1>3. Page.entries \in SUBSET Rest /\ IsFiniteSet(Page.entries) /\ Rest \in SUBSET Nat
  BY PageFacts, RestFacts
<1>4. Entries \in SUBSET Nat /\ IsFiniteSet(Entries)
  BY <1>2, <1>3, FS_Subset
<1>5. \A e \in Entries : e > marker
  BY <1>2, <1>3 DEF Rest
<1>6. ret \in Seq(Nat) /\ Len(ret) \in Nat /\ todo \in 0 .. Len(ret)
  BY DEF Types
<1>7. /\ ret \o Sorted(Entries) \in Seq(Nat)
      /\ Len(ret \o Sorted(Entries)) >= Len(ret)
      /\ \A e \in Range(ret) \cup Entries : e \in Range(ret \o Sorted(Entries))
      /\ \A n \in DOMAIN (ret \o Sorted(Entries)) : (ret \o Sorted(Entries))[n] \in Range(ret) \cup Entries
  BY <1>4, <1>6, JoinFacts
<1>8. todo \in 0 .. Len(ret \o Sorted(Entries))
  <2>1. Len(ret \o Sorted(Entries)) \in Nat
    BY <1>7
  <2> QED
    BY <1>6, <1>7, <2>1
<1> QED
  BY <1>1, <1>4, <1>5, <1>7, <1>8

\* A page shows what lies between its marker and the one before.
LEMMA PagedStep ==
  ASSUME ListingInv, GetPagedObjects
  PROVE  ListingInv'
<1> USE DEF ListingInv
<1>1. /\ op = "paged" /\ pc = "list"
      /\ ret' = ret \o Listed(Page)
      /\ marker' = MarkerOf
      /\ pc' = IF marker' = NoMarker THEN "returned" ELSE "list"
      /\ result' = IF marker' = NoMarker THEN "nil" ELSE "none"
      /\ UNCHANGED <<bucket, op, recursive, givesMarker, maxCount, todo, changes, kept, old>>
  BY DEF GetPagedObjects, Page, MarkerOf, callVars, histVars
<1>2. MarkerOf \in Nat
  BY PageFacts DEF NoMarker
<1>3. Types'
  BY <1>1, <1>2, JoinedPage DEF Types
<1>4. \A k \in Key : EntryOf(k)' = EntryOf(k)
  BY <1>1 DEF EntryOf
<1>5. Ascending(ret')
  BY <1>1, JoinedPage, JoinAscends DEF Types, PagedInv
<1>6. ASSUME NEW n \in DOMAIN ret', MarkerOf # NoMarker PROVE ret'[n] <= MarkerOf
  <2>1. ret'[n] \in Range(ret) \cup Entries
    BY <1>1, JoinedPage
  <2>2. CASE ret'[n] \in Entries
    BY <1>6, <2>2, PageFacts DEF Entries
  <2>3. CASE ret'[n] \in Range(ret)
    <3>1. PICK m \in DOMAIN ret : ret[m] = ret'[n]
      BY <2>3 DEF Range
    <3>2. ret[m] <= marker /\ ret[m] \in Nat /\ marker \in Nat
      BY <1>1 DEF PagedInv, Types
    <3> QED
      BY <1>2, <1>6, <3>1, <3>2, PageFacts
  <2> QED
    BY <2>1, <2>2, <2>3
<1>7. ASSUME NEW k \in kept, MarkerOf = NoMarker \/ EntryOf(k) <= MarkerOf
      PROVE  Shown(k)'
  <2>1. k \in bucket /\ k \in Key /\ EntryOf(k) \in Nat /\ marker \in Nat
    BY RestFacts DEF Types
  <2>2. CASE EntryOf(k) <= marker
    <3>1. Shown(k)
      BY <1>1, <2>2 DEF PagedInv
    <3>2. EntryOf(k) \in Range(ret) => EntryOf(k) \in Range(ret')
      BY <1>1, JoinedPage
    <3> QED
      BY <1>1, <1>4, <2>1, <3>1, <3>2 DEF Shown
  <2>3. CASE EntryOf(k) > marker
    <3>1. EntryOf(k) \in Rest
      BY <2>1, <2>3 DEF Rest
    <3>2. EntryOf(k) \in Page.entries
      BY <1>7, <3>1, PageFacts
    <3>3. EntryOf(k) \in Entries => EntryOf(k) \in Range(ret')
      BY <1>1, JoinedPage
    <3>4. EntryOf(k) \in Entries \/ (EntryOf(k) = PrefixKey /\ ~recursive)
      BY <3>2 DEF Entries
    <3> QED
      BY <1>1, <1>4, <2>1, <3>3, <3>4 DEF Shown
  <2> QED
    BY <2>1, <2>2, <2>3
<1>8. PagedInv'
  <2>1. CASE MarkerOf = NoMarker
    <3>1. \A k \in kept' : Shown(k)'
      BY <1>1, <1>7, <2>1
    <3> QED
      BY <1>1, <1>5, <2>1, <3>1 DEF PagedInv
  <2>2. CASE MarkerOf # NoMarker
    <3>1. \A k \in kept' : EntryOf(k)' <= marker' => Shown(k)'
      BY <1>1, <1>4, <1>7 DEF Types
    <3>2. \A n \in DOMAIN ret' : ret'[n] <= marker'
      BY <1>1, <1>6, <2>2
    <3> QED
      BY <1>1, <1>5, <2>2, <3>1, <3>2 DEF PagedInv
  <2> QED
    BY <2>1, <2>2
<1>9. DeleteInv'
  BY <1>1 DEF DeleteInv
<1> QED
  BY <1>3, <1>8, <1>9

\* Before the deletion the last request has listed the whole bucket.
LEMMA AllStep ==
  ASSUME ListingInv, GetAllObjects
  PROVE  ListingInv'
<1> USE DEF ListingInv
<1>1. /\ op # "paged" /\ pc = "list"
      /\ ret' = ret \o Listed(Page)
      /\ pc' = IF MarkerOf # NoMarker THEN "list" ELSE IF op = "delete" THEN "delete" ELSE "returned"
      /\ result' = IF MarkerOf = NoMarker /\ op = "all" THEN "nil" ELSE "none"
      /\ UNCHANGED <<bucket, op, recursive, givesMarker, maxCount, marker, todo, changes, kept, old>>
  BY DEF GetAllObjects, Page, MarkerOf, callVars, histVars
<1>2. Types'
  BY <1>1, JoinedPage DEF Types
<1>3. PagedInv'
  BY <1>1 DEF PagedInv
<1>4. ASSUME op = "delete", MarkerOf = NoMarker, NEW k \in bucket
      PROVE  \E n \in todo + 1 .. Len(ret') : ret'[n] = k
  <2>1. recursive = TRUE /\ marker = NoMarker /\ todo = 0
    BY <1>1, <1>4 DEF DeleteInv
  <2>2. k \in Rest
    <3>1. EntryOf(k) = k /\ k \in Nat \ {0}
      BY <2>1, RestFacts DEF EntryOf, Types
    <3> QED
      BY <2>1, <3>1 DEF Rest, NoMarker
  <2>3. k \in Entries
    BY <1>4, <2>1, <2>2, PageFacts DEF Entries
  <2>4. k \in Range(ret')
    BY <1>1, <2>3, JoinedPage
  <2>5. PICK n \in DOMAIN ret' : ret'[n] = k
    BY <2>4 DEF Range
  <2> QED
    BY <1>2, <2>1, <2>5 DEF Types
<1>5. DeleteInv'
  <2> SUFFICES ASSUME op = "delete" PROVE DeleteInv'
    BY <1>1 DEF DeleteInv
  <2>1. recursive = TRUE /\ marker = NoMarker /\ todo = 0
    BY <1>1 DEF DeleteInv
  <2>2. CASE MarkerOf = NoMarker
    BY <1>1, <1>4, <2>1, <2>2 DEF DeleteInv
  <2>3. CASE MarkerOf # NoMarker
    BY <1>1, <2>1, <2>3 DEF DeleteInv
  <2> QED
    BY <2>2, <2>3
<1> QED
  BY <1>2, <1>3, <1>5

\* Deleting and the other clients.
LEMMA OtherSteps ==
  ASSUME ListingInv, ListFails \/ DeleteObject \/ DeleteFails \/ DeleteDone \/ Others
  PROVE  ListingInv'
<1> USE DEF ListingInv
<1> USE DEF callVars, histVars
<1>1. ASSUME kept' \subseteq kept, UNCHANGED <<op, recursive, ret, marker>>
      PROVE  \A k \in kept' : k \in kept /\ (Shown(k) => Shown(k)') /\ EntryOf(k)' = EntryOf(k)
  BY <1>1 DEF Shown, EntryOf
<1>2. CASE ListFails \/ DeleteFails
  <2>1. /\ pc' = "returned" /\ result' = "error"
        /\ UNCHANGED <<bucket, op, recursive, givesMarker, maxCount, marker, ret, todo, changes, kept, old>>
    BY <1>2 DEF ListFails, DeleteFails
  <2>2. Types' /\ PagedInv' /\ DeleteInv'
    BY <2>1 DEF Types, PagedInv, DeleteInv
  <2> QED
    BY <2>2
<1>3. CASE DeleteObject
  <2>1. /\ pc = "delete" /\ todo < Len(ret)
        /\ bucket' = bucket \ {ret[todo + 1]}
        /\ kept' = kept \ {ret[todo + 1]}
        /\ todo' = todo + 1
        /\ UNCHANGED <<op, recursive, givesMarker, maxCount, pc, marker, ret, result, changes, old>>
    BY <1>3 DEF DeleteObject
  <2>2. Len(ret) \in Nat /\ todo \in 0 .. Len(ret)
    BY DEF Types
  <2>3. Types'
    BY <2>1, <2>2 DEF Types
  <2>4. PagedInv'
    BY <2>1 DEF PagedInv
  <2>5. ASSUME op = "delete", NEW k \in bucket' \cap old'
        PROVE  \E n \in todo' + 1 .. Len(ret') : ret'[n] = k
    <3>1. PICK n \in todo + 1 .. Len(ret) : ret[n] = k
      BY <2>1, <2>5 DEF DeleteInv
    <3>2. n # todo + 1
      BY <2>1, <3>1
    <3> QED
      BY <2>1, <2>2, <3>1, <3>2
  <2>6. DeleteInv'
    BY <2>1, <2>5 DEF DeleteInv
  <2> QED
    BY <2>3, <2>4, <2>6
<1>4. CASE DeleteDone
  <2>1. /\ pc = "delete" /\ todo = Len(ret) /\ pc' = "returned" /\ result' = "nil"
        /\ UNCHANGED <<bucket, op, recursive, givesMarker, maxCount, marker, ret, todo, changes, kept, old>>
    BY <1>4 DEF DeleteDone
  <2>2. Len(ret) \in Nat
    BY DEF Types
  <2>3. op = "delete" => bucket \cap old = {}
    BY <2>1, <2>2 DEF DeleteInv
  <2>4. Types' /\ PagedInv' /\ DeleteInv'
    BY <2>1, <2>3 DEF Types, PagedInv, DeleteInv
  <2> QED
    BY <2>4
<1>5. CASE Others
  <2>1. /\ pc # "returned"
        /\ UNCHANGED <<op, recursive, givesMarker, maxCount, pc, marker, ret, todo, result>>
    BY <1>5 DEF Others
  <2>2. /\ bucket' \subseteq Key /\ kept' \subseteq bucket' /\ kept' \subseteq kept
        /\ bucket' \cap old' \subseteq bucket \cap old
    BY <1>5 DEF Others, OtherPuts, OtherDeletes, Types
  <2>3. Types'
    BY <2>1, <2>2 DEF Types
  <2>4. PagedInv'
    BY <1>1, <2>1, <2>2 DEF PagedInv
  <2>5. DeleteInv'
    BY <2>1, <2>2 DEF DeleteInv
  <2> QED
    BY <2>3, <2>4, <2>5
<1> QED
  BY <1>2, <1>3, <1>4, <1>5

-----------------------------------------------------------------------------
(* The theorems.                                                           *)

\* Whatever page size is asked for and whatever others put and delete, what
\* is listed ends at the marker, up to which nothing that stays is missing,
\* and DeletePrefix holds every first object that is still there.
THEOREM ListingInvariant == Spec => []ListingInv
<1>1. Init => ListingInv
  BY ListingAssumption
  DEF Init, ListingInv, Types, PagedInv, DeleteInv, NoMarker, Ascending, EntryOf, Shown
<1>2. ListingInv /\ [Next]_vars => ListingInv'
  <2> SUFFICES ASSUME ListingInv, [Next]_vars PROVE ListingInv'
    OBVIOUS
  <2>1. CASE UNCHANGED vars
    BY <2>1 DEF vars, callVars, histVars, ListingInv, Types, PagedInv, DeleteInv, Shown, EntryOf
  <2>2. CASE Next
    BY <2>2, PagedStep, AllStep, OtherSteps DEF Next, Succeeds, Fails
  <2> QED
    BY <2>1, <2>2
<1> QED
  BY <1>1, <1>2, PTL DEF Spec

\* GetPagedObjects, called with the marker of the page before, never shows an
\* entry twice or out of order, and misses nothing that was there all along.
THEOREM PagingMissesNothing == Spec => []PagesMissNothing
<1>1. ListingInv => PagesMissNothing
  BY DEF ListingInv, PagedInv, PagesMissNothing, Shown
<1> QED
  BY <1>1, ListingInvariant, PTL

\* When DeletePrefix returns nil, what was there at its call is deleted, but
\* for what others have put again, although GetAllObjects repeats its pages.
THEOREM NilMeansDeleted == Spec => []DeletedWhenNil
<1>1. ListingInv => DeletedWhenNil
  BY DEF ListingInv, DeleteInv, DeletedWhenNil
<1> QED
  BY <1>1, ListingInvariant, PTL

=============================================================================
