------------------------------ MODULE Listing ------------------------------
(***************************************************************************)
(* The listings of cloudprovider/objectstore.go: GetPagedObjects, called   *)
(* page by page with the marker that it returned, GetAllObjects, and       *)
(* DeletePrefix, which deletes what GetAllObjects has listed.  Other       *)
(* clients put and delete objects between the requests.  A key is a number *)
(* in the order of the strings; only keys with the requested prefix count. *)
(***************************************************************************)
EXTENDS Lists, SequencesExt

CONSTANTS
  Key,          \* the keys that objects may have
  Folder,       \* the common prefix of a key up to the delimiter, or the key itself
  PrefixKey,    \* the key that is the requested prefix itself (a directory), or 0
  MaxCounts,    \* what a caller may pass as maxCount
  Limit,        \* the most objects that one request returns: 1000 in the code
  MaxChanges,   \* bound: how many changes the other clients make
  MaxListed,    \* bound: after how many objects no further page is requested
  Operations    \* the functions that are called

NoMarker == 0

ASSUME ListingAssumption ==
  /\ Key \subseteq Nat \ {NoMarker} /\ IsFiniteSet(Key)
  /\ \A k \in Key : Folder[k] = k \/ Folder[k] \in (1 .. k - 1) \ Key
  /\ Limit \in Nat \ {0} /\ MaxCounts \subseteq Int
  /\ Operations \subseteq {"paged", "all", "delete"}

VARIABLES
  bucket,       \* the keys of the objects in the bucket
  op,           \* the function that was called
  recursive,    \* isRecursive
  givesMarker,  \* does the bucket give a NextMarker without a delimiter
  maxCount,     \* the parameter of GetPagedObjects
  pc,           \* where the function is
  marker,       \* where the next page begins
  ret,          \* what has been listed so far
  todo,         \* DeletePrefix: how many of them have been deleted
  result,       \* what the function returned
  changes,      \* how many changes the other clients have made
  kept,         \* history: keys that have been there from the beginning
  old           \* history: keys that nobody has put since the beginning

callVars == <<op, recursive, givesMarker, maxCount>>
histVars == <<changes, kept, old>>
vars == <<bucket, callVars, pc, marker, ret, todo, result, histVars>>

Entry == Key \cup {Folder[k] : k \in Key}

ListingTypeOK ==
  /\ bucket \subseteq Key
  /\ op \in Operations
  /\ recursive \in BOOLEAN
  /\ givesMarker \in BOOLEAN
  /\ pc \in {"list", "delete", "returned"}
  /\ marker \in Entry \cup {NoMarker}
  /\ ret \in Seq(Entry)
  /\ todo \in 0 .. Len(ret)
  /\ result \in {"none", "nil", "error"}
  /\ changes \in 0 .. MaxChanges
  /\ kept \subseteq bucket
  /\ old \subseteq Key

Init ==
  /\ bucket \in SUBSET Key
  /\ op \in Operations
  /\ recursive \in BOOLEAN
  /\ op = "delete" => recursive
  /\ givesMarker \in BOOLEAN
  /\ maxCount \in IF op = "paged" THEN MaxCounts ELSE {Limit}
  /\ pc = "list"
  /\ marker = NoMarker
  /\ ret = << >>
  /\ todo = 0
  /\ result = "none"
  /\ changes = 0
  /\ kept = bucket
  /\ old = bucket

-----------------------------------------------------------------------------
(* bucket.ListObjects: the first entries after the marker.                 *)

EntryOf(k) == IF recursive THEN k ELSE Folder[k]

FirstOf(entries, n) ==
  {e \in entries : Cardinality({f \in entries : f <= e}) <= n}

ListObjects(after, n) ==
  LET rest == {e \in {EntryOf(k) : k \in bucket} : e > after}
      page == FirstOf(rest, n)
  IN [entries     |-> page,
      isTruncated |-> page # rest,
      nextMarker  |-> IF page # rest /\ (givesMarker \/ ~recursive)
                      THEN Max(page) ELSE NoMarker]

-----------------------------------------------------------------------------
(* GetPagedObjects.                                                        *)

\* At most Limit objects, and Limit when the caller does not say.
ClampCount(n) == IF n > Limit \/ n <= 0 THEN Limit ELSE n

\* In the order of the keys, and without the directory's own object.
Listed(page) == Sorted({e \in page.entries : recursive \/ e # PrefixKey})

\* Mutant: the marker that the bucket tells is overlooked.
MarkerAfterLastObject(after, page) ==
  LET objects == {e \in page.entries \cap Key : recursive \/ e # PrefixKey}
  IN IF ~page.isTruncated THEN NoMarker
     ELSE IF objects = {} THEN after ELSE Max(objects)

\* Mutant: it is kept after the last page.
MarkerAfterKept(after, page) ==
  IF page.entries = {} THEN after ELSE Max(page.entries)

\* The last object, unless the bucket tells a marker; none after the last page.
MarkerAfter(after, page) ==
  LET objects == {e \in page.entries \cap Key : recursive \/ e # PrefixKey}
  IN IF ~page.isTruncated THEN NoMarker
     ELSE IF page.nextMarker # NoMarker THEN page.nextMarker
     ELSE IF objects = {} THEN after ELSE Max(objects)

\* One call, by a caller that goes on with the marker of the page before.
GetPagedObjects ==
  /\ op = "paged"
  /\ pc = "list"
  /\ LET page == ListObjects(marker, ClampCount(maxCount))
     IN /\ ret' = ret \o Listed(page)
        /\ marker' = MarkerAfter(marker, page)
  /\ pc' = IF marker' = NoMarker THEN "returned" ELSE "list"
  /\ result' = IF marker' = NoMarker THEN "nil" ELSE "none"
  /\ UNCHANGED <<bucket, callVars, todo, histVars>>

-----------------------------------------------------------------------------
(* GetAllObjects and DeletePrefix.                                         *)

\* The marker that the loop assigns is a new variable of its body, so that
\* every request is made with the empty marker of the one outside.
GetAllObjects ==
  /\ op # "paged"
  /\ pc = "list"
  /\ Len(ret) <= MaxListed
  /\ LET page == ListObjects(marker, ClampCount(maxCount))
         last == MarkerAfter(marker, page) = NoMarker
     IN /\ ret' = ret \o Listed(page)
        /\ pc' = IF ~last THEN "list" ELSE IF op = "delete" THEN "delete" ELSE "returned"
        /\ result' = IF last /\ op = "all" THEN "nil" ELSE "none"
  /\ UNCHANGED <<bucket, callVars, marker, todo, histVars>>

ListFails ==
  /\ pc = "list"
  /\ pc' = "returned"
  /\ result' = "error"
  /\ UNCHANGED <<bucket, callVars, marker, ret, todo, histVars>>

\* bucket.DeleteObject of the next key, which may have been deleted already.
DeleteObject ==
  /\ pc = "delete"
  /\ todo < Len(ret)
  /\ bucket' = bucket \ {ret[todo + 1]}
  /\ kept' = kept \ {ret[todo + 1]}
  /\ todo' = todo + 1
  /\ UNCHANGED <<callVars, pc, marker, ret, result, changes, old>>

\* Mutant: the loop goes on after an error.
DeleteFailsGoesOn ==
  /\ pc = "delete"
  /\ todo < Len(ret)
  /\ todo' = todo + 1
  /\ UNCHANGED <<bucket, callVars, pc, marker, ret, result, histVars>>

DeleteFails ==
  /\ pc = "delete"
  /\ todo < Len(ret)
  /\ pc' = "returned"
  /\ result' = "error"
  /\ UNCHANGED <<bucket, callVars, marker, ret, todo, histVars>>

DeleteDone ==
  /\ pc = "delete"
  /\ todo = Len(ret)
  /\ pc' = "returned"
  /\ result' = "nil"
  /\ UNCHANGED <<bucket, callVars, marker, ret, todo, histVars>>

Succeeds == GetPagedObjects \/ GetAllObjects \/ DeleteObject \/ DeleteDone
Fails    == ListFails \/ DeleteFails

-----------------------------------------------------------------------------
(* The other clients of the bucket.                                        *)

OtherPuts(k) ==
  /\ bucket' = bucket \cup {k}
  /\ old' = old \ {k}
  /\ UNCHANGED kept

OtherDeletes(k) ==
  /\ bucket' = bucket \ {k}
  /\ kept' = kept \ {k}
  /\ UNCHANGED old

Others ==
  /\ pc # "returned"
  /\ changes < MaxChanges
  /\ changes' = changes + 1
  /\ \E k \in Key : OtherPuts(k) \/ OtherDeletes(k)
  /\ UNCHANGED <<callVars, pc, marker, ret, todo, result>>

Next == Succeeds \/ Fails \/ Others

\* The calls of the bucket return; none of them has to fail.
Spec == Init /\ [][Next]_vars /\ WF_vars(Succeeds)

-----------------------------------------------------------------------------
(* What makes the listings correct.                                        *)

\* Paging never shows an entry twice or out of order, and when it ends every
\* object (or its folder) that was there all the time has been shown,
\* whatever others put and delete meanwhile: also the object that the marker
\* names.
PagesMissNothing ==
  op = "paged" =>
    /\ Ascending(ret)
    /\ result = "nil" =>
         \A k \in kept : EntryOf(k) \in Range(ret) \/ (EntryOf(k) = PrefixKey /\ ~recursive)

\* Paging ends: a page with nothing but common prefixes, or with nothing but
\* the skipped directory, does not make the caller ask for it again.
PagingEnds == op = "paged" ~> pc = "returned"

\* When DeletePrefix returns nil, the objects that were there when it was
\* called are gone, but for those that others have put again.
DeletedWhenNil == op = "delete" /\ result = "nil" => bucket \cap old = {}

\* objectstore.go:443: GetAllObjects saves the marker for the next request:
\* the next page is another one.
EachObjectOnce == op = "all" => Ascending(ret)

=============================================================================
