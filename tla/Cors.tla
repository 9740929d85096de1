-------------------------------- MODULE Cors --------------------------------
(***************************************************************************)
(* SetBucketCORS and DeleteBucketCORS of cloudprovider/objectstore.go: the *)
(* rules of a bucket are read, changed by their positions and written back *)
(* as a whole, by several clients at once.                                 *)
(*                                                                         *)
(* The Id of a rule is the text of its position, from 0.  A text that is   *)
(* not a number is treated as a position past the end is.                  *)
(***************************************************************************)
EXTENDS Lists

CONSTANTS
  Callers,
  Rules,       \* what a rule may be
  Ids,         \* the positions that callers name
  MaxOld,      \* bound: the number of rules in the bucket at first
  MaxGiven     \* bound: the number of rules or ids in one call

ASSUME CorsAssumption ==
  /\ IsFiniteSet(Callers)
  /\ Ids \subseteq Int
  /\ {MaxOld, MaxGiven} \subseteq Nat

UpTo(S, n) == UNION {[1 .. k -> S] : k \in 0 .. n}

VARIABLES
  bucket,      \* the rules in the bucket
  cpc,         \* cpc[c]: where c is
  op,          \* op[c]: SetBucketCORS or DeleteBucketCORS
  given,       \* given[c]: the parameter: Ids, and rules if they are set
  oldRules,    \* oldRules[c]: what GetCORSRules has returned
  result,      \* result[c]: what c has returned
  disturbed    \* history: others have written between c's read and its write

corsVars == <<bucket, cpc, op, given, oldRules, result, disturbed>>

CorsInit ==
  /\ bucket \in UpTo(Rules, MaxOld)
  /\ cpc = [c \in Callers |-> "get"]
  /\ op \in [Callers -> {"set", "delete"}]
  /\ given \in [Callers -> UpTo([id : Ids, rule : Rules], MaxGiven) \ {<< >>}]
  /\ \A c \in Callers : op[c] = "delete" =>
       \A j \in DOMAIN given[c] : given[c][j].rule = CHOOSE r \in Rules : TRUE
  /\ oldRules = [c \in Callers |-> << >>]
  /\ result = [c \in Callers |-> "none"]
  /\ disturbed = [c \in Callers |-> FALSE]

-----------------------------------------------------------------------------
\* err == nil && index < len(oldRules)
IsIndex(id, old) == id < Len(old)

\* Mutant: positions are counted from 1.
ForFromOne(k, old, g) == {j \in DOMAIN g : IsIndex(g[j].id, old) /\ g[j].id = k}

\* The given rules for the position k (from 1): the last one wins.
For(k, old, g) == {j \in DOMAIN g : IsIndex(g[j].id, old) /\ g[j].id = k - 1}

Updated(old, g) ==
  LET new == Chosen(g, {j \in DOMAIN g : ~IsIndex(g[j].id, old)})
  IN [k \in 1 .. Len(old) |->
        IF For(k, old, g) = {} THEN old[k]
        ELSE g[CHOOSE j \in For(k, old, g) : \A m \in For(k, old, g) : m <= j].rule]
     \o [j \in DOMAIN new |-> new[j].rule]

\* The rules at the positions that are not in excludeMap.
Left(old, g) == Chosen(old, {k \in DOMAIN old : For(k, old, g) = {}})

\* Mutant: rules that cannot be read are taken for none.
GetCORSRulesOrNone(c) ==
  /\ cpc[c] = "get"
  /\ \E r \in {bucket, << >>} : oldRules' = [oldRules EXCEPT ![c] = r]
  /\ cpc' = [cpc EXCEPT ![c] = "put"]
  /\ UNCHANGED <<bucket, op, given, result, disturbed>>

GetCORSRules(c) ==
  /\ cpc[c] = "get"
  /\ oldRules' = [oldRules EXCEPT ![c] = bucket]
  /\ IF op[c] = "delete" /\ \A j \in DOMAIN given[c] : ~IsIndex(given[c][j].id, bucket)
     THEN cpc' = [cpc EXCEPT ![c] = "done"] /\ result' = [result EXCEPT ![c] = "nothing"]
     ELSE cpc' = [cpc EXCEPT ![c] = "put"] /\ UNCHANGED result
  /\ UNCHANGED <<bucket, op, given, disturbed>>

\* The list to write.
ToWrite(c) ==
  IF op[c] = "set" THEN Updated(oldRules[c], given[c]) ELSE Left(oldRules[c], given[c])

\* SetCORS or DeleteCORS, which have the same effect on an empty list.
Write(c) ==
  /\ cpc[c] = "put"
  /\ bucket' = ToWrite(c)
  /\ disturbed' = [d \in Callers |-> disturbed[d] \/ (d # c /\ cpc[d] = "put")]
  /\ \E r \in {"nil", "error"} : result' = [result EXCEPT ![c] = r]
  /\ cpc' = [cpc EXCEPT ![c] = "done"]
  /\ UNCHANGED <<op, given, oldRules>>

\* Either call fails without effect.
CorsFails(c) ==
  /\ cpc[c] \in {"get", "put"}
  /\ result' = [result EXCEPT ![c] = "error"]
  /\ cpc' = [cpc EXCEPT ![c] = "done"]
  /\ UNCHANGED <<bucket, op, given, oldRules, disturbed>>

CorsStep(c) == GetCORSRules(c) \/ Write(c) \/ CorsFails(c)

-----------------------------------------------------------------------------
Names(c, k) == \E j \in DOMAIN given[c] : given[c][j].id = k - 1
Kept(c) == {k \in DOMAIN bucket : ~Names(c, k)}

\* The rules at other positions stay, a rule with a position is there
\* afterwards unless a later one names the same, all others are appended.
\* (A rule with a negative position is neither: SetBucketCORS drops it.)
SetAsNamed(c) ==
  LET old == DOMAIN bucket
      new == DOMAIN bucket'
  IN  /\ \A k \in Kept(c) : bucket'[k] = bucket[k]
      /\ \A j \in DOMAIN given[c] :
           \/ given[c][j].id < 0
           \/ /\ given[c][j].id + 1 \in old
              /\ \/ bucket'[given[c][j].id + 1] = given[c][j].rule
                 \/ \E m \in DOMAIN given[c] : m > j /\ given[c][m].id = given[c][j].id
           \/ /\ given[c][j].id + 1 \notin old
              /\ \E k \in new \ old : bucket'[k] = given[c][j].rule
      /\ Cardinality(new \ old)
           = Cardinality({j \in DOMAIN given[c] : given[c][j].id + 1 > Len(bucket)})

\* Exactly the rest is left, in its order.
DeletedAsNamed(c) ==
  /\ Cardinality(DOMAIN bucket') = Cardinality(Kept(c))
  /\ \A k \in Kept(c) : bucket'[Cardinality({m \in Kept(c) : m <= k})] = bucket[k]

\* Who is not disturbed changes what the caller has named and nothing else,
\* with SetBucketCORS as with DeleteBucketCORS.
ChangesWhatIsNamed ==
  [][\A c \in Callers : cpc[c] = "put" /\ bucket = oldRules[c] /\ result'[c] = "nil" =>
       IF op[c] = "set" THEN SetAsNamed(c) ELSE DeletedAsNamed(c)]_<<bucket, result>>

\* A new rule whose writing was reported as a success stays, as long as the
\* others only add rules too and nobody writes what he has read before
\* another has written: what is lost is lost to overlapping calls.
OnlyOverlapsLose ==
  (\A c \in Callers : ~disturbed[c] /\ op[c] = "set"
                       /\ \A j \in DOMAIN given[c] : given[c][j].id >= MaxOld + Cardinality(Callers) * MaxGiven) =>
    \A c \in Callers : result[c] = "nil" =>
      \A j \in DOMAIN given[c] : \E k \in DOMAIN bucket : bucket[k] = given[c][j].rule

=============================================================================
