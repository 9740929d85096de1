------------------------------ MODULE DnsSync ------------------------------
(***************************************************************************)
(* A zone of DNS records is brought into line with a list of records:      *)
(* CompareDnsRecordSet of cloudprovider/dnszone.go, then SyncDnsRecordSets *)
(* of a zone (aliyun's private_zone and dns_domain, qcloud's dnspod, aws's *)
(* hosted zone), call by call.  Calls fail, with or without effect, and    *)
(* other clients change records meanwhile.  A caller whose sync has failed *)
(* compares and syncs again.                                               *)
(*                                                                         *)
(* A record is known by its String() (type, name, value, policy) and has a *)
(* TTL and a status; the latter two decide Equals.  Records have no Desc,  *)
(* for which dns_domain would make one more call, one value each, and TTLs *)
(* that dnspod takes as they are (600 to 604800).                          *)
(***************************************************************************)
EXTENDS Integers, FiniteSets, Functions

CONSTANTS
  Keys,          \* what String() may be
  Ttls,          \* what a TTL may be
  MaxFailures,   \* bound: how many calls fail
  MaxMeddles     \* bound: how many changes others make

ASSUME DnsAssumption == MaxFailures \in Nat /\ MaxMeddles \in Nat

Attr == [ttl : Ttls, enabled : BOOLEAN]
RecordSets == UNION {[K -> Attr] : K \in SUBSET Keys}
Zones == {"private_zone", "dns_domain", "dnspod", "route53"}

VARIABLES
  zone,       \* which SyncDnsRecordSets it is
  local,      \* local[k]: the record that is wanted
  remote,     \* remote[k]: the record in the cloud
  before,     \* history: the records that were there at first
  dpc,        \* where the sync is
  seen,       \* what GetIDnsRecordSets has returned
  del, add, update,   \* what CompareDnsRecordSet has returned, without what is done
  key,        \* the record between two calls
  outcome,    \* what SyncDnsRecordSets has returned
  failures, meddles

dnsVars ==
  <<zone, local, remote, before, dpc, seen, del, add, update, key, outcome, failures, meddles>>

DnsTypeOK ==
  /\ local \in RecordSets /\ remote \in RecordSets /\ seen \in RecordSets
  /\ del \subseteq Keys \ DOMAIN local
  /\ add \cup update \subseteq DOMAIN local
  /\ add \cap update = {}
  /\ outcome \in {"none", "nil", "error"}
  /\ failures \in 0 .. MaxFailures /\ meddles \in 0 .. MaxMeddles

DnsInit ==
  /\ zone \in Zones
  /\ local \in RecordSets
  /\ remote \in RecordSets
  /\ zone = "route53" => \A k \in DOMAIN remote : remote[k].enabled
  /\ before = remote
  /\ dpc = "compare"
  /\ seen = << >>
  /\ del = {} /\ add = {} /\ update = {}
  /\ key \in Keys /\ key = CHOOSE k \in Keys : TRUE
  /\ outcome = "none"
  /\ failures = 0 /\ meddles = 0

-----------------------------------------------------------------------------
\* Mutant: the list of the first try is used again.
CompareDnsRecordSetStale ==
  /\ dpc = "compare"
  /\ seen' = before
  /\ del' = DOMAIN seen' \ DOMAIN local
  /\ add' = DOMAIN local \ DOMAIN seen'
  /\ update' = {k \in DOMAIN local \cap DOMAIN seen' : local[k] # seen'[k]}
  /\ dpc' = "sync"
  /\ UNCHANGED <<zone, local, remote, before, key, outcome, failures, meddles>>

\* Mutant: a record that is not wanted is left alone.
CompareDnsRecordSetKeeps ==
  /\ dpc = "compare"
  /\ seen' = remote
  /\ del' = {}
  /\ add' = DOMAIN local \ DOMAIN remote
  /\ update' = {k \in DOMAIN local \cap DOMAIN remote : local[k] # remote[k]}
  /\ dpc' = "sync"
  /\ UNCHANGED <<zone, local, remote, before, key, outcome, failures, meddles>>

\* GetIDnsRecordSets and CompareDnsRecordSet.
CompareDnsRecordSet ==
  /\ dpc = "compare"
  /\ seen' = remote
  /\ del' = DOMAIN remote \ DOMAIN local
  /\ add' = DOMAIN local \ DOMAIN remote
  /\ update' = {k \in DOMAIN local \cap DOMAIN remote : local[k] # remote[k]}
  /\ dpc' = "sync"
  /\ UNCHANGED <<zone, local, remote, before, key, outcome, failures, meddles>>

\* SyncDnsRecordSets ends with an error, and the caller begins again.
GiveUp ==
  /\ dpc' = "compare"
  /\ outcome' = "error"
  /\ UNCHANGED <<zone, local, before, seen, del, add, update, key, meddles>>

\* A call that leads to the records r: it succeeds, or fails with or without
\* effect; the cloud refuses it unless ok.
Call(ok, r, Then) ==
  \/ ok /\ remote' = r /\ Then
        /\ UNCHANGED <<zone, local, before, seen, outcome, failures, meddles>>
  \/ ok /\ failures < MaxFailures /\ remote' \in {remote, r}
        /\ failures' = failures + 1 /\ GiveUp
  \/ ~ok /\ UNCHANGED <<remote, failures>> /\ GiveUp

Without(f, k) == Restrict(f, DOMAIN f \ {k})
With(f, k, a) == [x \in DOMAIN f \cup {k} |-> IF x = k THEN a ELSE f[x]]

\* aws looks for the record first: if it is gone, or has another TTL by now,
\* nothing is deleted, and nobody hears of it.
Delete(k) ==
  /\ dpc = "sync" /\ k \in del
  /\ LET found == k \in DOMAIN remote /\ (zone = "route53" => remote[k].ttl = seen[k].ttl)
     IN Call(found \/ zone = "route53",
             IF found THEN Without(remote, k) ELSE remote,
             del' = del \ {k} /\ UNCHANGED <<dpc, add, update, key>>)

TwoSteps == {"private_zone", "dns_domain"}

\* What the call that creates the record makes of it: aliyun has a second
\* call for the status, aws no status at all.
Created(a) == IF zone = "dnspod" THEN a ELSE [a EXCEPT !.enabled = TRUE]

Add(k) ==
  /\ dpc = "sync" /\ del = {} /\ k \in add
  /\ Call(k \notin DOMAIN remote, With(remote, k, Created(local[k])),
          /\ dpc' = IF zone \in TwoSteps /\ ~local[k].enabled THEN "disable" ELSE "sync"
          /\ key' = k
          /\ add' = add \ {k}
          /\ UNCHANGED <<del, update>>)

Disable ==
  /\ dpc = "disable"
  /\ Call(key \in DOMAIN remote,
          [remote EXCEPT ![key].enabled = FALSE],
          dpc' = "sync" /\ UNCHANGED <<del, add, update, key>>)

\* update[i] is the record of the cloud, with the Id of the local one: what
\* is written is what was seen (dnszone.go:680).
Update(k) ==
  /\ dpc = "sync" /\ del = {} /\ add = {} /\ k \in update
  /\ IF zone \in TwoSteps
     THEN Call(k \in DOMAIN remote,
               [remote EXCEPT ![k].enabled = seen[k].enabled],
               dpc' = "update" /\ key' = k /\ UNCHANGED <<del, add, update>>)
     ELSE Call(k \in DOMAIN remote \/ zone = "route53",
               With(remote, k, seen[k]),
               update' = update \ {k} /\ UNCHANGED <<dpc, del, add, key>>)

\* dns_domain leaves the call out if there is nothing to change.
UpdateRecord ==
  /\ dpc = "update"
  /\ Call(key \in DOMAIN remote,
          [remote EXCEPT ![key].ttl = seen[key].ttl],
          dpc' = "sync" /\ update' = update \ {key} /\ UNCHANGED <<del, add, key>>)

Synced ==
  /\ dpc = "sync" /\ del = {} /\ add = {} /\ update = {}
  /\ dpc' = "done"
  /\ outcome' = "nil"
  /\ UNCHANGED <<zone, local, remote, before, seen, del, add, update, key, failures, meddles>>

SyncStep ==
  \/ CompareDnsRecordSet \/ Disable \/ UpdateRecord \/ Synced
  \/ \E k \in Keys : Delete(k) \/ Add(k) \/ Update(k)

MeddleRecords ==
  /\ dpc \notin {"off", "done"}
  /\ meddles < MaxMeddles
  /\ \E k \in Keys, a \in Attr : remote' \in {Without(remote, k), With(remote, k, a)}
  /\ zone = "route53" => \A k \in DOMAIN remote' : remote'[k].enabled
  /\ meddles' = meddles + 1
  /\ UNCHANGED <<zone, local, before, dpc, seen, del, add, update, key, outcome, failures>>

-----------------------------------------------------------------------------
\* When a sync returns nil and nobody else has touched the zone, the wanted
\* records are there and no others, however many tries have failed halfway;
\* new records are as wanted, and those that were found keep their TTL and
\* status, also when they differ from the wanted ones.
SyncedWhenNil ==
  outcome = "nil" /\ meddles = 0 =>
    remote = [k \in DOMAIN local |->
                IF k \in DOMAIN seen THEN seen[k]
                ELSE IF zone = "route53" THEN Created(local[k]) ELSE local[k]]

\* A caller that tries again has success in the end, if not every call
\* fails and others leave the zone alone at last.
EventuallySynced == dpc = "compare" ~> outcome = "nil"

=============================================================================
