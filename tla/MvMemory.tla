------------------------------- MODULE MvMemory -------------------------------
(***************************************************************************)
(* The multi-version memory of the parallel executor                       *)
(* (crates/pe/src/mv_memory.rs) and the way the VM database reads it       *)
(* (crates/pe/src/vm.rs, VmDB::basic and VmDB::storage).                   *)
(*                                                                         *)
(* A location holds, for some transactions of the block, an entry: the     *)
(* ESTIMATE marker, or the value one incarnation wrote.  A value is        *)
(* absolute (Basic, Storage, CodeHash), a lazy addition to what the lower  *)
(* transactions left (LazyRecipient), or SelfDestructed; amounts are       *)
(* numbers.  Code hashes have locations and a read rule of their own.      *)
(***************************************************************************)
EXTENDS Block, Locations, Sequences, FiniteSetsExt, Functions

VARIABLES
  data,         \* [Loc -> partial function from transactions to entries]
  locations     \* [transaction -> [read : ReadSet, write : SUBSET Loc]]

mvVars == <<data, locations>>

Estimate == [type |-> "Estimate"]
Data(i, v) == [type |-> "Data", incarnation |-> i, value |-> v]

\* LocationValue
Value(kind, n) == [kind |-> kind, amount |-> n]

\* Read origins: the version of an entry, or the storage.
Version(k, i) == [tx_idx |-> k, tx_incarnation |-> i]
StorageOrigin == Version(-1, 0)

(***************************************************************************)
(* MvMemory::new on the estimates of build_mv_memory: the location of the  *)
(* beneficiary is estimated for every transaction.                         *)
(***************************************************************************)
MvInit(beneficiary) ==
  /\ data = [l \in Loc |-> [k \in IF l = beneficiary THEN Tx ELSE {}
                              |-> Estimate]]
  /\ locations = [k \in Tx |-> [read |-> <<>>, write |-> {}]]

-----------------------------------------------------------------------------
\* range(..t): the lower transactions with an entry at l.
Entries(l, t) == {k \in DOMAIN data[l] : k < t}

\* The place of the entry of k when range(..t) is walked from the end.
Place(l, t, k) == Cardinality({j \in Entries(l, t) : j >= k})

IsLazy(e) == e # Estimate /\ e.value.kind = "Lazy"

(***************************************************************************)
(* The walk of VmDB::basic through the entries below t: lazy updates are   *)
(* added up down to the first absolute value, ESTIMATE or the storage.     *)
(***************************************************************************)
Stop(l, t) ==
  LET stops == {k \in Entries(l, t) : ~IsLazy(data[l][k])}
  IN  IF stops = {} THEN -1 ELSE Max(stops)

Blocked(l, t) == Stop(l, t) >= 0 /\ data[l][Stop(l, t)] = Estimate

Taken(l, t) ==
  {k \in Entries(l, t) : k > Stop(l, t) \/ (k = Stop(l, t) /\ ~Blocked(l, t))}

Nth(l, t, i) == CHOOSE k \in Entries(l, t) : Place(l, t, k) = i

WalkOrigins(l, t) ==
  [i \in 1 .. Cardinality(Taken(l, t)) |->
     Version(Nth(l, t, i), data[l][Nth(l, t, i)].incarnation)]

WalkAmount(l, t) ==
  LET amounts == [i \in 1 .. Cardinality(Taken(l, t)) |->
                    data[l][Nth(l, t, i)].value.amount]
  IN  FoldFunction(LAMBDA n, acc : acc + n,
                   IF Stop(l, t) = -1 THEN storage[l] ELSE 0, amounts)

(***************************************************************************)
(* VmDB::basic and VmDB::storage.  prior is what the same execution read   *)
(* at l before, <<>> on the first read; a read that does not see the same  *)
(* origins again is inconsistent and forces a retry.                       *)
(***************************************************************************)
Agree(found, prior) ==
  DOMAIN found \subseteq DOMAIN prior /\ \A i \in DOMAIN found : found[i] = prior[i]

ReadValue(l, t, prior) ==
  LET found  == WalkOrigins(l, t)
      bottom == Stop(l, t) = -1
      new    == IF bottom THEN Append(found, StorageOrigin) ELSE found
  IN  IF prior # <<>> /\ ~Agree(found, prior)
      THEN [result |-> "InconsistentRead"]
      ELSE IF Blocked(l, t)
      THEN [result |-> "Blocking", on |-> Stop(l, t)]
      ELSE IF prior # <<>> /\ bottom /\ prior # new
      THEN [result |-> "InconsistentRead"]
      ELSE [result |-> "Ok", amount |-> WalkAmount(l, t), origins |-> new]

(***************************************************************************)
(* VmDB::get_code_hash: only the closest entry counts, an ESTIMATE is      *)
(* passed over to the storage, and a self-destructed account falls back.   *)
(***************************************************************************)
ReadCodeHash(l, t, prior) ==
  LET k      == Max(Entries(l, t))
      entry  == data[l][k]
      found  == Entries(l, t) # {} /\ entry # Estimate
      origin == IF found THEN Version(k, entry.incarnation) ELSE StorageOrigin
  IN  IF found /\ entry.value.kind = "SelfDestructed"
      THEN [result |-> "SelfDestructed"]
      ELSE IF prior # <<>> /\ prior[Len(prior)] # origin
      THEN [result |-> "InconsistentRead"]
      ELSE [result |-> "Ok", origins |-> <<origin>>,
            amount |-> IF found THEN entry.value.amount ELSE storage[l]]

Read(l, t, prior) ==
  IF l \in CodeLoc THEN ReadCodeHash(l, t, prior) ELSE ReadValue(l, t, prior)

\* Variant: the incarnations are not compared.
OriginsValidSameTx(l, t, origins) ==
  \A i \in DOMAIN origins :
    IF origins[i] = StorageOrigin
    THEN Cardinality(Entries(l, t)) < i
    ELSE \E k \in Entries(l, t) : /\ Place(l, t, k) = i
                                  /\ data[l][k] # Estimate
                                  /\ origins[i].tx_idx = k

(***************************************************************************)
(* validate_read_locations at one location: the recorded origins are still *)
(* the first entries below t, in order, and StorageOrigin is the end.      *)
(***************************************************************************)
OriginsValid(l, t, origins) ==
  \A i \in DOMAIN origins :
    IF origins[i] = StorageOrigin
    THEN Cardinality(Entries(l, t)) < i
    ELSE \E k \in Entries(l, t) : /\ Place(l, t, k) = i
                                  /\ data[l][k] # Estimate
                                  /\ origins[i] = Version(k, data[l][k].incarnation)

ReadSetValid(t) ==
  \A l \in DOMAIN locations[t].read : OriginsValid(l, t, locations[t].read[l])

-----------------------------------------------------------------------------
(***************************************************************************)
(* The steps of record and convert_writes_to_estimates: each touches one   *)
(* location of data under the map's own lock, while locations[t] is held.  *)
(***************************************************************************)
SetReadSet(t, readSet) == locations' = [locations EXCEPT ![t].read = readSet]

\* Variant: the entry of the previous incarnation stays in data.
RemoveWriteKept(t, l) ==
  /\ UNCHANGED data
  /\ locations' = [locations EXCEPT ![t].write = @ \ {l}]

RemoveWrite(t, l) ==
  /\ data' = [data EXCEPT ![l] = Restrict(@, DOMAIN @ \ {t})]
  /\ locations' = [locations EXCEPT ![t].write = @ \ {l}]

Put(l, t, e) == [data EXCEPT ![l] = [k \in DOMAIN @ \cup {t} |->
                                       IF k = t THEN e ELSE @[k]]]

InsertWrite(t, i, l, v) ==
  /\ data' = Put(l, t, Data(i, v))
  /\ locations' = [locations EXCEPT ![t].write = @ \cup {l}]

MarkEstimate(t, l) ==
  /\ data' = Put(l, t, Estimate)
  /\ UNCHANGED locations

(***************************************************************************)
(* The evaluation at the end of the block: fold the entries of l, lowest   *)
(* first, over the storage value.                                          *)
(***************************************************************************)
Evaluate(l) ==
  MapThenFoldSet(LAMBDA k, acc : (IF IsLazy(data[l][k]) THEN acc ELSE 0)
                                   + data[l][k].value.amount,
                 storage[l], LAMBDA k : k, Max, DOMAIN data[l])

EntriesDefinite == \A l \in Loc : \A k \in DOMAIN data[l] : data[l][k] # Estimate
=============================================================================
