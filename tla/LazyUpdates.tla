----------------------------- MODULE LazyUpdates ------------------------------
(***************************************************************************)
(* The values of the multi-version memory that balances and nonces have,   *)
(* and what the two vms and the two executors do with the values of one    *)
(* account (crates/pe/src/vm.rs and executor.rs; op_vm.rs and              *)
(* op_executor.rs repeat them).  A column is what the transactions of a    *)
(* block wrote to one account: a partial function from their indexes.      *)
(***************************************************************************)
EXTENDS I257, Sequences, SequencesExt

Info(b, n) == [balance |-> b, nonce |-> n]
Absent == Info(0, 0)

\* LocationValue
Basic(i) == [kind |-> "Basic", info |-> i]
LazySender(n) == [kind |-> "LazySender", amount |-> n]
LazyRecipient(n) == [kind |-> "LazyRecipient", amount |-> n]

\* The transactions below t in a column, highest first.
Writers(column, t) == SelectSeq([i \in 1 .. t |-> t - i], LAMBDA k : k \in DOMAIN column)

\* VmDB::basic, one lazy update.
Accumulate(acc, v) ==
  IF v.kind = "LazyRecipient"
  THEN [acc EXCEPT !.balance = add(@, From(v.amount))]
  ELSE [balance |-> sub(acc.balance, From(v.amount)), nonce |-> acc.nonce + 1]

(***************************************************************************)
(* VmDB::basic: the lazy updates down to the first absolute value, or down *)
(* to the database, where an account that is not stored exists if the sum  *)
(* counts as positive.  To the interpreter None is an empty account.       *)
(***************************************************************************)
ReadColumn(column, t, is_stored, stored) ==
  LET below    == Writers(column, t)
      basics   == {i \in DOMAIN below : column[below[i]].kind = "Basic"}
      stop     == IF basics = {} THEN 0 ELSE Min(basics)
      lazies   == IF stop = 0 THEN below ELSE SubSeq(below, 1, stop - 1)
      addition == FoldLeft(LAMBDA acc, k : Accumulate(acc, column[k]),
                           [balance |-> NEGATIVE_ZERO, nonce |-> 0], lazies)
      base     == IF stop = 0 THEN stored ELSE column[below[stop]].info
  IN  IF stop > 0 \/ is_stored \/ ~addition.balance.is_negative
      THEN [exists  |-> TRUE,
            balance |-> add(addition.balance, From(base.balance)).value,
            nonce   |-> base.nonce + addition.nonce]
      ELSE [exists |-> FALSE, balance |-> 0, nonce |-> 0]

\* Vm::apply_rewards, one recipient: the write set ws with amount added to a.
Credit(ws, a, amount) ==
  [b \in DOMAIN ws \cup {a} |->
     IF b # a THEN ws[b]
     ELSE IF a \notin DOMAIN ws THEN LazyRecipient(amount)
     ELSE CASE ws[a].kind = "Basic" ->
                 [ws[a] EXCEPT !.info.balance = SaturatingAdd(@, amount)]
            [] ws[a].kind = "LazySender" ->
                 [ws[a] EXCEPT !.amount = SaturatingSub(@, amount)]
            [] ws[a].kind = "LazyRecipient" ->
                 [ws[a] EXCEPT !.amount = SaturatingAdd(@, amount)]]

\* MvMemory::record of a write set, on the columns of all accounts.
RecordWrites(data, t, ws) ==
  [a \in DOMAIN data |->
     IF a \notin DOMAIN ws THEN data[a]
     ELSE [k \in DOMAIN data[a] \cup {t} |-> IF k = t THEN ws[a] ELSE data[a][k]]]

\* The write set of a lazy transfer p that is charged fee for gas.
LazyWrites(p, fee) ==
  [a \in {p.caller, p.to} |->
     IF a = p.caller
     THEN LazySender(IF p.caller = p.to THEN fee ELSE p.value + fee)
     ELSE LazyRecipient(p.value)]

\* The write set of a strict transfer p whose parties were read as c and r.
StrictWrites(p, fee, c, r) ==
  LET paid == c.balance - fee - (IF p.caller = p.to THEN 0 ELSE p.value)
  IN  [a \in {p.caller} \cup (IF p.value > 0 THEN {p.to} ELSE {}) |->
         Basic(IF a = p.caller THEN Info(paid, c.nonce + 1)
               ELSE Info(r.balance + p.value, r.nonce))]

\* Variant: the sender's balance is not checked again.
EvaluateEntryUnchecked(a, p, max_fee, acc, v) ==
  LET info == CASE v.kind = "Basic" -> v.info
                [] v.kind = "LazyRecipient" ->
                     Info(SaturatingAdd(acc.info.balance, v.amount), acc.info.nonce)
                [] v.kind = "LazySender" ->
                     Info(SaturatingSub(acc.info.balance, v.amount), acc.info.nonce + 1)
  IN  [info |-> info,
       ok   |-> acc.ok /\ (p.caller = a => p.nonce = info.nonce - 1)]

(***************************************************************************)
(* The evaluation of the entry v of transaction p at a lazy address a: a   *)
(* lazy sender must be able to pay its maximal fee, and the nonce of a     *)
(* caller must be the one of its transaction.                              *)
(***************************************************************************)
EvaluateEntry(a, p, max_fee, acc, v) ==
  LET info == CASE v.kind = "Basic" -> v.info
                [] v.kind = "LazyRecipient" ->
                     Info(SaturatingAdd(acc.info.balance, v.amount), acc.info.nonce)
                [] v.kind = "LazySender" ->
                     Info(SaturatingSub(acc.info.balance, v.amount), acc.info.nonce + 1)
  IN  [info |-> info,
       ok   |-> /\ acc.ok
                /\ v.kind = "LazySender" => acc.info.balance >= p.value + max_fee
                /\ p.caller = a => p.nonce = info.nonce - 1]

\* The account a after transaction t, evaluated from the bottom of the block.
EvaluateColumn(a, txs, max_fee, column, t, stored) ==
  FoldLeft(LAMBDA acc, k : EvaluateEntry(a, txs[k], max_fee, acc, column[k]),
           [info |-> stored, ok |-> TRUE], Reverse(Writers(column, t + 1)))
=============================================================================
