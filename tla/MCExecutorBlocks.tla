--------------------------- MODULE MCExecutorBlocks ---------------------------
(***************************************************************************)
(* Instances of ExecutorBlocks.tla for TLC: two stored accounts, rich and  *)
(* ben, two accounts that do not exist before a block and can spend what   *)
(* they are sent in it, and the address of a contract that is created and  *)
(* destroyed.                                                              *)
(***************************************************************************)
EXTENDS ExecutorBlocks, TLC

CONSTANTS rich, ben, new1, new2, gone

MCAccount == {rich, ben, new1, new2, gone}

MCdb == (rich :> Info(9, 0)) @@ (ben :> Info(3, 0))

\* All blocks of three transfers whose first carries nonce 0, that of every account.
Transfer ==
  [kind : {"call"}, caller : {rich, ben, new1}, to : {rich, ben, new1, new2},
   value : {0, 4}, nonce : {0, 1}]
TransferBlocks ==
  {[beneficiary |-> ben, txs |-> b] : b \in {b \in [0 .. 2 -> Transfer] : b[0].nonce = 0}}

\* Blocks of one to three transactions, nonces in the order of their senders'.
Tr(kind, from, to, value) == [kind |-> kind, caller |-> from, to |-> to, value |-> value]
Calls == {Tr("call", rich, new1, 4), Tr("call", ben, new2, 0), Tr("call", new1, gone, 0)}
Others == {Tr("create", rich, gone, 0), Tr("untyped", rich, new1, 4)}

Numbered(s) ==
  [t \in 0 .. Len(s) - 1 |->
     s[t + 1] @@ [nonce |-> Cardinality({k \in 1 .. t : s[k].caller = s[t + 1].caller})]]

MixedBlocks ==
  {[beneficiary |-> b, txs |-> Numbered(s)] : b \in {ben, new2}, s \in
     {<<c>> : c \in Calls \cup Others}
       \cup {<<c, d>> : c, d \in Calls \cup Others}
       \cup {<<c, d, e>> : c, d \in Calls \cup Others, e \in Calls}}

\* Every transfer is tried on a new executor, the mixed blocks after any other.
MCBlocks(n) == IF n = 1 THEN TransferBlocks \cup MixedBlocks ELSE MixedBlocks
=============================================================================
