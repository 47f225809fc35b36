------------------------------ MODULE MCPrograms -------------------------------
(***************************************************************************)
(* Five blocks: before the start of LONDON one that creates an account; at *)
(* its start one that destroys one, where a transaction pays less than its *)
(* maximal fee and no log shows it; one that asks for a block hash, where  *)
(* the second transaction of a sender logs what it has left; and two of    *)
(* Prague, with system calls, one with blobs and authorizations and one    *)
(* that logs the random value.  Runs of up to two files of ethertest and   *)
(* eelstest, with jobs that pass, fail, are skipped or return early.       *)
(***************************************************************************)
EXTENDS Programs

MCAccount == {"a", "b", "c", "d"}
MCBefore == [x \in MCAccount |-> IF x = "c" THEN None ELSE [by |-> <<0, 0>>]]

\* A call of caller that has no effect yet.
Call(caller, gas_price, gas_priority_fee, emits) ==
  [caller |-> caller, gas_price |-> gas_price, gas_priority_fee |-> gas_priority_fee,
   blobs |-> FALSE, auths |-> {}, reads |-> {}, writes |-> {}, destroys |-> {}, asks |-> {},
   env |-> {}, emits |-> emits]
London(timestamp, txs) ==
  [timestamp |-> timestamp, mix_hash |-> 1, base_fee |-> 2, blob_fee |-> 0, spec |-> "LONDON",
   system |-> {}, txs |-> txs]

MCChain ==
  (12964999 :> [London(1628166800, <<[Call("a", 5, NoFee, {"sender"}) EXCEPT !.writes = {"c"}],
                                     [Call("a", 5, NoFee, {"reads"}) EXCEPT !.reads = {"b", "c"}]>>)
                  EXCEPT !.base_fee = 0, !.spec = "BERLIN"]) @@
  (12965000 :> London(1628166822, <<[Call("a", 5, 1, {"spec"}) EXCEPT !.destroys = {"b"}],
                                    [Call("d", 5, NoFee, {"reads"}) EXCEPT !.reads = {"b"}]>>)) @@
  (12965001 :> London(1628166835, <<[Call("a", 5, 1, {"hashes"}) EXCEPT !.asks = {1}],
                                    Call("a", 5, 4, {"sender", "price"})>>)) @@
  (22431084 :> [London(1746612311, <<[Call("a", 5, 4, {"reads", "blobs"})
                                        EXCEPT !.blobs = TRUE, !.reads = {"c"}],
                                     [Call("d", 5, 4, {"env", "auths"})
                                        EXCEPT !.auths = {"a"}, !.env = {"blob_fee"}]>>)
                  EXCEPT !.blob_fee = 1, !.spec = "PRAGUE", !.system = {"c"}]) @@
  (22431085 :> [London(1746612323, <<[Call("a", 5, 4, {"env"}) EXCEPT !.env = {"random"}]>>)
                  EXCEPT !.spec = "PRAGUE", !.system = {"c"}])

-----------------------------------------------------------------------------
Case(typed, expect, result, logs_root, accounts, state_root) ==
  [typed |-> typed, expect_exception |-> expect, result |-> result, logs_root |-> logs_root,
   accounts |-> accounts, state_root |-> state_root]
Good == Case(TRUE, FALSE, "success", TRUE, "match", TRUE)
Reverts == Case(TRUE, TRUE, "failure", TRUE, "empty", TRUE)
Rejected == Case(TRUE, TRUE, "error", TRUE, "empty", TRUE)
Unexpected == Case(TRUE, TRUE, "success", TRUE, "match", TRUE)
WrongLogs == Case(TRUE, FALSE, "success", FALSE, "match", TRUE)
WrongAccount == Case(TRUE, FALSE, "success", TRUE, "differ", TRUE)
WrongRoot == Case(TRUE, FALSE, "success", TRUE, "empty", FALSE)
Untyped(expect) == Case(FALSE, expect, "success", TRUE, "match", TRUE)

Fork(suite, name, cases) == [suite |-> suite, spec_name |-> name, cases |-> cases]
EtherFile(skip, parses, forks) == [skip |-> skip, parses |-> parses, jobs |-> forks]

MCForks ==
  {Fork("s", "London", <<Good, Good>>), Fork("s", "Paris", <<Rejected, Reverts>>),
   Fork("s", "Berlin", <<Untyped(TRUE), WrongLogs>>), Fork("t", "Cancun", <<Good, WrongRoot>>),
   Fork("t", "Constantinople", <<Good>>), Fork("s", "Unknown", <<Good>>)}
  \cup {Fork("s", "Osaka", <<c>>) : c \in {Unexpected, WrongAccount, Untyped(FALSE)}}

MCEtherRuns ==
  {<<EtherFile(FALSE, TRUE, <<f, g>>), last>> :
     f \in MCForks, g \in MCForks,
     last \in {EtherFile(FALSE, FALSE, <<>>), EtherFile(TRUE, FALSE, <<>>),
               EtherFile(FALSE, TRUE, <<>>)}}
  \cup {<<EtherFile(FALSE, TRUE, <<Fork("s", "London", <<Good>>), Fork("s", "Paris", <<Good>>),
                                  Fork("t", "Cancun", <<WrongLogs>>)>>)>>}

Chained(network, skip, blocks, executes, post) ==
  [network |-> network, skip |-> skip, blocks |-> blocks, executes |-> executes, post |-> post]

MCChained ==
  {Chained("Cancun", FALSE, <<"valid", "valid">>, TRUE, "match"),
   Chained("Cancun", FALSE, <<"valid", "undecodable">>, TRUE, "match"),
   Chained("Cancun", FALSE, <<"unrecoverable">>, TRUE, "match"),
   Chained("Merge", FALSE, <<"valid">>, FALSE, "match"),
   Chained("Cancun", TRUE, <<"valid">>, FALSE, "match"),
   Chained("Unknown", FALSE, <<"valid">>, TRUE, "match")}
  \cup {Chained("Merge", FALSE, <<>>, TRUE, post) : post \in {"hash", "absent", "none", "differ"}}

MCEelsRuns ==
  {<<[parses |-> TRUE, jobs |-> <<c, d>>], [parses |-> parses, jobs |-> <<>>]>> :
     c \in MCChained, d \in MCChained, parses \in BOOLEAN}
=============================================================================
