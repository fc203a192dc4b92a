--------------------------- MODULE MCTrxEmulation ---------------------------
(* TLC instances of TrxEmulation: texts of up to MaxStmts statements, with *)
(* and without mysql.auto_rollback_tx_on_error.                            *)
EXTENDS TrxEmulation

(* States that differ only in what no later step and no property looks at  *)
(* are one state: multi outside exec_simple_query's loop, and which of the *)
(* kinds of command it was that the properties do not tell apart.          *)
MCView ==
    <<autoRollback, autoCommit, flags, needAdd, block, savepoint, phase, text,
      answered, seen,
      IF phase = "exec" THEN multi ELSE 0,
      IF cmd \in {"none", "close", "comment"} \/ (cmd = "inject" /\ phase # "idle")
      THEN cmd ELSE "plain">>
=============================================================================
