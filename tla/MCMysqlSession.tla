--------------------------- MODULE MCMysqlSession ---------------------------
(* A TLC instance of MysqlSession: a request that can start a transaction, *)
(* run two statements in it and end it, or take both connections and want  *)
(* a third, and a request that contends with it for the pool.              *)
EXTENDS MysqlSession

CONSTANTS r1, r2

MCRequests == {r1, r2}
MCMaxCalls == [r \in MCRequests |-> IF r = r1 THEN 4 ELSE 1]
=============================================================================
