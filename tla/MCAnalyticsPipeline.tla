------------------------ MODULE MCAnalyticsPipeline ------------------------
(* Small instances of AnalyticsPipeline for TLC. *)
EXTENDS AnalyticsPipeline

CONSTANTS e1, e2, e3, t1, t2, web, worker1, worker2, w1, w2, f1, f2

\* Two web threads in one process, flushers in two worker processes, two tables.
MCTableSeq == <<t1, t2>>
MCTableOf == [e \in Events |-> IF e = e3 THEN t2 ELSE t1]
MCProcOf == w1 :> web @@ w2 :> web @@ f1 :> worker1 @@ f2 :> worker2

\* With TASKS_BACKEND=immediate flush_analytics_task runs in a web process.
ImmediateProcOf == w1 :> web @@ w2 :> web @@ f1 :> web @@ f2 :> worker1

\* The web threads, and the two events of the first table, are interchangeable.
WebSymmetry == Permutations({w1, w2}) \cup Permutations({e1, e2})

\* One table, one web thread and one worker.
OneTableSeq == <<t1>>
OneTableOf == [e \in Events |-> t1]
OneWorkerProcOf == w1 :> web @@ f1 :> worker1

=============================================================================
