--------------------------- MODULE MCVectorSpaces ---------------------------
EXTENDS VectorSpaces, TLC

(* A request and a worker of the application, and the command line.         *)
MCTasks == {"request", "worker", "cli"}

MCProc == [t \in MCTasks |-> IF t = "cli" THEN "cli" ELSE "app"]

(* The request drops nothing: that the command line does is enough.         *)
MCMayRun ==
    [t \in MCTasks |->
        CASE t = "worker"  -> {"index"}
          [] t = "request" -> {"build", "activate", "retire"}
          [] t = "cli"     -> {"build", "activate", "retire", "drop"}]
=============================================================================
