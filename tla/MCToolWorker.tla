---------------------------- MODULE MCToolWorker ----------------------------
(* Instances of ToolWorker for TLC: a main chat and a background task, two  *)
(* tools, calls that may or may not find a connection that serves them.    *)
EXTENDS ToolWorker, TLC

CONSTANTS main, task, c1, c2, c3, f, g

MCInstances  == {main, task}
MCBackground == {task}
MCNames      == {f, g}

\* Two calls compete for the same function.
MCNameOf2 == c1 :> f @@ c2 :> f
=============================================================================
