-------------------------- MODULE MCFolderTransfer --------------------------
(* Instances of FolderTransfer for TLC. *)
EXTENDS FolderTransfer

CONSTANTS Losses, Kills, Crashes, SourceErrors, Rejects, Reruns

MCMaxFaults ==
    [d \in Disturbance |->
        CASE d = "loss"   -> Losses
          [] d = "kill"   -> Kills
          [] d = "crash"  -> Crashes
          [] d = "source" -> SourceErrors
          [] d = "reject" -> Rejects
          [] d = "rerun"  -> Reruns]

\* An empty file, a two-chunk file and a one-chunk file.
ThreeFiles == [f \in 0 .. 2 |-> (2 * f) % 3]

\* A single file of two chunks.
OneFile == [f \in 0 .. 0 |-> 2]
=============================================================================
