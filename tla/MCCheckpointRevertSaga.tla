------------------------ MODULE MCCheckpointRevertSaga ------------------------
(* Small bounds for TLC, and a reading of the code's comment that it departs  *)
(* from.                                                                      *)
EXTENDS CheckpointRevertSaga

\* restoreCheckpointFiles never fails: "a failure says whether the files may be partly restored"
\* (checkpointRevertSaga.ts:591).  So a revert that says its files are unchanged rewrote none.
NothingChangedIsTrue ==
  \A r \in Reverts : says[r].files = "kept" => "wrote" \notin did[r]
=============================================================================
