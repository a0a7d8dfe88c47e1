------------------------------- MODULE Diffs -------------------------------
(***************************************************************************)
(* What a branch is rebuilt from: the store compares two snapshots, keeps  *)
(* the entries, and replays them later.  A behaviour compares one pair;    *)
(* that the replay gives the second snapshot back is an invariant.         *)
(***************************************************************************)
EXTENDS Snapshots

CONSTANT Pairs  \* of snapshots to compare

ASSUME PairsAssumption == \A q \in Pairs : IsSnapshot(q.old) /\ IsSnapshot(q.new)

VARIABLE pair

Unread == << >>

CompareInit == pair = Unread

Compare == pair = Unread /\ pair' \in Pairs

CompareSpec == CompareInit /\ [][Compare]_pair

----------------------------------------------------------------------------
(* A branch is rebuilt by replaying diffs: the diff of two snapshots,        *)
(* replayed on the first, is the second, if a diff can say what changed.     *)
DiffsReplay == pair # Unread => DiffReplays(pair.old, pair.new)
=============================================================================
