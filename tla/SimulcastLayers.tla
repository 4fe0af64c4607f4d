-------------------------- MODULE SimulcastLayers --------------------------
(***************************************************************************)
(* The simulcast ladder (ids.rs SfuRid, client::layer) and the pure        *)
(* selection rule of layer_selector.rs.  A RID is one of three names; its  *)
(* place on the ladder is the `rank` that bwe/hysteresis.rs,               *)
(* layer_selector.rs and registry/drive.rs each spell out.                 *)
(***************************************************************************)
EXTENDS Integers

Rids == {"LOW", "MEDIUM", "HIGH"}

(* fn rank, and the identical closures in select and the layer hints. *)
Rank == [LOW |-> 0, MEDIUM |-> 1, HIGH |-> 2]

(* The member of the nonempty set rids that max_by_key / min_by_key picks; *)
(* ranks are distinct, so the iteration order of the slice is immaterial.  *)
Highest(rids) == CHOOSE r \in rids : \A s \in rids : Rank[s] <= Rank[r]
Lowest(rids)  == CHOOSE r \in rids : \A s \in rids : Rank[r] <= Rank[s]

(* BestFitSelector::select. *)
Select(desired, active) ==
    LET below == {r \in active : Rank[r] <= Rank[desired]}
    IN  CASE active = {} -> desired
          [] active # {} /\ below # {} -> Highest(below)
          [] active # {} /\ below = {} -> Lowest(active)

=============================================================================
