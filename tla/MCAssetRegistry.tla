-------------------------- MODULE MCAssetRegistry --------------------------
(* Model values and bounds for checking AssetRegistry with TLC. *)
EXTENDS AssetRegistry, TLC

CONSTANTS t1, t2, house, cube

(* Two of the five slots: one that render_item insists on and one that it  *)
(* does not.                                                               *)
MCSlots == <<"albedo", "normal">>

(* house has two submeshes that share t1 in different slots; cube shares   *)
(* t1 with house.                                                          *)
MCSubmeshes ==
    house :> << [albedo |-> t1, normal |-> NoName], [albedo |-> t2, normal |-> t1] >>
      @@ cube :> << [albedo |-> t1, normal |-> t2] >>
=============================================================================
