----------------------------- MODULE MCDurableCell -----------------------------
(* Bounds for model checking DurableCell. *)
EXTENDS DurableCell

BothClasses == {"Always", "Everysec"}
AnyLength == {"small", "large"}
SmallOnly == {"small"}
SpaceOk == {TRUE}
SpaceAny == {TRUE, FALSE}
================================================================================
