----------------------------- MODULE MC_Panel -----------------------------
(* A tile in its view on the screen, with the flags LVGL gives by default: it   *)
(* lets gestures up, not clicks; and an object that lets clicks up only.        *)
EXTENDS Panel

MCPlaces == {<<{"gesture_bubble"}, {"gesture_bubble"}, {"screen"}>>,
             <<{"event_bubble"}, {"screen"}>>}
===========================================================================
