--------------------------- MODULE MCStateRefresh ---------------------------
(* A lamp with two fields over RV-C, a WLED strip and a tank that reports by itself. *)
EXTENDS StateRefresh

MCFieldsOf == [e \in {"lamp", "strip", "tank"} |->
                 CASE e = "lamp" -> {"level", "fault"} [] e = "strip" -> {"power"} [] e = "tank" -> {"volts"}]
MCSectionOf == [e \in {"lamp", "strip", "tank"} |->
                 CASE e = "lamp" -> "rvc" [] e = "strip" -> "wled" [] e = "tank" -> "ble"]
MCSelections == {{"lamp", "strip"}, {"strip"}, {"tank"}}
=============================================================================
