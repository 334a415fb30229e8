----------------------------- MODULE MCEditor ------------------------------
(* A CSI and a USB camera; two layers and one raw stream. *)
EXTENDS Editor

CONSTANTS csi, usb

MCLocations == {csi, usb}
MCTwoStream == {csi}
MCInstalled == {{}, {"etc"}, {"path"}}
MCMaxLayers == [t \in Container |-> IF t = "Comp" THEN 2 ELSE 1]
=============================================================================
