---------------------------- MODULE MCBubbleLayers ----------------------------
(* Instances of BubbleLayers for TLC. *)
EXTENDS BubbleLayers, MCBubbleLabels
===============================================================================
