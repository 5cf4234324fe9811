--------------------------- MODULE MCViewerPlanning ---------------------------
(* A procedural world of three coarse chunks, the outer two cut in half:     *)
(* eight cells, 2..9.                                                        *)
EXTENDS ViewerPlanning

MCCatalog ==
  {<<0, x>> : x \in 2..9} \cup {<<1, x>> : x \in 1..4} \cup {<<2, x>> : x \in 0..2}
MCFocusSets == {{}, {<<0, 6>>}}
MCNoFocus == {{}}
\* The default configuration does not stage; the two others do.
MCUnstaged == [staged |-> FALSE, background |-> TRUE, foreground |-> FALSE]
MCPolicies ==
  {MCUnstaged} \cup {[staged |-> TRUE, background |-> TRUE, foreground |-> f] : f \in BOOLEAN}
MCBackground == {[staged |-> TRUE, background |-> TRUE, foreground |-> FALSE]}
=============================================================================
