----------------------------- MODULE MCContainer -----------------------------
(* Two endpoints; the config names both, one, or one of them twice.        *)
EXTENDS Container

CONSTANTS a, b

MCLists == {<<a, b>>, <<a, a>>, <<b>>}
==============================================================================
