------------------------ MODULE MCProviderGovernor ------------------------
(* The rate governor on a small window.                                    *)
EXTENDS ProviderGovernor

CONSTANTS c1, c2, c3

ThreeCallers == {c1, c2, c3}
OneEmbedder == {c3}
Two == {2}
OneOrFour == {1, 4}
LongHint == {2}

=============================================================================
