------------------------ MODULE MCPublishedKnowledge ------------------------
(* Two lectures, the first with a shorter replacement; there is no room for *)
(* all originals at once, and one dialog with several requests.             *)
EXTENDS PublishedKnowledge

CONSTANTS d1, d2

MCDocs   == {d1, d2}
MCDocOf  == <<d1, d2, d1>>
MCFileOf == <<1, 2, 3>>
MCBlocks == <<2, 1, 1>>
=============================================================================
