--------------------------- MODULE MCDraftEditing ---------------------------
(***************************************************************************)
(* Instances of DraftEditing for TLC.  Of three documents, one is not      *)
(* valid, and one, which is not ready for a calculation, chooses a product *)
(* that the second catalog lacks.                                          *)
(***************************************************************************)
EXTENDS DraftEditing

MCContents == {"plain", "special", "broken"}
MCValid == {"plain", "special"}
MCCalculable == {"plain"}
MCCleared ==
  [c \in Catalogs |-> [x \in Contents |-> IF c > 1 /\ x = "special" THEN "plain" ELSE x]]
=============================================================================
