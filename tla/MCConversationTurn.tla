------------------------- MODULE MCConversationTurn -------------------------
(* Values for model checking ConversationTurn. *)
EXTENDS ConversationTurn

CONSTANTS auto, ask, forbidden

MCGate == [c \in Calls |-> IF c = auto THEN "auto" ELSE IF c = ask THEN "approval" ELSE "forbidden"]
=============================================================================
