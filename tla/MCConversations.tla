--------------------------- MODULE MCConversations ---------------------------
(* An instance of Conversations for TLC.                                    *)
EXTENDS Conversations, TLC

CONSTANTS old, new

(* A budget of ten characters: two short turns just fit together; a long    *)
(* one does not, its second paragraph is too long by itself and its last    *)
(* two miss the budget by one; a hidden message is no turn.                 *)
Paragraph(net, blank, opens) == [raw |-> net + blank, net |-> net, opens |-> opens]
Short == [role |-> "user", paragraphs |-> <<Paragraph(4, 0, TRUE)>>]
Long == [role |-> "assistant",
         paragraphs |-> <<Paragraph(3, 0, TRUE), Paragraph(11, 0, FALSE),
                          Paragraph(4, 1, FALSE), Paragraph(5, 0, FALSE)>>]
Hidden == [role |-> "unseen", paragraphs |-> <<>>]
Dialogue == {Short, Long, Hidden}

OldAndNew == {old, new}
OnlyNewIsStamped == old :> {"message"} @@ new :> {"create", "update", "message"}
JsonThenZip == <<"json", "zip">>
=============================================================================
