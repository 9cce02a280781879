----------------------- MODULE MCConversationServices -----------------------
EXTENDS ConversationServices

MCConversation == [f \in Files |-> f]
MCSessionOfCall == [c \in Calls |-> "s"]
MCKindOf == [s \in {"s"} |-> "chat"]

=============================================================================
