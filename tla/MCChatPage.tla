---------------------------- MODULE MCChatPage ----------------------------
(* ChatPage for TLC: the chats and the bounds are given by the configuration. *)
EXTENDS ChatPage

\* The page is opened on one of the chats, it does not matter which: at first
\* they are all alike.
FirstChat == CHOOSE c \in Chats : TRUE
MCInit == Init /\ active = FirstChat
MCSpec == MCInit /\ [][Next]_vars /\ Fairness
=============================================================================
