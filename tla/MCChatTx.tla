------------------------------- MODULE MCChatTx -------------------------------
(* TLC instances of ChatTx.                                                 *)
EXTENDS ChatTx, TLC

CONSTANTS k1, k2, a1, a2, b1, chat, email

\* Two threads of claude-chat, one of claude-email.
Owners == a1 :> chat @@ a2 :> chat @@ b1 :> email
=============================================================================
