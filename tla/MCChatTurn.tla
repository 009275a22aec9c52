----------------------------- MODULE MCChatTurn -----------------------------
(* Small instances of ChatTurn.                                            *)
EXTENDS ChatTurn, TLC

Symmetric == Permutations(Requests) \cup Permutations(Tenants)
                 \cup Permutations(Conversations) \cup Permutations(CallerIds)
=============================================================================
