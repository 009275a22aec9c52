---------------------------- MODULE MCSanitizer ----------------------------
(* Small instances of Sanitizer.                                           *)
EXTENDS Sanitizer, TLC

Symmetric == Permutations(Requests) \cup Permutations(Conversations) \cup Permutations(Tokens)
=============================================================================
