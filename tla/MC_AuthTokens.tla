---------------------------- MODULE MC_AuthTokens ----------------------------
(* Small instances of AuthTokens.                                            *)
EXTENDS AuthTokens, TLC

(* Threads, users and token ids are interchangeable.                         *)
Interchangeable == Permutations(Threads) \cup Permutations(Users) \cup Permutations(TokenIds)
==============================================================================
