---------------------------- MODULE MCKakaoTokens ----------------------------
(* Two processes that share the token file, and the setup tool.            *)
EXTENDS KakaoTokens, TLC

Symmetry == Permutations(Processes \ Tools)

=============================================================================
