---------------------------- MODULE MCJwksCache ----------------------------
(* JwksCache for TLC: key sets are a function, which a cfg cannot write.   *)
EXTENDS JwksCache, TLC

\* The provider announces key "b", then withdraws key "a".
MCKeySets == [v \in 0..MaxVersion |-> CASE v = 0 -> {"a"} [] v = 1 -> {"a", "b"} [] OTHER -> {"b"}]

\* Request threads are interchangeable.
Symmetry == Permutations(Threads)

=============================================================================
