----------------------------- MODULE TokenCache -----------------------------
(* What the key/value cache of a decode function promises: a slot for every
   position of the context, which holds the token fed there. A token fed at a
   position is always in its slot afterwards. The first Kept slots change for no
   other reason; a later one may take the token of another position.         *)
EXTENDS Integers

CONSTANTS
    SeqLen,  \* the length of the cache
    Kept,    \* the number of slots that keep their token
    Tokens,  \* the tokens
    Empty    \* an unwritten slot

VARIABLE stored

Init == stored = [s \in 0..(SeqLen - 1) |-> Empty]

Feed(p, t) ==
    \E taken \in SUBSET {s \in 0..(SeqLen - 1) : s = p \/ s >= Kept} :
        /\ p \in 0..(SeqLen - 1) => p \in taken
        /\ stored' = [s \in 0..(SeqLen - 1) |-> IF s \in taken THEN t ELSE stored[s]]

Next == \E p \in 0..SeqLen, t \in Tokens : Feed(p, t)

Spec == Init /\ [][Next]_stored
=============================================================================
