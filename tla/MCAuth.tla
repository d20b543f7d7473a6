-------------------------------- MODULE MCAuth --------------------------------
(* Requests, cookies, ceremonies, codes and passkeys are interchangeable.  The *)
(* last value of the clock is there for sessions to have run out: what         *)
(* requests do then is not followed.                                           *)
EXTENDS Auth, TLC

Symmetry == Permutations(Request) \cup Permutations(Token) \cup Permutations(Ceremony)
            \cup Permutations(Code) \cup Permutations(Key)

Followed == clock = MaxTime => \A r \in Request : At(r, "idle")
===============================================================================
