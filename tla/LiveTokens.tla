----------------------------- MODULE LiveTokens -----------------------------
(***************************************************************************)
(* What the token registry promises, without map, cache or file: a token   *)
(* comes into force once; it goes out of force when it is revoked, when it *)
(* expires or when the process stops; one that was revoked or has expired  *)
(* never comes back.                                                       *)
(***************************************************************************)
CONSTANTS Tokens

VARIABLES
    live,  (* the tokens in force                   *)
    dead   (* the tokens revoked so far, or expired *)

liveTokensVars == <<live, dead>>

Init == live = {} /\ dead = {}

Issue(t) ==
    /\ t \notin live \cup dead
    /\ live' = live \cup {t}
    /\ UNCHANGED dead

End(T) == live' = live \ T /\ dead' = dead \cup T

(* Tokens of an earlier process that were not ended may stand for new ones. *)
Stop == live' = {} /\ UNCHANGED dead

(* While the process runs. *)
Work == (\E t \in Tokens : Issue(t)) \/ (\E T \in SUBSET Tokens : End(T))

Next == Work \/ Stop

WorkSpec == Init /\ [][Work]_liveTokensVars

Spec == Init /\ [][Next]_liveTokensVars
=============================================================================
