----------------------------- MODULE StaleReads -----------------------------
(****************************************************************************)
(* What a session that caches its reads of a changing database promises: it *)
(* answers with something the database held at some time since the key was  *)
(* last forgotten.  It promises nothing about two keys together.            *)
(****************************************************************************)
VARIABLES
    current, \* key -> what the database holds
    allowed, \* key -> the set of answers allowed
    reply    \* [key, value]: the last answer given

vars == <<current, allowed, reply>>

Init == allowed = [k \in DOMAIN current |-> {current[k]}]

Change ==
    /\ DOMAIN current' = DOMAIN current
    /\ allowed' = [k \in DOMAIN allowed |-> allowed[k] \cup {current'[k]}]
    /\ UNCHANGED reply

Forget ==
    /\ DOMAIN allowed' = DOMAIN allowed
    /\ \A k \in DOMAIN allowed : allowed'[k] \in {allowed[k], {current[k]}}
    /\ UNCHANGED <<current, reply>>

Read ==
    /\ reply'.key \in DOMAIN allowed
    /\ reply'.value \in allowed[reply'.key]
    /\ UNCHANGED <<current, allowed>>

Spec == Init /\ [][Change \/ Forget \/ Read]_vars

=============================================================================
