-------------------------- MODULE RotatingCredential --------------------------
(***************************************************************************)
(* What the service promises of one refresh token that it stores for a     *)
(* user and that the provider may replace whenever it is used.  Both the   *)
(* login sessions (FederatedSession) and the provider sessions             *)
(* (OAuthSession) are shown to do only this.                               *)
(*                                                                         *)
(* The provider numbers the tokens it issues and takes only the last one.  *)
(***************************************************************************)
EXTENDS Naturals

CONSTANT None

VARIABLES
    stored,    \* the token a committed row holds; None before and after it
    pending,   \* the token that replaced it, in the hands of one request
    issued,    \* the last token the provider issued, 0 before the first
    lost       \* TRUE once a replacement was not stored

vars == <<stored, pending, issued, lost>>

Init == stored = None /\ pending = None /\ issued = 0 /\ lost = FALSE

Issue == /\ issued = 0
         /\ issued' = 1 /\ stored' = 1
         /\ UNCHANGED <<pending, lost>>

\* The token in use is presented and replaced: the stored one, or the replacement,
\* by the request that holds it.  Nobody else replaces a token meanwhile.
Rotate == /\ stored # None
          /\ issued = IF pending = None THEN stored ELSE pending
          /\ issued' = issued + 1
          /\ \/ pending' = issued + 1 /\ lost' = lost
             \/ pending' = pending /\ lost' = TRUE
          /\ UNCHANGED stored

Store == /\ pending # None
         /\ stored' = pending /\ pending' = None
         /\ UNCHANGED <<issued, lost>>

Drop == /\ pending # None
        /\ pending' = None /\ lost' = TRUE
        /\ UNCHANGED <<stored, issued>>

\* Nobody forgets a credential while it is being replaced.
Forget == /\ stored # None /\ pending = None
          /\ stored' = None
          /\ UNCHANGED <<pending, issued, lost>>

Next == Issue \/ Rotate \/ Store \/ Drop \/ Forget
Spec == Init /\ [][Next]_vars

-----------------------------------------------------------------------------
TypeOK == /\ stored \in Nat \union {None} /\ pending \in Nat \union {None}
          /\ issued \in Nat /\ lost \in BOOLEAN

\* The token the provider takes is the stored one, or the one on its way to be
\* stored; both only if nothing was lost.
Current == \/ lost \/ stored = None
           \/ stored = issued /\ pending = None
           \/ pending = issued
=============================================================================
