----------------------------- MODULE SingleUse ------------------------------
(***************************************************************************)
(* What the replay store promises (replay/mod.rs): a challenge is open     *)
(* from the moment it is issued until one submission is accepted for it,   *)
(* and is never open again, even though a crash may forget it.             *)
(***************************************************************************)
CONSTANTS Requests, Calls

VARIABLES
  issued,    \* challenges ever handed out; identifiers are never reused
  open,      \* those that can still be accepted
  accepted   \* the pairs <<challenge, submission>> accepted so far

vars == <<issued, open, accepted>>

Init == issued = {} /\ open = {} /\ accepted = {}

Issue(r) ==
  /\ r \notin issued
  /\ issued' = issued \cup {r}
  /\ open' = open \cup {r}
  /\ UNCHANGED accepted

Accept(r, c) ==
  /\ r \in open
  /\ open' = open \ {r}
  /\ accepted' = accepted \cup {<<r, c>>}
  /\ UNCHANGED issued

Forget ==
  /\ open' = {}
  /\ UNCHANGED <<issued, accepted>>

Next ==
  \/ \E r \in Requests : Issue(r)
  \/ \E r \in Requests, c \in Calls : Accept(r, c)
  \/ Forget

Spec == Init /\ [][Next]_vars

AtMostOnce == \A a, b \in accepted : a[1] = b[1] => a = b

=============================================================================
