------------------------------ MODULE NoticeClaims ------------------------------
(***************************************************************************)
(* What the messaging service promises about notices, without its tables,  *)
(* transactions and processes: a request claims an event, at most one      *)
(* message is submitted under a claim, and a claim is only given up when   *)
(* its message is known never to reach the recipient.                      *)
(***************************************************************************)
CONSTANTS Keys,    \* requests
          Events,  \* what a notice is about
          None

VARIABLES claim,      \* the event a request has claimed, ever
          held,       \* the requests that still hold their claim
          submitted,  \* the requests whose message went to the provider
          fate        \* what became of that message

nvars == <<claim, held, submitted, fate>>

Fates == {"none", "pending", "delivered", "failed"}

\* A new request claims an event that no request holds.
TakeClaim(k, e) ==
    /\ claim[k] = None
    /\ \A j \in held : claim[j] # e
    /\ claim' = [claim EXCEPT ![k] = e]
    /\ held' = held \cup {k}
    /\ UNCHANGED <<submitted, fate>>

\* Its message is submitted, once; it may get lost.
Submit(k) ==
    /\ k \in held
    /\ k \notin submitted
    /\ submitted' = submitted \cup {k}
    /\ \E f \in Fates : fate' = [fate EXCEPT ![k] = f]
    /\ UNCHANGED <<claim, held>>

\* The provider decides about a message it accepted.
Decide(k) ==
    /\ fate[k] = "pending"
    /\ \E f \in {"delivered", "failed"} : fate' = [fate EXCEPT ![k] = f]
    /\ UNCHANGED <<claim, held, submitted>>

\* The claim is given up: nothing was sent, or it is known to have failed.
GiveUp(k) ==
    /\ k \in held
    /\ k \notin submitted \/ fate[k] = "failed"
    /\ held' = held \ {k}
    /\ UNCHANGED <<claim, submitted, fate>>

NInit ==
    /\ claim = [k \in Keys |-> None]
    /\ held = {}
    /\ submitted = {}
    /\ fate = [k \in Keys |-> "none"]

NNext ==
    \E k \in Keys : (\E e \in Events : TakeClaim(k, e)) \/ Submit(k) \/ Decide(k) \/ GiveUp(k)

NoticeSpec == NInit /\ [][NNext]_nvars
================================================================================
