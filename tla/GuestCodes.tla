------------------------------- MODULE GuestCodes -------------------------------
(***************************************************************************)
(* The code of a reservation as its guest gets it from the private page    *)
(* of an invitation: first what is there to see, with a fingerprint of     *)
(* everything it depends on, and then the digits, for someone who sends    *)
(* that fingerprint back.  Both read in a serializable transaction of      *)
(* their own; administrators change the reservation, the settings and the  *)
(* codes in between, and staff their tasks (module CleaningWork).          *)
(*                                                                         *)
(* Whether the invitation opens the page is in Submissions: it is one for  *)
(* the current revision.  The code of the entrance is a part of the        *)
(* settings and read with them; it is left out.                            *)
(***************************************************************************)
EXTENDS CleaningWork

CONSTANT Lead   \* how long before the arrival a code is released

ASSUME LeadIsNat == Lead \in Nat

--------------------------------------------------------------------------------
Window(s) ==
    CASE now >= stay[s].out -> "ENDED"
      [] now + Lead < stay[s].in -> "SCHEDULED"
      [] OTHER -> "AVAILABLE"

\* blockedReason of the reservation's code, for administrators and guests.
BlockedReservation(s) == ~Pending(s) \/ ~open \/ settings = None
Released(s) == Active(s) /\ Window(s) = "AVAILABLE" /\ ~BlockedReservation(s) /\ Prepared(s)

\* Faulty variant: without the version of the code.
FingerprintOfStay(s) ==
    [revision |-> stay[s].revision, in |-> stay[s].in, out |-> stay[s].out,
     settings |-> SettingsVersion, rotating |-> Rotating]
GuestFingerprint(s) ==
    [revision |-> stay[s].revision, in |-> stay[s].in, out |-> stay[s].out,
     settings |-> SettingsVersion, code |-> CodeVersion(s), rotating |-> Rotating]

\* get(): the page of the guest.
Metadata(s) ==
    IF Released(s) THEN [state |-> "AVAILABLE", fingerprint |-> GuestFingerprint(s)]
    ELSE [state |-> IF Window(s) = "AVAILABLE" THEN "UNAVAILABLE" ELSE Window(s), fingerprint |-> None]

\* reveal(): the digits, or None if the request is refused.
Reveal(s, fingerprint) ==
    IF Metadata(s).state = "AVAILABLE" /\ Metadata(s).fingerprint = fingerprint
    THEN code[s].digits ELSE None

--------------------------------------------------------------------------------
\* A guest is shown the code that was ready when the page was read, or none: no step makes the
\* fingerprint of the page good for other digits, although digits are replaced and confirmed,
\* reservations moved and restored, and settings saved between the two transactions.  Versions
\* only grow, so what holds for a step holds for any time between them.
RevealedAsAnnounced ==
    [][\A s \in Stays : Active(s) /\ Released(s) =>
         \A f \in {GuestFingerprint(s)} : Reveal(s, f)' \in {None, code[s].digits}]_vars
================================================================================
