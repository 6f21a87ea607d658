--------------------------- MODULE MCMailDelivery ---------------------------
(***************************************************************************)
(* Two callers, one keyed mail they both may send, and one unkeyed mail.   *)
(***************************************************************************)
EXTENDS MailDelivery

CONSTANTS k1, keyless

MCMails == {[key |-> k1, text |-> "reply"], [key |-> keyless, text |-> "notification"]}
=============================================================================
