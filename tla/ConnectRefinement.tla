------------------------- MODULE ConnectRefinement -------------------------
(***************************************************************************)
(* The connect flow implements its contract: the row status and the row     *)
(* user, read under the row lock, are the consent and its holder.           *)
(***************************************************************************)
EXTENDS Connect

Consent(status) ==
    CASE status = "absent"    -> "unasked"
      [] status = "pending"   -> "asked"
      [] status = "denied"    -> "refused"
      [] status = "sealed"    -> "granted"
      [] status = "delivered" -> "handed"
      [] OTHER                -> "forgotten"

Contract == INSTANCE ConnectContract
    WITH consent <- [r \in Requests |-> Consent(req[r].status)],
         holder  <- [r \in Requests |-> req[r].user]

\* Every behaviour of the handlers and of the purge, whatever their
\* interleaving, is one of the contract: the user of a request answers once,
\* and the key is handed over at most once, only after a grant.
ImplementsContract == Contract!CSpec
=============================================================================
