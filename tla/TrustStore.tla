------------------------------ MODULE TrustStore ------------------------------
(***************************************************************************)
(* Trust on first use, without files: a table of the fingerprint trusted   *)
(* for each host.  A certificate that the table holds passes silently, any *)
(* other one only with the user's consent, and consent to one host leaves  *)
(* every other host as it was.  Where checks may fail, they leave the      *)
(* table as it was; only one that fails while it replaces the table, after *)
(* the user's consent, may lose it, and then as a whole.                   *)
(***************************************************************************)
CONSTANTS Hosts, Fps, NoFp, Unsupported,
          MayFail   \* a check can be interrupted, or be refused its save

VARIABLES trust,    \* the table: a fingerprint, NoFp, or Unsupported
          asked,    \* the host and fingerprint being checked
          consent,  \* the user said yes to them
          verdict   \* "pending" while the check runs, then its result

storeVars == <<trust, asked, consent, verdict>>

Fingerprint == Fps \cup {NoFp, Unsupported}

StoreInit ==
    /\ trust \in [Hosts -> Fingerprint]
    /\ asked \in [host : Hosts, fp : Fps]
    /\ consent = FALSE
    /\ verdict \in {"trusted", "rejected"}

Present(h, fp) ==
    /\ verdict # "pending"
    /\ asked' = [host |-> h, fp |-> fp]
    /\ consent' = FALSE
    /\ verdict' = "pending"
    /\ UNCHANGED trust

Consent ==
    /\ verdict = "pending" /\ ~consent
    /\ trust[asked.host] \notin {asked.fp, Unsupported}
    /\ consent' = TRUE
    /\ UNCHANGED <<trust, asked, verdict>>

Save ==
    /\ verdict = "pending" /\ consent
    /\ trust' = [trust EXCEPT ![asked.host] = asked.fp]
    /\ UNCHANGED <<asked, consent, verdict>>

Trusted ==
    /\ verdict = "pending"
    /\ trust[asked.host] = asked.fp
    /\ verdict' = "trusted"
    /\ UNCHANGED <<trust, asked, consent>>

SaveAndTrust ==
    /\ verdict = "pending" /\ consent
    /\ trust' = [trust EXCEPT ![asked.host] = asked.fp]
    /\ verdict' = "trusted"
    /\ UNCHANGED <<asked, consent>>

Rejected ==
    /\ verdict = "pending"
    /\ trust[asked.host] # asked.fp
    /\ verdict' = "rejected"
    /\ UNCHANGED <<trust, asked, consent>>

Interrupted ==
    /\ MayFail
    /\ verdict = "pending" /\ ~consent
    /\ verdict' = "rejected"
    /\ UNCHANGED <<trust, asked, consent>>

Lose ==
    /\ MayFail
    /\ verdict = "pending" /\ consent
    /\ trust[asked.host] = asked.fp
    /\ trust' = [h \in Hosts |-> NoFp]
    /\ verdict' = "rejected"
    /\ UNCHANGED <<asked, consent>>

StoreNext ==
    \/ \E h \in Hosts, fp \in Fps : Present(h, fp)
    \/ Consent \/ Save \/ Trusted \/ SaveAndTrust \/ Rejected
    \/ Interrupted \/ Lose

StoreSpec == StoreInit /\ [][StoreNext]_storeVars
=============================================================================
