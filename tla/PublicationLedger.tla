------------------------- MODULE PublicationLedger -------------------------
(***************************************************************************)
(* What one publication target promises, whatever adapter keeps it and     *)
(* whoever writes it: two ledgers, each growing by one record at the next  *)
(* version.  A publication pins a policy already recorded that authorizes  *)
(* it, and is never the publication it follows over again.                 *)
(***************************************************************************)
EXTENDS Naturals

CONSTANTS Profile, ProfileOf, Sound

VARIABLES policies, publications

vars == <<policies, publications>>

Init == policies = {} /\ publications = {}

\* Version v is the one after the last, and none before it is missing.
Extends(v, rows) == {r.version : r \in rows} = 1..(v - 1)

AddPolicy(q) ==
  /\ Extends(q.version, policies)
  /\ q.profile \in Profile
  /\ policies' = policies \cup {q}
  /\ UNCHANGED publications

\* r pins policy q, which authorizes it, and r is not its predecessor again.
Publish(r, q) ==
  /\ Extends(r.version, publications)
  /\ r.policy = q.version
  /\ r.candidate \in Sound
  /\ ProfileOf[r.candidate] = q.profile
  /\ \A s \in publications : s.version + 1 = r.version =>
       s.policy # r.policy \/ s.candidate # r.candidate
  /\ publications' = publications \cup {r}
  /\ UNCHANGED policies

Next ==
  \/ \E q \in policies' : AddPolicy(q)
  \/ \E r \in publications', q \in policies : Publish(r, q)

Spec == Init /\ [][Next]_vars
=============================================================================
