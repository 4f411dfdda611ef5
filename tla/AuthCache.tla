------------------------------ MODULE AuthCache ------------------------------
(***************************************************************************)
(* One API key and the positive-only cache that each process keeps in      *)
(* front of its row (internal/platform/auth/cache.go). The key is created  *)
(* by Bootstrap and revoked by an operator, in the database alone: no      *)
(* caller of Invalidate exists. Time is what is left of an entry's TTL.    *)
(***************************************************************************)
EXTENDS Naturals

CONSTANTS
  Replicas,     (* processes                                               *)
  Callers,      (* requests that carry the key, one after another          *)
  ServedBy,     (* ServedBy[c]: the process of a caller                    *)
  TTL           (* WAVE_AUTH_CACHE_TTL_SEC; 0 disables the cache           *)

ASSUME AuthCacheAssumption == TTL \in Nat /\ ServedBy \in [Callers -> Replicas]

VARIABLES
  apiKey,       (* the row: "absent", "active", "revoked"                  *)
  cached,       (* cached[r]: time left of the entry, 0 for none           *)
  access        (* access[c]: where Authenticate is                       *)

authVars == <<apiKey, cached, access>>

AuthInit ==
  /\ apiKey = "absent" /\ cached = [r \in Replicas |-> 0]
  /\ access = [c \in Callers |-> "idle"]

Bootstrap ==
  /\ apiKey = "absent" /\ apiKey' = "active" /\ UNCHANGED <<cached, access>>
Revoke ==
  /\ apiKey = "active" /\ apiKey' = "revoked" /\ UNCHANGED <<cached, access>>

Goes(c, pc) == access' = [access EXCEPT ![c] = pc]
Fill(r) == cached' = [cached EXCEPT ![r] = TTL]

(* Mutant: a hit renews the entry.                                         *)
AuthenticateRenewing(c) ==
  /\ access[c] = "idle" /\ UNCHANGED apiKey
  /\ IF cached[ServedBy[c]] > 0 THEN Goes(c, "granted") /\ Fill(ServedBy[c])
     ELSE Goes(c, "lookup") /\ UNCHANGED cached
(* Authenticate: an entry within its deadline grants, else the row is      *)
(* looked up and, when it is valid, cached from that moment on.            *)
Authenticate(c) ==
  /\ access[c] = "idle" /\ UNCHANGED <<apiKey, cached>>
  /\ IF cached[ServedBy[c]] > 0 THEN Goes(c, "granted") ELSE Goes(c, "lookup")
LookupKey(c) ==
  /\ access[c] = "lookup" /\ UNCHANGED <<apiKey, cached>>
  /\ IF apiKey = "active" THEN Goes(c, "insert") ELSE Goes(c, "denied")
InsertKey(c) ==
  /\ access[c] = "insert" /\ Goes(c, "granted") /\ UNCHANGED apiKey
  /\ Fill(ServedBy[c])
Answered(c) ==
  /\ access[c] \in {"granted", "denied"} /\ Goes(c, "idle") /\ UNCHANGED <<apiKey, cached>>

Elapse ==
  /\ \E r \in Replicas : cached[r] > 0
  /\ cached' = [r \in Replicas |-> IF cached[r] > 0 THEN cached[r] - 1 ELSE 0]
  /\ UNCHANGED <<apiKey, access>>

AuthNext ==
  \/ Bootstrap \/ Revoke \/ Elapse
  \/ \E c \in Callers : Authenticate(c) \/ LookupKey(c) \/ InsertKey(c) \/ Answered(c)

(* Time passes and a query returns; callers and operators do as they like. *)
AuthFairness ==
  /\ WF_authVars(Elapse)
  /\ \A c \in Callers : WF_authVars(LookupKey(c)) /\ WF_authVars(InsertKey(c)) /\ WF_authVars(Answered(c))
AuthSpec == AuthInit /\ [][AuthNext]_authVars /\ AuthFairness

-----------------------------------------------------------------------------
AuthTypeOK ==
  /\ apiKey \in {"absent", "active", "revoked"} /\ cached \in [Replicas -> 0..TTL]
  /\ access \in [Callers -> {"idle", "lookup", "insert", "granted", "denied"}]

(* A revoked key stops granting in every process in the end, however many  *)
(* requests carry it on: a lookup that read the row before the revocation  *)
(* may still fill the cache, but no hit prolongs an entry (Authenticate;   *)
(* "key revocation converges across replicas", docs/deployment.md 19).     *)
RevocationConverges ==
  <>[](apiKey = "revoked" => \A c \in Callers : access[c] # "granted")
=============================================================================
