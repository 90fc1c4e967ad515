------------------------------ MODULE MCApiKeys ------------------------------
(* Model values and bounds for ApiKeys. *)
EXTENDS ApiKeys, TLC

CONSTANTS alice, bob, carol, ka, kb, kc

Op(kind, on, role, active) == [kind |-> kind, on |-> on, role |-> role, active |-> active]

Requests == Permutations(Request)

MCOperations ==
  {Op("me", None, None, None),
   Op("create_user", carol, "viewer", None),
   Op("update_user", bob, None, TRUE),
   Op("update_user", bob, None, FALSE),
   Op("update_user", bob, "viewer", None),
   Op("delete_user", bob, None, None),
   Op("create_key", bob, None, None),
   Op("revoke_key", kb, None, None),
   Op("create_admin", carol, "admin", None),
   Op("revoke_keys", bob, None, None)}

\* bob's key is not migrated; a new key may have the same prefix.
MCPrefix == [k \in Key |-> IF k = ka THEN 1 ELSE 2]

\* bob may be deactivated by a PATCH, which leaves the key as it is.
MCFirstUsers ==
  {(alice :> [role |-> "admin", active |-> TRUE]) @@
   (bob :> [role |-> "admin", active |-> active]) @@
   (carol :> None) : active \in BOOLEAN}

MCFirstKeys == [k \in Key |->
  IF k = kc THEN None
  ELSE [owner |-> IF k = ka THEN alice ELSE bob, legacy |-> k = kb,
        revoked |-> FALSE]]
=============================================================================
