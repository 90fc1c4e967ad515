--------------------------- MODULE MCRegisterSync ---------------------------
(***************************************************************************)
(* A small instance of RegisterSync: one address with a history, another   *)
(* one whose building comes with a new locality.                           *)
(***************************************************************************)
EXTENDS RegisterSync

CONSTANTS a1, a2

By(a, kinds) == [kind: kinds, code: {a}]

OneBuilt == <<[kind |-> "enlist", code |-> a1], [kind |-> "upsert", code |-> a1],
              [kind |-> "enlist", code |-> a2]>>

Later == By(a1, {"strike", "upsert"}) \cup By(a2, {"settle", "raze", "patch"})
=============================================================================
