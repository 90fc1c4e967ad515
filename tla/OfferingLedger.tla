--------------------------- MODULE OfferingLedger ---------------------------
(***************************************************************************)
(* What the bulk API promises about the table address_offerings, seen      *)
(* through one technology: an operation takes effect at one instant, it    *)
(* remembers exactly what it replaced, and undoing it puts that back.      *)
(* Single-address edits may come between any two operations.               *)
(***************************************************************************)
CONSTANTS Address,  \* rc_code of an address
          Field,    \* payload columns of an offering (status, speeds, dates, notes)
          Value,    \* values of a payload column
          Op,       \* identifiers of bulk operations
          None      \* no row, no value, no operation

VARIABLES offering, \* the row of each address, or None
          undo      \* what each operation done so far recorded for its undo

ledger == <<offering, undo>>

Val == [Field -> Value]
Patch == [Field -> Value \cup {None}]
Row == [val: Val, op: Op \cup {None}]

\* A patch sets the fields it names and keeps the others.
Patched(val, patch) ==
  [f \in Field |-> IF patch[f] = None THEN val[f] ELSE patch[f]]

\* The payload an undo puts back: nothing for an address without a row.
Payload(row) == IF row = None THEN None ELSE row.val

Recorded(kind, S) ==
  [kind |-> kind, codes |-> S, undone |-> FALSE,
   old |-> [a \in Address |-> IF a \in S THEN Payload(offering[a]) ELSE None]]

Init ==
  /\ offering = [a \in Address |-> None]
  /\ undo = [o \in Op |-> None]

Do(o, kind, S) ==
  /\ undo[o] = None
  /\ undo' = [undo EXCEPT ![o] = Recorded(kind, S)]

Absent(S) == \A a \in S : offering[a] = None
Present(S) == \A a \in S : offering[a] # None

Add(o, S, val) ==
  /\ Absent(S)
  /\ Do(o, "add", S)
  /\ offering' = [a \in Address |->
       IF a \in S THEN [val |-> val, op |-> o] ELSE offering[a]]

Change(o, S, patch) ==
  /\ Present(S)
  /\ Do(o, "change", S)
  /\ offering' = [a \in Address |->
       IF a \in S THEN [offering[a] EXCEPT !.val = Patched(@, patch)]
                  ELSE offering[a]]

Remove(o, S) ==
  /\ Present(S)
  /\ Do(o, "remove", S)
  /\ offering' = [a \in Address |-> IF a \in S THEN None ELSE offering[a]]

\* Undo of an addition deletes the rows that still are the ones it created, of
\* a change restores the payload of the rows still there, of a removal creates
\* the rows again (possible only while no other row has taken their place).
Undone(o, a) ==
  CASE undo[o].kind = "add" /\ offering[a] # None ->
         IF offering[a].op = o THEN None ELSE offering[a]
    [] undo[o].kind = "change" /\ offering[a] # None ->
         [offering[a] EXCEPT !.val = undo[o].old[a]]
    [] undo[o].kind = "remove" -> [val |-> undo[o].old[a], op |-> None]
    [] OTHER -> None

Undo(o) ==
  /\ undo[o] # None
  /\ ~ undo[o].undone
  /\ undo[o].kind = "remove" => Absent(undo[o].codes)
  /\ undo' = [undo EXCEPT ![o].undone = TRUE]
  /\ offering' = [a \in Address |->
       IF a \in undo[o].codes THEN Undone(o, a) ELSE offering[a]]

\* One row created, corrected or deleted by hand.
Edit(a) ==
  /\ \/ offering[a] = None
        /\ \E val \in Val : offering' = [offering EXCEPT ![a] = [val |-> val, op |-> None]]
     \/ offering[a] # None
        /\ \E val \in Val : offering' = [offering EXCEPT ![a].val = val]
     \/ offering[a] # None /\ offering' = [offering EXCEPT ![a] = None]
  /\ UNCHANGED undo

Next ==
  \/ \E o \in Op, S \in SUBSET Address :
       \/ \E val \in Val : Add(o, S, val)
       \/ \E patch \in Patch : Change(o, S, patch)
       \/ Remove(o, S)
  \/ \E o \in Op : Undo(o)
  \/ \E a \in Address : Edit(a)

Spec == Init /\ [][Next]_ledger
=============================================================================
