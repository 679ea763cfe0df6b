--------------------------- MODULE CommandLifecycle ---------------------------
(***************************************************************************)
(* What both write paths promise a client that polls its command, whatever *)
(* is sent twice, reordered or interrupted between the 202 and the answer: *)
(* the status only advances, its end is final, a checkout intent it names  *)
(* is a fact of the event store, facts stay, and one idempotency key has   *)
(* one of them.                                                            *)
(***************************************************************************)
EXTENDS Integers

CONSTANTS Commands, KeyOf, Null

VARIABLES
    status,     \* Commands -> [name, checkout]
    facts       \* the checkout intents created: [checkout, key]

Unknown == [name |-> "unknown", checkout |-> Null]

Init ==
    /\ status = [c \in Commands |-> Unknown]
    /\ facts = {}

Rank(s) == CASE s.name = "unknown"    -> 0
             [] s.name = "accepted"   -> 1
             [] s.name = "processing" -> 2
             [] s.name \in {"created", "failed"} -> 3

Establish ==
    /\ facts \subseteq facts'
    /\ \A f, g \in facts' : f.key # Null /\ f.key = g.key => f = g
    /\ \A f, g \in facts' : f.checkout = g.checkout => f = g

Advance(c) ==
    /\ Rank(status[c]) < Rank(status'[c])
    /\ status'[c].name = "created" =>
         \E f \in facts' : f.checkout = status'[c].checkout /\ f.key = KeyOf[c]

\* A batch advances several commands in one transaction.
Next ==
    /\ Establish
    /\ \A c \in Commands : Advance(c) \/ status'[c] = status[c]

Spec == Init /\ [][Next]_<<status, facts>>

=============================================================================
