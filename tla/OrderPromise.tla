---------------------------- MODULE OrderPromise ----------------------------
(***************************************************************************)
(* What the marketplace promises about capacity orders, apart from how the *)
(* coordinator keeps them.  An order is asked for, then either released or *)
(* committed: once committed, provider money may be in a channel, and the  *)
(* order can only end as delivered or, when the money is back, released.   *)
(* A fee is owed only after delivery and its payment is final.  A wallet   *)
(* never has two orders in the way with the same provider.                 *)
(***************************************************************************)
CONSTANTS
    Orders,        \* order identifiers
    Providers,     \* provider nodes
    AccountOf(_),  \* the wallet an order identifier belongs to
    NoProvider     \* the provider of an order nobody asked for

VARIABLES phase, fee, provider

vars == <<phase, fee, provider>>

Phases == {"free", "asked", "committed", "delivered", "released"}
Fees == {"not_due", "due", "overdue", "paid", "waived"}

\* An order that keeps its wallet from asking the same provider again.
InTheWay(o) == \/ phase[o] \in {"asked", "committed"}
               \/ phase[o] = "delivered" /\ fee[o] \notin {"paid", "waived"}

Same(o) == /\ phase'[o] = phase[o] /\ fee'[o] = fee[o]
           /\ provider'[o] = provider[o]

Ask(o) ==
    /\ phase[o] = "free" /\ phase'[o] = "asked"
    /\ provider'[o] \in Providers
    /\ \A q \in Orders \ {o} :
          AccountOf(q) = AccountOf(o) /\ provider[q] = provider'[o]
             => ~InTheWay(q)
    /\ fee'[o] = fee[o]

Move(o, from, to) ==
    /\ phase[o] = from /\ phase'[o] = to
    /\ fee'[o] = fee[o] /\ provider'[o] = provider[o]

Deliver(o) ==
    /\ phase[o] = "committed" /\ phase'[o] = "delivered"
    /\ fee[o] = "not_due" /\ fee'[o] = "due"
    /\ provider'[o] = provider[o]

\* A waived fee may still be paid; a paid fee never changes again.
FeeMove(o) ==
    /\ phase[o] = "delivered" /\ phase'[o] = phase[o]
    /\ provider'[o] = provider[o]
    /\ \/ fee[o] = "due" /\ fee'[o] = "overdue"
       \/ fee[o] \in {"due", "overdue"} /\ fee'[o] = "waived"
       \/ fee[o] \in {"due", "overdue", "waived"} /\ fee'[o] = "paid"

Step(o) ==
    \/ Ask(o)
    \/ Move(o, "asked", "released") \/ Move(o, "asked", "committed")
    \/ Move(o, "committed", "released")
    \/ Deliver(o) \/ FeeMove(o)

Init ==
    /\ phase = [o \in Orders |-> "free"]
    /\ fee = [o \in Orders |-> "not_due"]
    /\ provider = [o \in Orders |-> NoProvider]

\* One transaction may move several orders: the expiry pass does.
Next == \A o \in Orders : Step(o) \/ Same(o)

Spec == Init /\ [][Next]_vars
=============================================================================
