------------------------------ MODULE OrderLife -----------------------------
(***************************************************************************)
(* What a venue promises of an order through its account events, whatever  *)
(* makes it trade: the life that AccountEvent's variants tell (core        *)
(* event.rs) and that the portfolio and the strategies build on.           *)
(*                                                                         *)
(* An order is refused, or accepted and then executed bit by bit until it  *)
(* ends.  What a call decides to execute it reports before it returns, at  *)
(* times after the end of the order has been reported, but never is more   *)
(* executed than was ordered, and what has ended or was refused does not   *)
(* come back.                                                              *)
(***************************************************************************)
EXTENDS Integers

CONSTANT Orders

VARIABLES
  stage,      \* "unused", "open", "closed" or "rejected"
  quantity,   \* as ordered, 0 before
  executed,   \* as reported
  owed,       \* decided and not yet reported
  calling     \* the venue is being shown a bar

life == <<stage, quantity, executed, owed, calling>>

LifeInit ==
  /\ stage    = [o \in Orders |-> "unused"]
  /\ quantity = [o \in Orders |-> 0]
  /\ executed = [o \in Orders |-> 0]
  /\ owed     = [o \in Orders |-> 0]
  /\ calling  = FALSE

Refuse(o) ==
  /\ ~calling /\ stage[o] = "unused"
  /\ stage' = [stage EXCEPT ![o] = "rejected"]
  /\ UNCHANGED <<quantity, executed, owed, calling>>

Accept(o) ==
  /\ ~calling /\ stage[o] = "unused"
  /\ stage' = [stage EXCEPT ![o] = "open"]
  /\ quantity'[o] \in Nat \ {0}
  /\ quantity' = [quantity EXCEPT ![o] = quantity'[o]]
  /\ UNCHANGED <<executed, owed, calling>>

Begin ==
  /\ ~calling
  /\ calling' = TRUE
  /\ UNCHANGED <<stage, quantity, executed, owed>>

\* To execute q of o, and perhaps to drop the rest of it at once.
Decide(o) ==
  /\ calling /\ stage[o] = "open" /\ owed[o] = 0
  /\ \E q \in 1..(quantity[o] - executed[o]) : owed' = [owed EXCEPT ![o] = q]
  /\ \E s \in {"open", "closed"} : stage' = [stage EXCEPT ![o] = s]
  /\ UNCHANGED <<quantity, executed, calling>>

\* An order that is executed in full ends with that.
Execute(o) ==
  /\ calling /\ owed[o] > 0
  /\ executed' = [executed EXCEPT ![o] = @ + owed[o]]
  /\ owed' = [owed EXCEPT ![o] = 0]
  /\ \E s \in {stage[o], "closed"} : stage' = [stage EXCEPT ![o] = s]
  /\ executed'[o] = quantity[o] => stage'[o] = "closed"
  /\ UNCHANGED <<quantity, calling>>

Closes(gone) ==
  stage' = [o \in Orders |-> IF o \in gone THEN "closed" ELSE stage[o]]

Closable == {o \in Orders : stage[o] = "open" /\ owed[o] = 0}

\* By the caller's or the venue's cancellation, or because time is up.
Close ==
  /\ \E gone \in SUBSET Closable : Closes(gone)
  /\ UNCHANGED <<quantity, executed, owed, calling>>

End ==
  /\ calling
  /\ \A o \in Orders : owed[o] = 0
  /\ \E gone \in SUBSET Closable : Closes(gone)
  /\ calling' = FALSE
  /\ UNCHANGED <<quantity, executed, owed>>

LifeNext ==
  \/ \E o \in Orders : Refuse(o) \/ Accept(o) \/ Decide(o) \/ Execute(o)
  \/ Begin \/ Close \/ End

LifeSpec == LifeInit /\ [][LifeNext]_life
=============================================================================
