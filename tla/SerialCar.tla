------------------------------ MODULE SerialCar ------------------------------
(* What the synchronization contract promises about one car, without devices,  *)
(* requests or retries: an operation identity is bound to one command, gets    *)
(* one terminal outcome, and changes the car in the very step that makes it    *)
(* "applied", which it may do only if the car still has the values its command *)
(* was built on.                                                               *)
CONSTANTS Operations,      \* operation identities
          Fits(_, _),      \* Fits(command, car): the car has the base values
          Effect(_, _),    \* Effect(command, car): the car after the command
          Repeatable(_)    \* may be applied to a car that already has its effect

VARIABLES car,             \* the row of the car
          outcome,         \* the outcome of every operation
          command          \* the command an operation is bound to

vars == <<car, outcome, command>>

Terminal == {"applied", "conflict", "rejected"}

Init == outcome = [o \in Operations |-> "none"]

(* An identity is bound to the first command it arrives with.                  *)
Accept(o) ==
    /\ outcome[o] = "none"
    /\ outcome' = [outcome EXCEPT ![o] = "pending"]
    /\ \A p \in Operations \ {o} : command'[p] = command[p]
    /\ UNCHANGED car

Apply(o) ==
    /\ outcome[o] = "pending"
    /\ Fits(command[o], car)
    /\ car' = Effect(command[o], car)
    /\ outcome' = [outcome EXCEPT ![o] = "applied"]
    /\ UNCHANGED command

(* A terminal outcome that leaves the car alone.                               *)
Settle(o) ==
    /\ outcome[o] = "pending"
    /\ \E verdict \in Terminal :
          /\ verdict = "applied" => Repeatable(command[o])
          /\ outcome' = [outcome EXCEPT ![o] = verdict]
    /\ UNCHANGED <<car, command>>

Next == \E o \in Operations : Accept(o) \/ Apply(o) \/ Settle(o)

Spec == Init /\ [][Next]_vars
=============================================================================
