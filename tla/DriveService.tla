---------------------------- MODULE DriveService ----------------------------
(***************************************************************************)
(* What ~/drive promises its clients, in the terms of a request: a motor   *)
(* turns as the last accepted request said when it was taken up, limited   *)
(* to what the speed loop can do, and in the direction that was asked for  *)
(* however it is mounted; a request that is too old counts as a request to *)
(* stop; and a motor may be stopped at any time.                           *)
(*                                                                         *)
(* Lifecycle, backend, port, locks, threads, lost frames and restarts are  *)
(* hidden: Drivechain implements this specification.                       *)
(***************************************************************************)
EXTENDS Integers

CONSTANTS
  Motors,    \* the motors a request may name
  Units,     \* the motors that are there
  Obeys,     \* the name each of them obeys
  Requests,  \* what is asked for, per named motor
  Limit,     \* the speed loop turns no faster
  Timeout    \* age from which a request is too old

VARIABLES
  request, age,  \* the last request accepted, and how old it is
  applied,       \* the request that is being carried out
  turning        \* how each motor turns, in the direction of a request

vars == <<request, age, applied, turning>>

Nothing == [m \in Motors |-> 0]

Limited(rpm) == IF rpm > Limit THEN Limit ELSE IF rpm < -Limit THEN -Limit ELSE rpm

Init ==
  /\ request = Nothing /\ age = Timeout
  /\ applied = Nothing
  /\ turning = [u \in Units |-> 0]

Accept ==
  /\ request' \in Requests /\ age' = 0
  /\ UNCHANGED <<applied, turning>>

Elapse ==
  /\ age < Timeout /\ age' = age + 1
  /\ UNCHANGED <<request, applied, turning>>

\* One request is carried out at a time, and none that is too old.
Take ==
  /\ applied = Nothing
  /\ applied' = IF age < Timeout THEN request ELSE Nothing
  /\ UNCHANGED <<request, age, turning>>

Apply(m) ==
  /\ turning' = [u \in Units |-> IF Obeys[u] = m THEN Limited(applied[m]) ELSE turning[u]]
  /\ UNCHANGED <<request, age, applied>>

\* Whatever stops a motor stops it whole.
Brakes == \A u \in Units : turning'[u] \in {0, turning[u]}

Brake == turning' \in [Units -> Int] /\ Brakes /\ UNCHANGED <<request, age, applied>>

Done == applied' = Nothing /\ UNCHANGED <<request, age, turning>>

\* The service goes away and comes back: what was asked for is forgotten.
Reset ==
  /\ request' = Nothing /\ age' = Timeout
  /\ applied' = Nothing
  /\ turning' \in [Units -> Int] /\ Brakes

Next == Accept \/ Elapse \/ Take \/ (\E m \in Motors : Apply(m)) \/ Brake \/ Done \/ Reset

Spec == Init /\ [][Next]_vars
=============================================================================
