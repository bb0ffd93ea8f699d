----------------------------- MODULE PrintSpool -----------------------------
(***************************************************************************)
(* What a lab printer promises its clients, without threads, resources or  *)
(* wake-ups: every accepted job gets the next number, waits its turn and   *)
(* comes out exactly once, in the order of acceptance, and nothing is      *)
(* accepted or printed while the printer is offline.                       *)
(***************************************************************************)
EXTENDS Integers, Sequences

CONSTANTS
  Sources,      \* hostnames a client may claim
  PageCounts,   \* the page counts a job may have
  FirstJobId    \* the number of the first job

VARIABLES
  pending,      \* accepted jobs, oldest first
  output,       \* printed jobs, oldest first
  online        \* FALSE while the printer is offline

vars == <<pending, output, online>>

Ticket == [id : Int, device : Sources, pages : PageCounts]

Init ==
  /\ pending = <<>>
  /\ output = <<>>
  /\ online = TRUE

\* A job is accepted under the next unused number.
Accept(source, pages) ==
  /\ online
  /\ pending' = Append(pending, [id     |-> FirstJobId + Len(output) + Len(pending),
                                 device |-> source,
                                 pages  |-> pages])
  /\ UNCHANGED <<output, online>>

\* The oldest waiting job leaves the printer.
Deliver ==
  /\ online
  /\ pending # <<>>
  /\ output' = Append(output, Head(pending))
  /\ pending' = Tail(pending)
  /\ UNCHANGED online

Switch ==
  /\ online' \in BOOLEAN
  /\ UNCHANGED <<pending, output>>

Next ==
  \/ \E source \in Sources, pages \in PageCounts : Accept(source, pages)
  \/ Deliver
  \/ Switch

Spec == Init /\ [][Next]_vars
=============================================================================
