-------------------------- MODULE CoordinationLog --------------------------
(***************************************************************************)
(* What the coordination gateway promises its clients, with no mutex, no   *)
(* witnesses and no database: a single log of links that only ever grows   *)
(* at its end, one link for each request that is committed, and a client   *)
(* is told "acknowledged" only after the link of its own request is there. *)
(* A crash loses replies and uncommitted requests, never a link.           *)
(***************************************************************************)
EXTENDS Naturals, Sequences

CONSTANTS Requests, \* calls of POST /v1/coordinate
          Links     \* what one event adds to the log

VARIABLES chain,    \* the log: the sequence of links committed so far
          outcome   \* outcome[r]: what has become of request r

logVars == <<chain, outcome>>

Outcomes == {"pending", "committed", "acknowledged", "orphaned",
             "refused", "dropped"}

LogTypeOK == /\ chain \in Seq(Links)
             /\ outcome \in [Requests -> Outcomes]

LogInit == /\ chain = <<>>
           /\ outcome = [r \in Requests |-> "pending"]

\* The request becomes the next link of the log.
Commit(r) == /\ outcome[r] = "pending"
             /\ \E l \in Links : chain' = Append(chain, l)
             /\ outcome' = [outcome EXCEPT ![r] = "committed"]

\* A committed request is answered; the answer may be lost on its way.
Acknowledge(r) == /\ outcome[r] = "committed"
                  /\ outcome' = [outcome EXCEPT ![r] = "acknowledged"]
                  /\ UNCHANGED chain

Orphan(r) == /\ outcome[r] = "committed"
             /\ outcome' = [outcome EXCEPT ![r] = "orphaned"]
             /\ UNCHANGED chain

\* The request is answered with an error and leaves nothing behind.
Refuse(r) == /\ outcome[r] = "pending"
             /\ outcome' = [outcome EXCEPT ![r] = "refused"]
             /\ UNCHANGED chain

\* A crash: each of the requests S under way is cut off where it stands.
Interrupt(S) ==
  /\ outcome' = [r \in Requests |->
                   IF r \in S /\ outcome[r] = "pending"   THEN "dropped"
                   ELSE IF r \in S /\ outcome[r] = "committed" THEN "orphaned"
                   ELSE outcome[r]]
  /\ UNCHANGED chain

LogNext == \/ \E r \in Requests : \/ Commit(r) \/ Acknowledge(r)
                                  \/ Orphan(r) \/ Refuse(r)
           \/ \E S \in SUBSET Requests : Interrupt(S)

LogSpec == LogInit /\ [][LogNext]_logVars
============================================================================
