---------------------------- MODULE TurnContract ----------------------------
(***************************************************************************)
(* What one caller of POST /ask is promised, whatever the graph does to    *)
(* keep it.  A turn is asked, its row is opened, its query either runs or  *)
(* is given up on, and the row is closed once.  Memory is touched in one   *)
(* window only: after the query ran and before the row is closed.  Any     *)
(* turn may also stop early, leaving the log as it is or closing one row   *)
(* that was still open.                                                    *)
(***************************************************************************)
EXTENDS Naturals, Sequences

CONSTANT Names          \* what entries of the memory are called

VARIABLES
  stage,                \* how far the current turn has come
  keeps,                \* may the current turn keep what it learns?
  known,                \* the names memory holds
  hits,                 \* how often each has been credited
  log                   \* the status of every turn row, in id order

vars == <<stage, keeps, known, hits, log>>

Status == {"open", "answered", "gave_up", "failed"}

Init ==
  /\ stage = "idle"
  /\ keeps = TRUE
  /\ known = {}
  /\ hits = [n \in Names |-> 0]
  /\ log = <<>>

Ask ==
  /\ stage = "idle"
  /\ stage' = "asked"
  /\ keeps' \in BOOLEAN
  /\ UNCHANGED <<known, hits, log>>

Open ==
  /\ stage = "asked"
  /\ stage' = "working"
  /\ log' = Append(log, "open")
  /\ UNCHANGED <<keeps, known, hits>>

Resolve ==
  /\ stage = "working"
  /\ stage' \in {"ran", "dead"}
  /\ UNCHANGED <<keeps, known, hits, log>>

Learn(n) ==
  /\ stage = "ran"
  /\ keeps
  /\ known' = known \union {n}
  /\ UNCHANGED <<stage, keeps, hits, log>>

Credit(S) ==
  /\ stage = "ran"
  /\ hits' = [n \in Names |-> hits[n] + (IF n \in S THEN 1 ELSE 0)]
  /\ UNCHANGED <<stage, keeps, known, log>>

Close ==
  /\ stage \in {"ran", "dead"}
  /\ stage' = "closed"
  /\ log' = [log EXCEPT ![Len(log)] =
               IF stage = "ran" THEN "answered" ELSE "gave_up"]
  /\ UNCHANGED <<keeps, known, hits>>

\* An ended turn, complete or not.
Stop ==
  /\ stage # "idle"
  /\ stage' = "idle"
  /\ UNCHANGED <<keeps, known, hits, log>>

\* A turn that threw: one open row, whoever opened it, is closed as failed.
StopFailed ==
  /\ stage # "idle"
  /\ stage' = "idle"
  /\ \E i \in DOMAIN log :
       /\ log[i] = "open"
       /\ log' = [log EXCEPT ![i] = "failed"]
  /\ UNCHANGED <<keeps, known, hits>>

Next ==
  \/ Ask
  \/ Open
  \/ Resolve
  \/ \E n \in Names : Learn(n)
  \/ \E S \in SUBSET Names : Credit(S)
  \/ Close
  \/ Stop
  \/ StopFailed

Spec == Init /\ [][Next]_vars

=============================================================================
