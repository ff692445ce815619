---------------------------- MODULE JobLifecycle ----------------------------
(***************************************************************************)
(* What the generation queue promises about one job, whoever executes it:  *)
(* its status, the ledger of its published cards, and the log a client     *)
(* replays.  ResourceJobs implements one copy of this for every job.       *)
(***************************************************************************)
EXTENDS Naturals, Sequences

CONSTANTS
    Cards,      \* card types
    Requested,  \* the cards this job was created for
    Contents,   \* payloads
    None        \* SQL NULL

VARIABLES status, ledger, log

vars == <<status, ledger, log>>

Ended == status \in {"completed", "partial", "failed"}
Published == {c \in Cards : ledger[c] # None}

\* The terminal events an ended job owes its clients.
EndEvents ==
    CASE status = "completed" -> <<"completed">>
      [] status = "partial"   -> <<"partial", "completed">>
      [] status = "failed"    -> <<"failed">>
      [] OTHER                -> <<>>

Told == {log[i].type : i \in DOMAIN log}

Init ==
    /\ status = "absent"
    /\ ledger = [c \in Cards |-> None]
    /\ log = <<>>

Move(from, to) ==
    /\ status = from
    /\ status' = to
    /\ UNCHANGED <<ledger, log>>

\* Publication and its event are one step, while some run holds the job.
Publish(held, c, v) ==
    /\ status \in held
    /\ ledger[c] = None
    /\ ledger' = [ledger EXCEPT ![c] = v]
    /\ log' = Append(log, [type |-> "card_ready", card |-> c])
    /\ UNCHANGED status

Complete(held) ==
    /\ \E from \in held : Move(from, "completed")
    /\ Requested \subseteq Published
Fail == \E from \in {"queued", "running"} : Move(from, "failed")

\* The end is told after it is durable, once, if nobody crashes in between.
TellEnd ==
    /\ \E i \in DOMAIN EndEvents :
         /\ EndEvents[i] \notin Told
         /\ \A k \in 1..(i - 1) : EndEvents[k] \in Told
         /\ log' = Append(log, [type |-> EndEvents[i], card |-> None])
    /\ UNCHANGED <<status, ledger>>

\* held: the statuses in which a run may publish cards and end the job.
Step(held) ==
    \/ Move("absent", "queued")
    \/ Move("queued", "running")
    \/ Move("running", "queued")
    \/ \E c \in Cards, v \in Contents : Publish(held, c, v)
    \/ Complete(held)
    \/ \E from \in held : Move(from, "partial")
    \/ Fail
    \/ TellEnd

Next == Step({"running"})

\* Where two runs of one owner id hold the job, the one may go on after the
\* other has queued it again.
Overlapping == Step({"queued", "running"})

Spec == Init /\ [][Next]_vars

=============================================================================
