---------------------------- MODULE SuspendSwitch ----------------------------
(***************************************************************************)
(* What cronjobs_suspend and cronjobs_resume promise of the switch that a  *)
(* CronJob's spec.suspend is.  Others turn switches, add and remove them   *)
(* at any time.  A call puts its switch where it was asked to at most once,*)
(* in one atomic step, and never anywhere else; a call that succeeds found *)
(* or put it there after it was asked, and reports a position the switch   *)
(* had from then on.  A call that fails may have turned it all the same.   *)
(***************************************************************************)
CONSTANTS Switch, Caller

VARIABLES position, call

Position == {"suspended", "running"}

Idle == [at |-> "idle"]
Call == {Idle}
        \cup [at : {"asked", "turned"}, switch : Switch, want : Position]
        \cup [at : {"succeeded"}, reported : Position]
        \cup [at : {"failed"}]

Init == /\ position \in [Switch -> Position \cup {"absent"}]
        /\ call = [c \in Caller |-> Idle]

Others == /\ \E s \in Switch, p \in Position \cup {"absent"} :
               position' = [position EXCEPT ![s] = p]
          /\ UNCHANGED call

Ask(c) == /\ \E s \in Switch, want \in Position :
               call' = [call EXCEPT
                          ![c] = [at |-> "asked", switch |-> s, want |-> want]]
          /\ UNCHANGED position

\* The caller turns to other business.
Leave(c) == call' = [call EXCEPT ![c] = Idle] /\ UNCHANGED position

Puts(c) == LET s == call[c].switch
           IN  /\ position[s] # "absent"
               /\ position' = [position EXCEPT ![s] = call[c].want]

Turn(c) == /\ call[c].at = "asked"
           /\ Puts(c)
           /\ call' = [call EXCEPT ![c].at = "turned"]

FindsThere(c) ==
  /\ call[c].at = "asked"
  /\ position[call[c].switch] = call[c].want
  /\ call' = [call EXCEPT ![c] = [at |-> "succeeded", reported |-> call[c].want]]
  /\ UNCHANGED position

Report(c) ==
  /\ call[c].at = "turned"
  /\ position[call[c].switch] # "absent"
  /\ call' = [call EXCEPT ![c] = [at |-> "succeeded",
                                  reported |-> position[call[c].switch]]]
  /\ UNCHANGED position

Fail(c) ==
  /\ \/ call[c].at \in {"asked", "turned"} /\ UNCHANGED position
     \/ call[c].at = "asked" /\ Puts(c)
  /\ call' = [call EXCEPT ![c] = [at |-> "failed"]]

Next == \/ Others
        \/ \E c \in Caller : \/ Ask(c) \/ Leave(c) \/ Turn(c)
                             \/ FindsThere(c) \/ Report(c) \/ Fail(c)

Spec == Init /\ [][Next]_<<position, call>>

=============================================================================
