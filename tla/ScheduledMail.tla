--------------------------- MODULE ScheduledMail ---------------------------
(***************************************************************************)
(* What the webmail promises about a scheduled mail, without queue, workers*)
(* and retries: until it is taken up its author can withdraw it; a mail    *)
(* that was withdrawn never goes out, and a mail that was taken up goes    *)
(* out at most once.                                                       *)
(***************************************************************************)
EXTENDS Naturals

CONSTANT Drafts

VARIABLES
    stage,  \* per draft: composed, waiting, withdrawn or taken
    out     \* how often it went out

Init ==
    /\ stage = [d \in Drafts |-> "composed"]
    /\ out = [d \in Drafts |-> 0]

Move(d, from, to) ==
    /\ stage[d] = from
    /\ stage' = [stage EXCEPT ![d] = to]
    /\ UNCHANGED out

Schedule(d) == Move(d, "composed", "waiting")
Withdraw(d) == Move(d, "waiting", "withdrawn")
TakeUp(d) == Move(d, "waiting", "taken")

GoOut(d) ==
    /\ stage[d] = "taken" /\ out[d] = 0
    /\ out' = [out EXCEPT ![d] = 1]
    /\ UNCHANGED stage

Next == \E d \in Drafts : Schedule(d) \/ Withdraw(d) \/ TakeUp(d) \/ GoOut(d)

Spec == Init /\ [][Next]_<<stage, out>>
=============================================================================
