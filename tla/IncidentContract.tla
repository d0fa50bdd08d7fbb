-------------------------- MODULE IncidentContract --------------------------
(***************************************************************************)
(* What the check pipeline promises about one monitor, with no workers,    *)
(* tasks, tables or requests: outages follow one another and never         *)
(* overlap, a closed outage is never reopened, the start of an automatic   *)
(* outage is announced at most once, and its end only when it has ended.   *)
(***************************************************************************)
EXTENDS Naturals, Sequences

VARIABLES outages, told

Outage == [kind: {"auto", "manual"}, phase: {"open", "closed"}]

Begin(kind) ==
  /\ \A i \in DOMAIN outages : outages[i].phase = "closed"
  /\ outages' = Append(outages, [kind |-> kind, phase |-> "open"])
  /\ UNCHANGED told

End(i) ==
  /\ outages[i].phase = "open"
  /\ outages' = [outages EXCEPT ![i].phase = "closed"]
  /\ UNCHANGED told

TellDown(i) ==
  /\ outages[i].kind = "auto"
  /\ \A a \in DOMAIN told : told[a] # [event |-> "down", incident |-> i]
  /\ told' = Append(told, [event |-> "down", incident |-> i])
  /\ UNCHANGED outages

TellUp(i) ==
  /\ outages[i].phase = "closed"
  /\ told' = Append(told, [event |-> "up", incident |-> i])
  /\ UNCHANGED outages

Init == outages = <<>> /\ told = <<>>

Next == \/ \E kind \in {"auto", "manual"} : Begin(kind)
        \/ \E i \in DOMAIN outages : End(i) \/ TellDown(i) \/ TellUp(i)

Spec == Init /\ [][Next]_<<outages, told>>
=============================================================================
