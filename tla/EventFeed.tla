------------------------------ MODULE EventFeed ------------------------------
(***************************************************************************)
(* What event delivery promises of one goal context, without saying how:   *)
(* events arrive and get a place in line; one event at a time is worked    *)
(* on, always the earliest one that is not done; work may be given up and  *)
(* taken up again any number of times; and a finished event stays          *)
(* finished.                                                               *)
(***************************************************************************)
EXTENDS Naturals

CONSTANTS Events, SourceTime

VARIABLES
  stage,   \* absent, waiting, working or done, for each event
  place    \* the sequence number an event got when it arrived

feedVars == <<stage, place>>

Before(e, f) ==
  \/ SourceTime[e] < SourceTime[f]
  \/ SourceTime[e] = SourceTime[f] /\ place[e] < place[f]

FeedInit ==
  /\ stage = [e \in Events |-> "absent"]
  /\ place = [e \in Events |-> 0]

Arrive(e) ==
  /\ stage[e] = "absent"
  /\ stage' = [stage EXCEPT ![e] = "waiting"]
  /\ place' \in [Events -> Nat]
  /\ \A f \in Events \ {e} : place'[f] = place[f] /\ place[f] < place'[e]

TakeUp(e) ==
  /\ stage[e] = "waiting"
  /\ \A f \in Events \ {e} :
       /\ stage[f] # "working"
       /\ stage[f] = "waiting" => Before(e, f)
  /\ stage' = [stage EXCEPT ![e] = "working"]
  /\ UNCHANGED place

GiveUp(e) ==
  /\ stage[e] = "working"
  /\ stage' = [stage EXCEPT ![e] = "waiting"]
  /\ UNCHANGED place

Finish(e) ==
  /\ stage[e] = "working"
  /\ stage' = [stage EXCEPT ![e] = "done"]
  /\ UNCHANGED place

FeedNext == \E e \in Events : Arrive(e) \/ TakeUp(e) \/ GiveUp(e) \/ Finish(e)

FeedSpec == FeedInit /\ [][FeedNext]_feedVars
=============================================================================
