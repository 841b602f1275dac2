------------------------------ MODULE MCFollow ------------------------------
(***************************************************************************)
(* The follow controller with two peers and configurations that differ in  *)
(* target, slot, stick axes and reporting, one of which is refused; and    *)
(* the link to the flight controller, with two box lists that swap the     *)
(* places of the two modes.  They are examined one at a time: what the     *)
(* link tells the follow controller is any input Follow allows, and in a   *)
(* behaviour of the link the position, the altitude or the modes vary.     *)
(***************************************************************************)
EXTENDS Follow, FcLink

Slot(long, lat, vert) ==
    [axis \in Axis |-> IF axis = "long" THEN long ELSE IF axis = "lat" THEN lat ELSE vert]

ChaseHigh == [target |-> NoUid, offset |-> Slot(-2, 0, 2), rcAxes |-> {}, gvar |-> TRUE]
Sticks == [target |-> "a", offset |-> Slot(-2, -2, 1), rcAxes |-> {"long", "lat"}, gvar |-> TRUE]
Quiet == [target |-> "a", offset |-> Slot(2, 0, 1), rcAxes |-> {}, gvar |-> FALSE]
OnTop == [target |-> NoUid, offset |-> Slot(0, 0, 2), rcAxes |-> {}, gvar |-> TRUE]

Configs == {ChaseHigh, Sticks, Quiet, OnTop}

Straight == <<"arm", "nav">>
Layouts == {Straight, <<"nav", "arm">>}
Flights ==
    {[wired |-> TRUE, inav |-> FALSE, modes |-> {{}}, fix |-> BOOLEAN, boxes |-> {Straight},
      loses |-> {"variant", "boxes", "gps"}],
     [wired |-> TRUE, inav |-> TRUE, modes |-> {{}, {"nav"}}, fix |-> {FALSE},
      boxes |-> {Straight}, loses |-> {"version", "mixer", "status", "altitude"}],
     [wired |-> FALSE, inav |-> FALSE, modes |-> {{}}, fix |-> {FALSE}, boxes |-> {Straight},
      loses |-> {}]}
    \cup [wired : {TRUE}, inav : BOOLEAN, modes : {{{}, {"arm"}}}, fix : {{FALSE}},
          boxes : {Layouts}, loses : {{"boxes", "status"}}]

MCInit == Init /\ LinkInit
FollowStep == ~flight.wired /\ Next /\ UNCHANGED linkVars
FcLinkStep == LinkStep /\ UNCHANGED vars
MCSpec == MCInit /\ [][FollowStep \/ FcLinkStep]_<<vars, linkVars>>
=============================================================================
