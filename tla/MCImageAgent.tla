----------------------------- MODULE MCImageAgent -----------------------------
(***************************************************************************)
(* ImageAgent for TLC.  Each run allows a few disturbances and bounds them; *)
(* the mutation requests of the engine are bounded where the disturbances   *)
(* could otherwise make it go on asking.                                    *)
(***************************************************************************)
EXTENDS ImageAgent

\* The disturbances named in bounds, as often as it says, and no others.
Allow(bounds) == bounds @@ [d \in Disturbance |-> 0]

Undisturbed   == Allow("request" :> Unlimited)
PowerDown     == Allow("request" :> Unlimited @@ "init" :> 1)
GoalAndDown   == Allow("request" :> Unlimited @@ "init" :> 1 @@ "goal" :> 1)
Overtaken     == Allow("request" :> Unlimited @@ "death" :> 1 @@ "preempt" :> 1)
CallsFail     == Allow("request" :> Unlimited @@ "call" :> Unlimited
                       @@ "death" :> 1 @@ "update" :> 1)

\* With two requests: once a poll has found the images and the set is IDLE, one
\* towards ACTIVE and one out of an ERROR or UPDATE; with one, the former.
RedefineTwice == Allow("request" :> 2 @@ "config" :> 2)
Races         == Allow("request" :> 2 @@ "preempt" :> 1 @@ "death" :> 1 @@ "timeout" :> 1)
Crash         == Allow("request" :> 1 @@ "kill" :> 1 @@ "config" :> 1 @@ "call" :> 1)

-----------------------------------------------------------------------------
(* What the code does not see to, and ColdStart and OutOfOrder assume: the set's      *)
(* State changes by a discovery of it only, never because a listing of the containers *)
(* puts back the one it has read (StaleBarrier shows what that leads to); and the     *)
(* operator changes the goal of a node that has settled.                              *)

NothingPutBack == dsc'.state # dsc.state => dchan' # dchan
SettledFirst   == goal' # goal => Quiescent

OrderlySpec == Init /\ [][Next /\ NothingPutBack /\ SettledFirst]_vars /\ Fairness

=============================================================================
