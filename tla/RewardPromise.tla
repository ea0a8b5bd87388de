---------------------------- MODULE RewardPromise ----------------------------
(***************************************************************************)
(* What the survey economy promises its users, without its machinery: a    *)
(* survey is funded, users join it once it is funded, and a distribution   *)
(* credits, in one step and as a whole, a group of its participants that   *)
(* is no larger than the number of rewardees its form announced.           *)
(***************************************************************************)
EXTENDS Integers, FiniteSets

CONSTANTS Users, Surveys

VARIABLES
    funded,         \* payments received for the survey
    joined,         \* who took part in it
    credited,       \* rewards each user received for it
    quota           \* how many rewardees a distribution may have

promiseVars == <<funded, joined, credited, quota>>

Init ==
    /\ funded = [s \in Surveys |-> 0]
    /\ joined = [s \in Surveys |-> {}]
    /\ credited = [s \in Surveys |-> [u \in Users |-> 0]]
    /\ quota = [s \in Surveys |-> 0]

\* The number of rewardees is announced once, before anything else happens.
Announce(s) ==
    /\ quota[s] = 0
    /\ quota'[s] \in Nat \ {0}
    /\ quota' = [quota EXCEPT ![s] = quota'[s]]
    /\ UNCHANGED <<funded, joined, credited>>

Fund(s) ==
    /\ quota[s] > 0
    /\ funded' = [funded EXCEPT ![s] = @ + 1]
    /\ UNCHANGED <<joined, credited, quota>>

Join(s, u) ==
    /\ funded[s] > 0
    /\ joined' = [joined EXCEPT ![s] = @ \cup {u}]
    /\ UNCHANGED <<funded, credited, quota>>

Distribute(s, W) ==
    /\ funded[s] > 0
    /\ W \subseteq joined[s]
    /\ Cardinality(W) <= quota[s]
    /\ credited' = [credited EXCEPT ![s] =
                      [u \in Users |-> @[u] + IF u \in W THEN 1 ELSE 0]]
    /\ UNCHANGED <<funded, joined, quota>>

Next ==
    \E s \in Surveys :
        \/ Announce(s)
        \/ Fund(s)
        \/ \E u \in Users : Join(s, u)
        \/ \E W \in SUBSET Users : Distribute(s, W)

Spec == Init /\ [][Next]_promiseVars
=============================================================================
