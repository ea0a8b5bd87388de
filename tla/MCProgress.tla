------------------------------- MODULE MCProgress -------------------------------
(***************************************************************************)
(* The modules with promises of progress for TLC.  They share no state, so *)
(* one of them runs in each behaviour, with the fairness it states.        *)
(***************************************************************************)
EXTENDS Marketplace, MediaStore, SotSync, Prices

CONSTANTS b1, b2, coat, hood, k1, c1, c2, cron

VARIABLE part       \* the module that runs

MCBlocks == <<1, 2, 2>>

Init ==
    /\ MarketInit /\ MediaInit /\ SotInit /\ PricesInit
    /\ part \in {"market", "media", "sot", "prices"}

Market(A) == part = "market" /\ A /\ UNCHANGED <<mediaVars, sotVars, pricesVars, part>>
Media(A)  == part = "media" /\ A /\ UNCHANGED <<marketVars, sotVars, pricesVars, part>>
Sot(A)    == part = "sot" /\ A /\ UNCHANGED <<marketVars, mediaVars, pricesVars, part>>
Priced(A) == part = "prices" /\ A /\ UNCHANGED <<marketVars, mediaVars, sotVars, part>>

Next == Market(MarketNext) \/ Media(MediaNext) \/ Sot(SotNext) \/ Priced(PricesNext)

vars == <<marketVars, mediaVars, sotVars, pricesVars, part>>

\* The fairness of MarketSpec, MediaSpec, SotSpec and PricesSpec, each where its
\* module runs.
Spec ==
    /\ Init /\ [][Next]_vars
    /\ \A b \in Buyers : WF_vars(Market(Trade(b)))
    /\ \A h \in Clerks \cup {Cron} : WF_vars(Media(MediaStep(h)))
    /\ WF_vars(Media(SweepDue)) /\ WF_vars(Media(TimePasses))
    /\ WF_vars(Priced(Schedule)) /\ \A r \in Runs : WF_vars(Priced(RunStep(r)))
    /\ WF_vars(Sot(SyncSotdata)) /\ WF_vars(Sot(AddBlock)) /\ WF_vars(Sot(JobStep))
=============================================================================
