-------------------------------- MODULE Prices --------------------------------
(***************************************************************************)
(* The price of one currency, Wan or MSOT: a row of prices, and a copy in  *)
(* memory with which amounts are converted.  The process reads the row     *)
(* when it starts, or asks the market if there is none; every half hour a  *)
(* job asks again.  Jobs do not wait for each other.                       *)
(***************************************************************************)
EXTENDS Naturals, FiniteSets

CONSTANTS
    Runs,           \* jobs that may run at the same time
    MaxPrice,       \* bound on the changes of the market
    MaxBoots,       \* bound on the starts of the process
    MaxFailures     \* bound on calls of the market or the database that fail

ASSUME PricesAssumption ==
    /\ IsFiniteSet(Runs)
    /\ MaxPrice \in Nat \ {0} /\ MaxBoots \in Nat /\ MaxFailures \in Nat

VARIABLES
    market,         \* the price, numbered in the order of its changes
    stored,         \* the row of prices, 0 if there is none
    memory,         \* CurrencyConverterService.wanPrice, 0 if undefined
    runs,           \* the running jobs
    jostled,        \* two of them have run at the same time since the start
    boots,          \* starts of the process so far
    failures        \* failing calls so far

pricesVars == <<market, stored, memory, runs, jostled, boots, failures>>

-----------------------------------------------------------------------------
(* Types                                                                   *)

Rest == [pc |-> "rest", price |-> 0]
Run  == [pc : {"looking", "asking", "saving", "setting"}, price : 0..MaxPrice]

PricesTypeOK ==
    /\ market \in 1..MaxPrice
    /\ stored \in 0..MaxPrice /\ memory \in 0..MaxPrice
    /\ runs \in [Runs -> Run \cup {Rest}]
    /\ jostled \in BOOLEAN
    /\ boots \in 0..MaxBoots
    /\ failures \in 0..MaxFailures

PricesInit ==
    /\ market = 1 /\ stored = 0 /\ memory = 0
    /\ runs = [r \in Runs |-> Rest]
    /\ jostled = FALSE
    /\ boots = 0 /\ failures = 0

-----------------------------------------------------------------------------
(* Actions                                                                 *)

MoveRun(r, p) == runs' = [runs EXCEPT ![r].pc = p]

Change ==
    /\ market < MaxPrice
    /\ market' = market + 1
    /\ UNCHANGED <<stored, memory, runs, jostled, boots, failures>>

\* Mutant: the row is not looked for, the process waits for the first job.
InitPriceNever(r) ==
    /\ runs[r].pc = "looking"
    /\ runs' = [runs EXCEPT ![r] = Rest]
    /\ UNCHANGED <<market, stored, memory, jostled, boots, failures>>

\* initWanPrice, initMsotPrice: the row if there is one.
InitPrice(r) ==
    /\ runs[r].pc = "looking"
    /\ IF stored = 0 THEN MoveRun(r, "asking") /\ UNCHANGED memory
       ELSE runs' = [runs EXCEPT ![r] = Rest] /\ memory' = stored
    /\ UNCHANGED <<market, stored, jostled, boots, failures>>

\* The schedule of getWanPrice, getMsotPrice.
EveryHalfHour(r) ==
    /\ boots > 0
    /\ runs[r] = Rest
    /\ jostled' = (jostled \/ \E x \in Runs : runs[x] # Rest)
    /\ MoveRun(r, "asking")
    /\ UNCHANGED <<market, stored, memory, boots, failures>>

\* exchangeService.getPrice, coinGeckoService.getPrice.
GetPrice(r) ==
    /\ runs[r].pc = "asking"
    /\ runs' = [runs EXCEPT ![r] = [pc |-> "saving", price |-> market]]
    /\ UNCHANGED <<market, stored, memory, jostled, boots, failures>>

\* saveWanPrice, saveMsotPrice: the only row of the key.
SavePrice(r) ==
    /\ runs[r].pc = "saving"
    /\ stored' = runs[r].price
    /\ MoveRun(r, "setting")
    /\ UNCHANGED <<market, memory, jostled, boots, failures>>

\* Mutant: the price the market has now.
SetPriceAnew(r) ==
    /\ runs[r].pc = "setting"
    /\ memory' = market
    /\ runs' = [runs EXCEPT ![r] = Rest]
    /\ UNCHANGED <<market, stored, jostled, boots, failures>>

\* Mutant: the job saves the row only.
SetPriceNever(r) ==
    /\ runs[r].pc = "setting"
    /\ runs' = [runs EXCEPT ![r] = Rest]
    /\ UNCHANGED <<market, stored, memory, jostled, boots, failures>>

SetPrice(r) ==
    /\ runs[r].pc = "setting"
    /\ memory' = runs[r].price
    /\ runs' = [runs EXCEPT ![r] = Rest]
    /\ UNCHANGED <<market, stored, jostled, boots, failures>>

\* The market or the database fails: the error is logged, nothing is tried again.
FailRun(r) ==
    /\ runs[r].pc \in {"looking", "asking", "saving"}
    /\ failures < MaxFailures
    /\ failures' = failures + 1
    /\ runs' = [runs EXCEPT ![r] = Rest]
    /\ UNCHANGED <<market, stored, memory, jostled, boots>>

\* The process starts, or stops and starts again.
StartProcess ==
    /\ boots < MaxBoots
    /\ boots' = boots + 1
    /\ memory' = 0
    /\ \E r \in Runs : runs' = [x \in Runs |-> IF x = r THEN [pc |-> "looking", price |-> 0]
                                               ELSE Rest]
    /\ jostled' = FALSE
    /\ UNCHANGED <<market, stored, failures>>

RunStep(r) == InitPrice(r) \/ GetPrice(r) \/ SavePrice(r) \/ SetPrice(r)

Schedule == \E r \in Runs : EveryHalfHour(r)

PricesNext ==
    \/ Change \/ StartProcess \/ Schedule
    \/ \E r \in Runs : RunStep(r) \/ FailRun(r)

\* Jobs are started and go on.
PricesFairness ==
    /\ WF_pricesVars(Schedule)
    /\ \A r \in Runs : WF_pricesVars(RunStep(r))

PricesSpec == PricesInit /\ [][PricesNext]_pricesVars /\ PricesFairness

-----------------------------------------------------------------------------
(* Properties                                                              *)

\* Unless two jobs ran at once, memory and row are equal whenever no job is at
\* work, where only a start that failed may have left memory undefined.
MemoryFollowsRow ==
    ~jostled /\ boots > 0 /\ (\A r \in Runs : runs[r] = Rest)
        => memory = stored \/ (memory = 0 /\ failures > 0)

PricesSound == PricesTypeOK /\ MemoryFollowsRow

\* Memory is not left undefined: the next job that gets an answer ends it.
PricesServed == boots > 0 /\ memory = 0 ~> memory # 0
=============================================================================
