-------------------------------- MODULE MCPlans --------------------------------
(***************************************************************************)
(* From the configuration to the books: the store of the dashboard; a      *)
(* stream of records and the tailer of the routine that plans by it; the   *)
(* plans of the grid engine and an order they refresh; the gates of shared *)
(* limits of the shadow session and of the portfolio controller; and both  *)
(* ledgers through every sequence of a few fills of one or two lots, which *)
(* add to, reduce, close and turn a position.  One of the six at a time    *)
(* runs, the others wait where they begin.                                 *)
(***************************************************************************)
EXTENDS GridRefresh, PositionLedger, ConfigStore, PortfolioRisk, PortfolioController,
        CondorTailer

CONSTANTS s1, s2                \* sessions of the store

VARIABLE part                    \* which of the six it is

\* Of the plan engine: two levels a side, one in DEFENSIVE.
NoNumber == -1000

ByMode(normal, defensive, bias) ==
    [m \in WorkingMode |-> IF m = "NORMAL" THEN normal
                           ELSE IF m = "DEFENSIVE" THEN defensive ELSE bias]
Widths == ByMode(100, 150, 100)
Shares == ByMode(100, 50, 100)
TwoLevels == ByMode(2, 1, 2)

In(mode, direction, ratio, volatility, reference) ==
    [usable |-> TRUE, mode |-> mode, direction |-> direction, ratio |-> ratio,
     volatility |-> volatility, spread |-> 4, reference |-> reference]

\* The price in small steps, inventory on either side with either bias, wild
\* and calm markets, and inputs that disable the plan.
SomeInputs ==
    {In(m, 100, r, 100, 1000) : m \in {"NORMAL", "LONG_BIAS"}, r \in {-100, -40, 0, 40, 100}}
    \cup {In("SHORT_BIAS", -100, r, 100, 1000) : r \in {-40, 100}}
    \cup {In("NORMAL", Missing, 0, 100, p) : p \in {1002, 1004, 1008}}
    \cup {In("DEFENSIVE", Missing, 0, v, 1000) : v \in {100, 400}}
    \cup {In("PAUSE", 0, 0, 100, 1000), In("NORMAL", 0, Missing, 100, 1000),
          In("LONG_BIAS", Missing, 0, 100, 1000)}

\* Of the portfolio.
TwoMarkets == <<"BTC", "ETH">>
UnitBeta == [p \in {"BTC", "ETH"} |-> 1]
UnitBetas == {UnitBeta}

PartsInit ==
    /\ part \in {"store", "plan", "gate", "controller", "ledger", "tailer"}
    /\ Init /\ StoreInit /\ RiskInit /\ ControllerInit /\ LedgerInit /\ CondorInit
    /\ part # "plan" => input = CHOOSE in \in Inputs : TRUE

StorePart ==
    /\ part = "store" /\ StoreNext
    /\ UNCHANGED <<part, vars, riskVars, controllerVars, ledgerVars, condorVars>>

PlanPart ==
    /\ part = "plan" /\ Next
    /\ UNCHANGED <<part, storeVars, riskVars, controllerVars, ledgerVars, condorVars>>

GatePart ==
    /\ part = "gate" /\ RiskNext
    /\ UNCHANGED <<part, vars, storeVars, controllerVars, ledgerVars, condorVars>>

ControllerPart ==
    /\ part = "controller" /\ ControllerNext
    /\ UNCHANGED <<part, vars, storeVars, riskVars, ledgerVars, condorVars>>

LedgerPart ==
    /\ part = "ledger" /\ LedgerNext
    /\ UNCHANGED <<part, vars, storeVars, riskVars, controllerVars, condorVars>>

TailerPart ==
    /\ part = "tailer" /\ CondorNext
    /\ UNCHANGED <<part, vars, storeVars, riskVars, controllerVars, ledgerVars>>

PartsNext ==
    \/ StorePart \/ PlanPart \/ GatePart \/ ControllerPart \/ LedgerPart \/ TailerPart

PartsSpec ==
    PartsInit /\ [][PartsNext]_<<
                       part, vars, storeVars, riskVars, controllerVars, ledgerVars, condorVars>>

\* The plan engine and its order alone.
PlanSpec ==
    /\ PartsInit /\ part = "plan"
    /\ [][PlanPart]_<<
            part, vars, storeVars, riskVars, controllerVars, ledgerVars, condorVars>>
================================================================================
