--------------------------- MODULE RequestLimits ---------------------------
(***************************************************************************)
(* What the routes check of a request before they do anything: core/risk.py*)
(* and core/trading.py.  Every check that fails answers 400.               *)
(***************************************************************************)
EXTENDS Naturals, Sequences

CONSTANTS MaxRisk, MaxLeverage, MaxAccounts   \* CopierRiskLimits

ASSUME LimitsAssumption ==
  MaxRisk \in Nat /\ MaxLeverage \in Nat /\ MaxAccounts \in Nat

(* validate_account_ids and validate_manual_accounts, of the accounts' ids *)
IdsAccepted(ids) ==
  /\ ids # <<>>
  /\ \A i, k \in DOMAIN ids : ids[i] = ids[k] => i = k

(* Mutant of RiskAccepted: the leverage has no upper limit.                *)
RiskAcceptedUnlevered(risk, leverage, count) ==
  risk \in 1 .. MaxRisk /\ leverage > 0 /\ count <= MaxAccounts

(* validate_risk_inputs *)
RiskAccepted(risk, leverage, count) ==
  /\ risk \in 1 .. MaxRisk
  /\ leverage \in 1 .. MaxLeverage
  /\ count <= MaxAccounts

(* normalize_order_side *)
KnownSide(side) == side \in {"buy", "long", "sell", "short"}
NormalSide(side) == IF side \in {"buy", "long"} THEN "buy" ELSE "sell"
=============================================================================
