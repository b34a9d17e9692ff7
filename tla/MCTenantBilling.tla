--------------------------- MODULE MCTenantBilling ---------------------------
(***************************************************************************)
(* Two plans, of which only the larger one has the feature looked at.      *)
(***************************************************************************)
EXTENDS TenantBilling, TLC

CONSTANTS small, big, widget, h1

MCFeaturesOf == small :> {} @@ big :> {widget}
=============================================================================
