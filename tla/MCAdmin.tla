------------------------------ MODULE MCAdmin -------------------------------
(* Two commands of an admin or a viewer, and one query beside them.        *)
EXTENDS Graph, TLC

CONSTANTS a, b, root, guest

MCRole == [u \in {root, guest} |-> IF u = root THEN "admin" ELSE "viewer"]

MCSymmetry == Permutations({a, b})

MCSelections == {{"apiKeys"}, {"auditLog"}, {"dashboardMetrics"}, {"me", "modelVersion"}, {"rolloutByModel"},
                 {"models"}, {"modelDraft"}, {"rollout"}, {"rollouts"}, {"providerHealth"}}
=============================================================================
