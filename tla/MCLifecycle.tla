----------------------------- MODULE MCLifecycle -----------------------------
EXTENDS Lifecycle
CONSTANTS u, f
MCKind == [r \in {u, f} |-> IF r = u THEN "url" ELSE "file"]
MCPolicies ==
    {[decays |-> TRUE, soft |-> 0, grace |-> 0, audited |-> FALSE, batch |-> 1],
     [decays |-> FALSE, soft |-> Never, grace |-> 0, audited |-> TRUE, batch |-> 1]}
==============================================================================
