---------------------------- MODULE MCSwarmRuntime ----------------------------
EXTENDS SwarmRuntime, TLC

CONSTANTS a, b, c

\* Two tasks without upstreams, and one that takes the result of both.
Join == (a :> {}) @@ (b :> {}) @@ (c :> {a, b})

\* Nothing has changed, or one task upstream.
FirstMayChange == {{}, {a}}
================================================================================
